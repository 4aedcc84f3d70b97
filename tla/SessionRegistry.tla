-------------------------- MODULE SessionRegistry --------------------------
(***************************************************************************)
(* The session registry of the relay server (server/handshake, Rust):      *)
(* AppState.users, AppState.user_session_counts and the per-session table  *)
(* of TrafficStats, with every task that touches them.  Each connection is *)
(* a task of a multi-threaded tokio runtime; a call on a DashMap is atomic,*)
(* a sequence of calls is not.  Every action below is one such call (or    *)
(* one await point), so all interleavings the runtime allows are explored. *)
(*                                                                         *)
(* A connection runs through   challenge -> add_user (seven calls) ->      *)
(* register_session -> load/save user -> inbox flush -> greeting -> loop   *)
(* -> cleanup.  The quota and inbox data these steps touch are modelled in *)
(* QuotaLedger and RelayInbox; here they only take their place in the      *)
(* order of events.                                                        *)
(***************************************************************************)
EXTENDS Integers, FiniteSets

CONSTANTS Users,           \* userIds
          SessionIds,      \* sessionIds a user's devices use
          Conns,           \* connections; a connection is its conn_id
          NoConn,          \* no session under a key
          MaxSessions,     \* config.max_sessions_per_user
          RelayFailLimit,  \* config.relay_fail_limit
          AdminOps         \* bound: commands the admin interface receives

ASSUME ConstantsOK ==
  /\ NoConn \notin Conns
  /\ Users # {}
  /\ MaxSessions \in Nat \ {0}
  /\ RelayFailLimit \in Nat \ {0}
  /\ AdminOps \in Nat

VARIABLES
  users,       \* users[k]: the conn_id registered under conn_key k, or NoConn
  fails,       \* fails[k]: relay_fail_count of the record under k
  counts,      \* user_session_counts
  stats,       \* stats[k]: the connection whose register_session made k's entry
  pc,          \* where the task of each connection is
  key,         \* the conn_key "userId:sessionId" the client claims
  disconnect,  \* the oneshot a connection selects on has fired (sent or dropped)
  iter,        \* iter[c]: the recount of add_user, keys left to visit and tally
  admin        \* the admin interface: its pc, its target and what it removed

vars == <<users, fails, counts, stats, pc, key, disconnect, iter, admin>>

Key == Users \X SessionIds
KeysOf(u) == {k \in Key : k[1] = u}
UserOf(c) == key[c][1]
Present(u) == {k \in KeysOf(u) : users[k] # NoConn}
NoIter == [left |-> {}, n |-> 0]
AdminIdle(ops) == [pc |-> "idle", user |-> CHOOSE u \in Users : TRUE,
                   left |-> {}, n |-> 0, ops |-> ops]

\* Places of a connection task, in program order.
HandshakePcs == {"idle", "challenged", "known", "limit", "evict", "insert"}
AttachedPcs  == {"recount", "setcount", "regstats", "loaduser", "saveuser",
                 "flushinbox", "greet", "loop", "kick", "kickcount",
                 "kickstats", "remove", "aborted"}
GonePcs      == {"decrement", "dropstats", "lastcheck", "retire", "closed"}
Pcs == HandshakePcs \cup AttachedPcs \cup GonePcs

AdminStates == [pc : {"idle", "session", "retain", "count", "stats"},
                user : Users, left : SUBSET Key, n : Nat, ops : Nat]

TypeOK ==
  /\ users \in [Key -> Conns \cup {NoConn}]
  /\ fails \in [Key -> 0..RelayFailLimit]
  /\ counts \in [Users -> Nat]
  /\ stats \in [Key -> Conns \cup {NoConn}]
  /\ pc \in [Conns -> Pcs]
  /\ key \in [Conns -> Key]
  /\ disconnect \in [Conns -> BOOLEAN]
  /\ iter \in [Conns -> [left : SUBSET Key, n : Nat]]
  /\ admin \in AdminStates

Init ==
  /\ users = [k \in Key |-> NoConn]
  /\ fails = [k \in Key |-> 0]
  /\ counts = [u \in Users |-> 0]
  /\ stats = [k \in Key |-> NoConn]
  /\ pc = [c \in Conns |-> "idle"]
  /\ key \in [Conns -> Key]
  /\ disconnect = [c \in Conns |-> FALSE]
  /\ iter = [c \in Conns |-> NoIter]
  /\ admin = AdminIdle(0)

----------------------------------------------------------------------------
\* Helpers: what the map operations do.

At(c, p) == pc[c] = p
Goto(c, p) == pc' = [pc EXCEPT ![c] = p]

\* The record under k leaves the map and its disconnect_tx is sent or dropped:
\* either way the receiving half of that connection completes.
Fire(d) == disconnect' = [c \in Conns |-> disconnect[c] \/ c = d]
SaturatingSub(n, m) == IF n >= m THEN n - m ELSE 0
Capped(n) == IF n > RelayFailLimit THEN RelayFailLimit ELSE n

----------------------------------------------------------------------------
(* Faulty variants of the operations, one per property: what a plausible slip *)
(* in the code would do.  No specification below uses them.                   *)

EvictSilently(c) ==                            \* forgets old.disconnect_tx
  /\ At(c, "evict") /\ Goto(c, "insert")
  /\ users' = [users EXCEPT ![key[c]] = NoConn]
  /\ UNCHANGED <<fails, counts, stats, key, disconnect, iter, admin>>

KeepLooping(c) ==                              \* the select! arm has no break
  /\ At(c, "loop") /\ disconnect[c] /\ Goto(c, "loop")
  /\ UNCHANGED <<users, fails, counts, stats, key, disconnect, iter, admin>>

RemoveByKey(c) ==                              \* remove instead of remove_if
  /\ At(c, "remove")
  /\ users' = [users EXCEPT ![key[c]] = NoConn]
  /\ Goto(c, IF users[key[c]] # NoConn THEN "decrement" ELSE "closed")
  /\ UNCHANGED <<fails, counts, stats, key, disconnect, iter, admin>>

CountEveryInsert(c) ==                         \* + 1, a reconnect included
  /\ At(c, "setcount") /\ Goto(c, "regstats")
  /\ counts' = [counts EXCEPT ![UserOf(c)] = @ + 1]
  /\ iter' = [iter EXCEPT ![c] = NoIter]
  /\ UNCHANGED <<users, fails, stats, key, disconnect, admin>>

----------------------------------------------------------------------------
\* The handshake up to add_user.

SendChallenge(c) ==
  /\ At(c, "idle") /\ Goto(c, "challenged")
  /\ UNCHANGED <<users, fails, counts, stats, key, disconnect, iter, admin>>

\* Timeout, malformed or oversized answer, wrong challenge, bad signature or
\* memory overload: the task returns before it has registered anything.
RejectHandshake(c) ==
  /\ At(c, "challenged") /\ Goto(c, "closed")
  /\ UNCHANGED <<users, fails, counts, stats, key, disconnect, iter, admin>>

Authenticate(c) ==
  /\ At(c, "challenged") /\ Goto(c, "known")
  /\ UNCHANGED <<users, fails, counts, stats, key, disconnect, iter, admin>>

\* add_user, call 1: is_reconnect = users.contains_key(conn_key).
CheckReconnect(c) ==
  /\ At(c, "known")
  /\ Goto(c, IF users[key[c]] # NoConn THEN "evict" ELSE "limit")
  /\ UNCHANGED <<users, fails, counts, stats, key, disconnect, iter, admin>>

\* add_user, call 2: the session count against max_sessions_per_user.
CheckLimit(c) ==
  /\ At(c, "limit")
  /\ Goto(c, IF counts[UserOf(c)] >= MaxSessions THEN "closed" ELSE "evict")
  /\ UNCHANGED <<users, fails, counts, stats, key, disconnect, iter, admin>>

\* add_user, call 3: users.remove(conn_key); the old connection is told to stop.
EvictOld(c) ==
  /\ At(c, "evict") /\ Goto(c, "insert")
  /\ users' = [users EXCEPT ![key[c]] = NoConn]
  /\ Fire(users[key[c]])
  /\ UNCHANGED <<fails, counts, stats, key, iter, admin>>

\* add_user, call 4: users.insert.  A record inserted by a concurrent handshake
\* since call 3 is overwritten; dropping its disconnect_tx ends its connection.
InsertSession(c) ==
  /\ At(c, "insert") /\ Goto(c, "recount")
  /\ users' = [users EXCEPT ![key[c]] = c]
  /\ fails' = [fails EXCEPT ![key[c]] = 0]
  /\ Fire(users[key[c]])
  /\ iter' = [iter EXCEPT ![c] = [left |-> KeysOf(UserOf(c)), n |-> 0]]
  /\ UNCHANGED <<counts, stats, key, admin>>

\* add_user, call 5: users.iter() locks one shard at a time, so the keys of the
\* user are visited one by one while other tasks change the map.
RecountVisit(c) ==
  /\ At(c, "recount")
  /\ \E k \in iter[c].left :
       iter' = [iter EXCEPT ![c] =
                  [left |-> @.left \ {k},
                   n |-> IF users[k] # NoConn THEN @.n + 1 ELSE @.n]]
  /\ UNCHANGED <<users, fails, counts, stats, pc, key, disconnect, admin>>

RecountDone(c) ==
  /\ At(c, "recount") /\ iter[c].left = {} /\ Goto(c, "setcount")
  /\ UNCHANGED <<users, fails, counts, stats, key, disconnect, iter, admin>>

\* add_user, call 6: user_session_counts.insert(user_id, actual).
SetCount(c) ==
  /\ At(c, "setcount") /\ Goto(c, "regstats")
  /\ counts' = [counts EXCEPT ![UserOf(c)] = iter[c].n]
  /\ iter' = [iter EXCEPT ![c] = NoIter]
  /\ UNCHANGED <<users, fails, stats, key, disconnect, admin>>

RegisterStats(c) ==
  /\ At(c, "regstats") /\ Goto(c, "loaduser")
  /\ stats' = [stats EXCEPT ![key[c]] = c]
  /\ UNCHANGED <<users, fails, counts, key, disconnect, iter, admin>>

\* load_user, save_user and the inbox flush change no registry state.
LoadUser(c) ==
  /\ At(c, "loaduser") /\ Goto(c, "saveuser")
  /\ UNCHANGED <<users, fails, counts, stats, key, disconnect, iter, admin>>

SaveUser(c) ==
  /\ At(c, "saveuser") /\ Goto(c, "flushinbox")
  /\ UNCHANGED <<users, fails, counts, stats, key, disconnect, iter, admin>>

FlushInbox(c) ==
  /\ At(c, "flushinbox") /\ Goto(c, "greet")
  /\ UNCHANGED <<users, fails, counts, stats, key, disconnect, iter, admin>>

\* The handshake answer is sent with `?`: when the client is already gone the
\* function returns from here, before the block that ends in the cleanup.
GreetClient(c) ==
  /\ At(c, "greet")
  /\ \/ Goto(c, "loop")
     \/ Goto(c, "aborted")
  /\ UNCHANGED <<users, fails, counts, stats, key, disconnect, iter, admin>>

----------------------------------------------------------------------------
\* The communication loop.

\* The select! arm of disconnect_rx.
NoticeDisconnect(c) ==
  /\ At(c, "loop") /\ disconnect[c] /\ Goto(c, "remove")
  /\ UNCHANGED <<users, fails, counts, stats, key, disconnect, iter, admin>>

\* Client close, socket error, failed send or heartbeat timeout.
LeaveLoop(c) ==
  /\ At(c, "loop") /\ Goto(c, "remove")
  /\ UNCHANGED <<users, fails, counts, stats, key, disconnect, iter, admin>>

\* A relay that reached its target: reset_relay_failure(conn_key).
RelaySucceeds(c) ==
  /\ At(c, "loop") /\ users[key[c]] # NoConn
  /\ fails' = [fails EXCEPT ![key[c]] = 0]
  /\ UNCHANGED <<users, counts, stats, pc, key, disconnect, iter, admin>>

\* A relay to nobody: record_relay_failure(conn_key) finds the record by key,
\* starts a new window (count 1) or counts up; the limit leads to the kick.
RelayFails(c) ==
  /\ At(c, "loop") /\ users[key[c]] # NoConn
  /\ \E n \in {1, Capped(fails[key[c]] + 1)} :
       /\ fails' = [fails EXCEPT ![key[c]] = n]
       /\ pc' = [pc EXCEPT ![c] = IF n >= RelayFailLimit THEN "kick" ELSE "loop"]
  /\ UNCHANGED <<users, counts, stats, key, disconnect, iter, admin>>

\* disconnect_session, called by the task that reached the limit.
KickSelf(c) ==
  /\ At(c, "kick")
  /\ Goto(c, IF users[key[c]] # NoConn THEN "kickcount" ELSE "remove")
  /\ users' = [users EXCEPT ![key[c]] = NoConn]
  /\ Fire(users[key[c]])
  /\ UNCHANGED <<fails, counts, stats, key, iter, admin>>

KickCount(c) ==
  /\ At(c, "kickcount") /\ Goto(c, "kickstats")
  /\ counts' = [counts EXCEPT ![UserOf(c)] = SaturatingSub(@, 1)]
  /\ UNCHANGED <<users, fails, stats, key, disconnect, iter, admin>>

KickStats(c) ==
  /\ At(c, "kickstats") /\ Goto(c, "remove")
  /\ stats' = [stats EXCEPT ![key[c]] = NoConn]
  /\ UNCHANGED <<users, fails, counts, key, disconnect, iter, admin>>

----------------------------------------------------------------------------
\* The cleanup after the loop.

\* users.remove_if(conn_key, conn_id == mine): a successor is left alone.
RemoveIfCurrent(c) ==
  /\ At(c, "remove")
  /\ IF users[key[c]] = c
     THEN /\ users' = [users EXCEPT ![key[c]] = NoConn]
          /\ Goto(c, "decrement")
     ELSE /\ Goto(c, "closed")
          /\ UNCHANGED users
  /\ UNCHANGED <<fails, counts, stats, key, disconnect, iter, admin>>

Decrement(c) ==
  /\ At(c, "decrement") /\ Goto(c, "dropstats")
  /\ counts' = [counts EXCEPT ![UserOf(c)] = SaturatingSub(@, 1)]
  /\ UNCHANGED <<users, fails, stats, key, disconnect, iter, admin>>

DropStats(c) ==
  /\ At(c, "dropstats") /\ Goto(c, "lastcheck")
  /\ stats' = [stats EXCEPT ![key[c]] = NoConn]
  /\ UNCHANGED <<users, fails, counts, key, disconnect, iter, admin>>

LastSessionCheck(c) ==
  /\ At(c, "lastcheck")
  /\ Goto(c, IF counts[UserOf(c)] = 0 THEN "retire" ELSE "closed")
  /\ UNCHANGED <<users, fails, counts, stats, key, disconnect, iter, admin>>

\* Traffic entries and quota written out, user_quotas.remove: see QuotaLedger.
RetireUser(c) ==
  /\ At(c, "retire") /\ Goto(c, "closed")
  /\ UNCHANGED <<users, fails, counts, stats, key, disconnect, iter, admin>>

----------------------------------------------------------------------------
\* The admin interface: disconnect_session and disconnect_user_by_id.

AdminKickSession(k) ==
  /\ admin.pc = "idle" /\ admin.ops < AdminOps
  /\ admin' = [pc |-> "session", user |-> k[1], left |-> {k}, n |-> 0,
               ops |-> admin.ops + 1]
  /\ UNCHANGED <<users, fails, counts, stats, pc, key, disconnect, iter>>

AdminKickUser(u) ==
  /\ admin.pc = "idle" /\ admin.ops < AdminOps
  /\ admin' = [pc |-> "retain", user |-> u, left |-> KeysOf(u), n |-> 0,
               ops |-> admin.ops + 1]
  /\ UNCHANGED <<users, fails, counts, stats, pc, key, disconnect, iter>>

\* users.remove(conn_key), or one record visited by users.retain(..).
AdminRemove ==
  /\ admin.pc \in {"session", "retain"}
  /\ \E k \in admin.left :
       /\ users' = [users EXCEPT ![k] = NoConn]
       /\ Fire(users[k])
       /\ admin' = [pc |-> IF admin.pc = "session" THEN "count" ELSE "retain",
                    user |-> admin.user,
                    left |-> IF admin.pc = "session" THEN {k} ELSE admin.left \ {k},
                    n |-> IF users[k] # NoConn THEN admin.n + 1 ELSE admin.n,
                    ops |-> admin.ops]
  /\ UNCHANGED <<fails, counts, stats, pc, key, iter>>

AdminRetained ==
  /\ admin.pc = "retain" /\ admin.left = {}
  /\ admin' = [admin EXCEPT !.pc = "count", !.left = KeysOf(admin.user)]
  /\ UNCHANGED <<users, fails, counts, stats, pc, key, disconnect, iter>>

\* if count > 0: the saturating subtraction; nothing removed ends the command.
AdminCount ==
  /\ admin.pc = "count"
  /\ IF admin.n = 0
     THEN admin' = AdminIdle(admin.ops) /\ UNCHANGED counts
     ELSE /\ counts' = [counts EXCEPT ![admin.user] = SaturatingSub(@, admin.n)]
          /\ admin' = [admin EXCEPT !.pc = "stats"]
  /\ UNCHANGED <<users, fails, stats, pc, key, disconnect, iter>>

\* traffic.remove_session(conn_key), or remove_sessions_by_prefix(user).
AdminStats ==
  /\ admin.pc = "stats"
  /\ stats' = [k \in Key |-> IF k \in admin.left THEN NoConn ELSE stats[k]]
  /\ admin' = AdminIdle(admin.ops)
  /\ UNCHANGED <<users, fails, counts, pc, key, disconnect, iter>>

----------------------------------------------------------------------------
AddUser(c) ==
  \/ CheckReconnect(c) \/ CheckLimit(c) \/ EvictOld(c) \/ InsertSession(c)
  \/ RecountVisit(c) \/ RecountDone(c) \/ SetCount(c)

Handshake(c) ==
  \/ SendChallenge(c) \/ RejectHandshake(c) \/ Authenticate(c) \/ AddUser(c)
  \/ RegisterStats(c) \/ LoadUser(c) \/ SaveUser(c) \/ FlushInbox(c)
  \/ GreetClient(c)

Loop(c) ==
  \/ NoticeDisconnect(c) \/ LeaveLoop(c) \/ RelaySucceeds(c) \/ RelayFails(c)
  \/ KickSelf(c) \/ KickCount(c) \/ KickStats(c)

Cleanup(c) ==
  \/ RemoveIfCurrent(c) \/ Decrement(c) \/ DropStats(c) \/ LastSessionCheck(c)
  \/ RetireUser(c)

AdminWork == AdminRemove \/ AdminRetained \/ AdminCount \/ AdminStats
AdminRequest ==
  \/ \E k \in Key : AdminKickSession(k)
  \/ \E u \in Users : AdminKickUser(u)

Next ==
  \/ \E c \in Conns : Handshake(c) \/ Loop(c) \/ Cleanup(c)
  \/ AdminRequest
  \/ AdminWork

Spec == Init /\ [][Next]_vars

\* The runtime polls a task that can make progress; nothing makes a client
\* connect, relay, leave or answer, so those steps get no fairness.
Progress(c) ==
  \/ AddUser(c) \/ RegisterStats(c) \/ LoadUser(c) \/ SaveUser(c)
  \/ FlushInbox(c) \/ GreetClient(c) \/ NoticeDisconnect(c)
  \/ KickSelf(c) \/ KickCount(c) \/ KickStats(c) \/ Cleanup(c)

Fairness ==
  /\ \A c \in Conns : WF_vars(Progress(c))
  /\ WF_vars(AdminWork)
FairSpec == Spec /\ Fairness

----------------------------------------------------------------------------
(* What every interleaving satisfies. *)

\* No interleaving of handshakes, kicks and late cleanups makes a served client
\* invisible: while its task is in the loop and nobody told it to stop, the
\* record under its conn_key is its own, so queries and relays find it
\* (remove_user_if_current's reason to exist).
NoInvisibleSession ==
  \A c \in Conns : At(c, "loop") /\ ~disconnect[c] => users[key[c]] = c

\* Replacing a session is exclusive: of the connections that claimed one
\* conn_key, at most one is registered-and-unsignalled at any time, even when
\* several handshakes for the key run through add_user at once.
Holds(c) == pc[c] \in AttachedPcs /\ ~disconnect[c]
OneLiveConnection ==
  \A c, d \in Conns : Holds(c) /\ Holds(d) /\ key[c] = key[d] => c = d

\* The relation behind both: from its insert to its own remove_if, a connection
\* is registered exactly as long as its disconnect signal has not fired, and a
\* record always belongs to a connection that claimed its key.
Registration ==
  /\ \A c \in Conns :
       pc[c] \in AttachedPcs => (disconnect[c] <=> users[key[c]] # c)
  /\ \A k \in Key : users[k] # NoConn =>
       key[users[k]] = k /\ pc[users[k]] \in AttachedPcs

\* A connection that was replaced or kicked stops: its task reaches its end
\* whatever the other tasks do.
EvictedTaskEnds ==
  \A c \in Conns : disconnect[c] ~> pc[c] \in {"closed", "aborted"}

----------------------------------------------------------------------------
(* What holds when no two operations on one user overlap. *)

Busy(c) == pc[c] \in {"limit", "evict", "insert", "recount", "setcount",
                      "regstats", "kick", "kickcount", "kickstats",
                      "decrement", "dropstats", "lastcheck", "retire"}
BusyOn(u) == {c \in Conns : Busy(c) /\ UserOf(c) = u}
AdminOn(u) == admin.pc # "idle" /\ admin.user = u
Quiet(u) == BusyOn(u) = {} /\ ~AdminOn(u)

OneAtATime ==
  \A u \in Users : /\ Cardinality(BusyOn(u)) <= 1
                   /\ AdminOn(u) => BusyOn(u) = {}

\* user_session_counts[u] is the number of sessions registered for u whenever
\* no operation on u is under way: replaced, kicked, aborted and late-cleaned
\* connections are all counted once.
CountsExact ==
  \A u \in Users : Quiet(u) => counts[u] = Cardinality(Present(u))

\* max_sessions_per_user bounds the sessions registered under one user.
SessionLimit ==
  \A u \in Users : Cardinality(Present(u)) <= MaxSessions

\* TrafficStats has an entry for exactly the registered sessions, made by the
\* connection that is registered: no counter of a dead session is left behind.
StatsFollowSessions ==
  \A u \in Users : Quiet(u) => \A k \in KeysOf(u) : stats[k] = users[k]
=============================================================================
