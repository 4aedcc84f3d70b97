---------------------------- MODULE UserDatabase ----------------------------
(***************************************************************************)
(* The database of one local user (user/db.js) and the calls that create,  *)
(* fill and delete it: LocalUser.ready, importUser and deleteUser          *)
(* (user/main.js).  Connections come from a cache that holds the promise   *)
(* of one indexedDB.open and closes it when it is idle.                    *)
(*                                                                         *)
(* IndexedDB itself is external: it handles the open and delete requests   *)
(* for a database in order; a delete request asks the open connections to  *)
(* close, and waits for their transactions.                                *)
(***************************************************************************)
EXTENDS Integers, Sequences, FiniteSets

CONSTANTS DbConns,    \* connections
          Users,      \* other calls that read or write the database
          Nil,
          MaxRetries, \* maxBlockedRetries
          MaxCalls,   \* bound: calls of getUser, importUser and Users together
          MaxFaults   \* bound: requests that fail

VARIABLES
  keys,     \* the keys in the database: "absent" without database, "empty" without keys
  cache,    \* dbCache: a connection (its promise), or Nil
  dbConn,   \* the state of a connection, "refused" if its promise was rejected
  idle,     \* dbTimers: the timer that closes the cached connection runs
  dbRequests, \* of IndexedDB: connections to open, attempts (numbers) to delete
  told,     \* the delete request at the head has had its versionchange events
  at, using, busy, \* of a task: its step, its connection, whether a transaction runs
  user,     \* users: the cached instance, by its keys ("new" before ready), or Nil
  due, watched, advanced, \* attempts to start, with a watchdog, given up for the next
  outcome,  \* of deleteUser
  mixed,    \* history: an import ran while an instance got ready
  late,     \* history: an attempt succeeded after it was given up
  callsMade, faultsMade   \* bounds

pool == <<cache, dbConn, idle>>
tasks == <<at, using, busy>>
tries == <<due, watched, advanced, outcome>>
history == <<mixed, late>>
counts == <<callsMade, faultsMade>>
databaseVars == <<keys, pool, dbRequests, told, tasks, user, tries, history, counts>>

Tasks == {"ready", "import", "delete"} \cup Users
Keys == {"generated", "imported"}
Attempts == 0..MaxRetries
Working == {"read", "save", "use", "flush", "list"} \* steps with a transaction

ASSUME DatabaseAssumption ==
  /\ Users \cap {"ready", "import", "delete"} = {}
  /\ Nil \notin DbConns \cup Keys \cup {"new"}
  /\ DbConns \cap Attempts = {}
  /\ MaxRetries \in Nat /\ MaxCalls \in Nat /\ MaxFaults \in Nat

DatabaseTypeOK ==
  /\ keys \in Keys \cup {"absent", "empty"}
  /\ cache \in DbConns \cup {Nil}
  /\ dbConn \in [DbConns -> {"queued", "open", "closed", "refused"}]
  /\ idle \in BOOLEAN /\ told \in BOOLEAN /\ mixed \in BOOLEAN /\ late \in BOOLEAN
  /\ dbRequests \in Seq(DbConns \cup Attempts)
  /\ at \in [Tasks -> Working \cup {"idle", "dropping"}]
  /\ using \in [Tasks -> DbConns \cup {Nil}] /\ busy \in [Tasks -> BOOLEAN]
  /\ user \in Keys \cup {"new", Nil}
  /\ due \subseteq Attempts /\ watched \subseteq Attempts /\ advanced \subseteq Attempts
  /\ outcome \in {"none", "deleted", "blocked", "error"}

(* ------------------------------------------------------------------------*)
(* The cache of connections.                                               *)
Free == {c \in DbConns : dbConn[c] \in {"closed", "refused"} /\ \A t \in Tasks : using[t] # c}
NewConn == CHOOSE c \in Free : TRUE

(* getDb: the cached promise, or a new one.                                *)
GetDb(t) ==
  /\ at[t] \in Working /\ using[t] = Nil
  /\ IF cache # Nil
       THEN /\ using' = [using EXCEPT ![t] = cache]
            /\ idle' = (idle \/ dbConn[cache] = "open")
            /\ UNCHANGED <<cache, dbConn, dbRequests>>
       ELSE /\ Free # {}
            /\ using' = [using EXCEPT ![t] = NewConn]
            /\ cache' = NewConn
            /\ dbConn' = [dbConn EXCEPT ![NewConn] = "queued"]
            /\ dbRequests' = Append(dbRequests, NewConn)
            /\ UNCHANGED idle
  /\ UNCHANGED <<keys, told, at, busy, user, tries, history, counts>>

(* closeDbCache: what is still opening closes itself (ConnOpened).        *)
CloseDbCache ==
  /\ cache' = Nil /\ idle' = FALSE
  /\ dbConn' = IF cache # Nil /\ dbConn[cache] = "open" THEN [dbConn EXCEPT ![cache] = "closed"] ELSE dbConn

CacheTimeout ==
  /\ idle /\ CloseDbCache
  /\ UNCHANGED <<keys, dbRequests, told, tasks, user, tries, history, counts>>

(* request.onsuccess of indexedDB.open: a connection the cache no longer   *)
(* holds is closed at once.                                                *)
ConnOpened ==
  /\ dbRequests # <<>> /\ Head(dbRequests) \in DbConns
  /\ dbConn' = [dbConn EXCEPT ![Head(dbRequests)] = IF cache = Head(dbRequests) THEN "open" ELSE "refused"]
  /\ idle' = (idle \/ cache = Head(dbRequests))
  /\ dbRequests' = Tail(dbRequests)
  /\ keys' = IF keys = "absent" THEN "empty" ELSE keys
  /\ UNCHANGED <<cache, told, tasks, user, tries, history, counts>>

OpenFails ==
  /\ dbRequests # <<>> /\ Head(dbRequests) \in DbConns /\ faultsMade < MaxFaults
  /\ dbConn' = [dbConn EXCEPT ![Head(dbRequests)] = "refused"]
  /\ cache' = IF cache = Head(dbRequests) THEN Nil ELSE cache
  /\ dbRequests' = Tail(dbRequests) /\ faultsMade' = faultsMade + 1
  /\ UNCHANGED <<keys, idle, told, tasks, user, tries, history, callsMade>>

(* ------------------------------------------------------------------------*)
(* Tasks.  Each step is a call of db.js: GetDb, then a transaction.        *)
Goto(t, s) == at' = [at EXCEPT ![t] = s] /\ using' = [using EXCEPT ![t] = Nil]
Call(t, s) ==
  /\ at[t] = "idle" /\ callsMade < MaxCalls /\ callsMade' = callsMade + 1
  /\ Goto(t, s)
  /\ UNCHANGED <<keys, pool, dbRequests, told, busy, tries, late, faultsMade>>

(* getUser: a new instance gets ready, or joins the one that does (the     *)
(* initPromises of user.js).                                               *)
GetUser ==
  /\ user \in {Nil, "new"} /\ Call("ready", "read")
  /\ user' = "new" /\ mixed' = (mixed \/ at["import"] # "idle")
JoinReady ==
  /\ user = Nil /\ at["ready"] # "idle" /\ user' = "new"
  /\ UNCHANGED <<keys, pool, dbRequests, told, tasks, tries, history, counts>>
ImportUser ==
  /\ Call("import", "read")
  /\ mixed' = (mixed \/ at["ready"] # "idle") /\ UNCHANGED user
CallOp(o) == Call(o, "use") /\ UNCHANGED <<user, mixed>>

StartTransaction(t) ==
  /\ using[t] # Nil /\ dbConn[using[t]] = "open" /\ ~busy[t]
  /\ busy' = [busy EXCEPT ![t] = TRUE]
  /\ UNCHANGED <<keys, pool, dbRequests, told, at, using, user, tries, history, counts>>

(* The connection was closed, or did not open: the call rejects.  deleteUser *)
(* forgets the instance whether or not the flush succeeded.                *)
NextOf(s) == CASE s = "flush" -> "list" [] s = "list" -> "dropping" [] OTHER -> "idle"
CallRejects(t) ==
  /\ using[t] # Nil /\ dbConn[using[t]] \in {"closed", "refused"} /\ ~busy[t]
  /\ Goto(t, NextOf(at[t]))
  /\ user' = IF at[t] = "flush" THEN Nil ELSE user
  /\ UNCHANGED <<keys, pool, dbRequests, told, busy, tries, history, counts>>

Commit(t, s, after) ==
  /\ busy[t] /\ busy' = [busy EXCEPT ![t] = FALSE]
  /\ Goto(t, s) /\ keys' = after
  /\ UNCHANGED <<pool, dbRequests, told, tries, history, counts>>

(* An instance takes the stored keys, or generates and saves some.         *)
ReadyReads ==
  /\ at["ready"] = "read"
  /\ Commit("ready", IF keys \in Keys THEN "idle" ELSE "save", keys)
  /\ user' = IF keys \in Keys /\ user = "new" THEN keys ELSE user
ReadySaves ==
  /\ at["ready"] = "save" /\ Commit("ready", "idle", "generated")
  /\ user' = IF user = "new" THEN "generated" ELSE user

(* importUser refuses a namespace that has keys.                           *)
(* Mutant: it does not.                                                    *)
ImportOver == "save"
ImportNext == IF keys \in Keys THEN "idle" ELSE "save"
ImportReads == at["import"] = "read" /\ Commit("import", ImportNext, keys) /\ UNCHANGED user
ImportSaves == at["import"] = "save" /\ Commit("import", "idle", "imported") /\ UNCHANGED user

(* The other calls leave the keys alone.                                   *)
OpEnds(o) == at[o] = "use" /\ Commit(o, "idle", keys) /\ UNCHANGED user

(* ------------------------------------------------------------------------*)
(* deleteUser, called once: it needs keys, silences the cached instance,   *)
(* deletes the registered storages and then the database.                  *)
DeleteUser ==
  /\ at["delete"] = "idle" /\ outcome = "none" /\ Goto("delete", "read")
  /\ UNCHANGED <<keys, pool, dbRequests, told, busy, user, tries, history, counts>>
DeleteReads ==
  /\ at["delete"] = "read"
  /\ Commit("delete", IF keys \notin Keys THEN "idle" ELSE IF user # Nil THEN "flush" ELSE "list", keys)
  /\ UNCHANGED user
DeleteFlushes == at["delete"] = "flush" /\ Commit("delete", "list", keys) /\ user' = Nil
DeleteLists == at["delete"] = "list" /\ Commit("delete", "dropping", keys) /\ UNCHANGED user

(* The storages are deleted; the first attempt follows in 100 ms.          *)
StoragesDeleted ==
  /\ at["delete"] = "dropping" /\ due = {} /\ watched = {} /\ advanced = {} /\ outcome = "none"
  /\ \A i \in DOMAIN dbRequests : dbRequests[i] \notin Attempts
  /\ CloseDbCache /\ due' = {0}
  /\ UNCHANGED <<keys, dbRequests, told, tasks, user, watched, advanced, outcome, history, counts>>

DoDelete(k) ==
  /\ k \in due /\ due' = due \ {k}
  /\ dbRequests' = Append(dbRequests, k) /\ watched' = watched \cup {k}
  /\ UNCHANGED <<keys, pool, told, tasks, user, advanced, outcome, history, counts>>

Conclude(r) == outcome' = IF outcome = "none" THEN r ELSE outcome

(* advance: the next attempt, or none is left.                             *)
Advance(k) ==
  IF k \in advanced THEN UNCHANGED tries
  ELSE /\ advanced' = advanced \cup {k} /\ watched' = watched \ {k}
       /\ IF k = MaxRetries THEN Conclude("blocked") /\ UNCHANGED due
          ELSE due' = due \cup {k + 1} /\ UNCHANGED outcome
Watchdog(k) ==
  /\ k \in watched /\ Advance(k)
  /\ IF k \in advanced \/ k = MaxRetries THEN UNCHANGED pool ELSE CloseDbCache
  /\ UNCHANGED <<keys, dbRequests, told, tasks, user, history, counts>>

(* The head request is an attempt: an open connection is asked to close,   *)
(* which closes the cached one; what is still busy blocks the request.     *)
AtHead(k) == dbRequests # <<>> /\ Head(dbRequests) = k
Held(C) == (\E t \in Tasks : busy[t]) \/ (\E c \in C : dbConn[c] = "open")
VersionChange(k) ==
  /\ AtHead(k) /\ ~told /\ told' = TRUE
  /\ IF Held(DbConns \ {cache}) THEN Advance(k) ELSE UNCHANGED tries
  /\ IF Held(DbConns) THEN CloseDbCache ELSE UNCHANGED pool
  /\ UNCHANGED <<keys, dbRequests, tasks, user, history, counts>>

(* request.onsuccess stops the watchdog, not an attempt that is due.       *)
(* Mutant: it does not stop the watchdog either.                           *)
NotStopped(k) == watched
Unwatch(k) == watched \ {k}
AttemptSucceeds(k) ==
  /\ AtHead(k) /\ told /\ ~Held(DbConns)
  /\ keys' = "absent" /\ user' = Nil
  /\ dbRequests' = Tail(dbRequests) /\ told' = FALSE
  /\ watched' = Unwatch(k) /\ Conclude("deleted") /\ late' = (late \/ k \in advanced)
  /\ UNCHANGED <<pool, tasks, due, advanced, mixed, counts>>
DeleteFails(k) ==
  /\ AtHead(k) /\ faultsMade < MaxFaults /\ faultsMade' = faultsMade + 1
  /\ dbRequests' = Tail(dbRequests) /\ told' = FALSE
  /\ watched' = watched \ {k} /\ Conclude("error")
  /\ UNCHANGED <<keys, pool, tasks, user, due, advanced, history, callsMade>>

DatabaseInit ==
  /\ keys \in {"absent", "generated"}
  /\ cache = Nil /\ dbConn = [c \in DbConns |-> "closed"] /\ idle = FALSE
  /\ dbRequests = <<>> /\ told = FALSE
  /\ at = [t \in Tasks |-> "idle"] /\ using = [t \in Tasks |-> Nil] /\ busy = [t \in Tasks |-> FALSE]
  /\ user = Nil /\ mixed = FALSE /\ late = FALSE
  /\ due = {} /\ watched = {} /\ advanced = {} /\ outcome = "none"
  /\ callsMade = 0 /\ faultsMade = 0

DatabaseNext ==
  \/ CacheTimeout \/ ConnOpened \/ OpenFails \/ GetUser \/ JoinReady \/ ImportUser \/ DeleteUser
  \/ ReadyReads \/ ReadySaves \/ ImportReads \/ ImportSaves
  \/ DeleteReads \/ DeleteFlushes \/ DeleteLists \/ StoragesDeleted
  \/ \E t \in Tasks : GetDb(t) \/ StartTransaction(t) \/ CallRejects(t)
  \/ \E o \in Users : CallOp(o) \/ OpEnds(o)
  \/ \E k \in Attempts : DoDelete(k) \/ Watchdog(k) \/ VersionChange(k) \/ AttemptSucceeds(k) \/ DeleteFails(k)

DatabaseSpec == DatabaseInit /\ [][DatabaseNext]_databaseVars

(* A cached instance signs with the keys that are stored, unless an import *)
(* ran while it got ready: importUser and ready each check first and save  *)
(* later (main.js:85, user.js:1041).                                       *)
OneIdentity == user \in Keys /\ keys \in Keys /\ ~mixed => user = keys

(* Once deleteUser has succeeded, keys that are saved again are not        *)
(* deleted by it, unless the attempt that succeeded had been given up: its *)
(* success does not take back the attempt that is due (main.js:235).       *)
KeysGo == keys \in Keys /\ keys' = "absent"
DeletedOnce == [][KeysGo /\ outcome = "deleted" => late]_databaseVars
=============================================================================
