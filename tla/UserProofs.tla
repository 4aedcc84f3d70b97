------------------------------- MODULE UserProofs -------------------------------
(***************************************************************************)
(* Proofs about what a user has: its database, with the calls that create, *)
(* fill and delete it (UserDatabase), and the files it publishes           *)
(* (ContentPublishing).                                                    *)
(***************************************************************************)
EXTENDS UserDatabase, ContentPublishing, FiniteSetTheorems, SequenceTheorems, TLAPS

------------------------------------------------------------------------------
(* UserDatabase: for any connections, calls and numbers of attempts.       *)

Steps == Working \cup {"idle", "dropping"}
Settings == {"queued", "open", "closed", "refused"}

(* getDb takes a connection that nothing uses.                             *)
LEMMA NewIsFree ==
  ASSUME Free # {}
  PROVE  NewConn \in DbConns /\ NewConn \in Free
  BY DEF NewConn, Free

LEMMA NextOfIsStep ==
  ASSUME NEW s \in Steps
  PROVE  NextOf(s) \in Steps /\ NextOf(s) # "save" /\ (s = "idle" => NextOf(s) = "idle")
  BY DEF NextOf, Steps, Working

LEMMA TasksDiffer ==
  /\ "ready" \in Tasks /\ "import" \in Tasks /\ "delete" \in Tasks
  /\ \A o \in Users : o \in Tasks /\ o # "ready" /\ o # "import" /\ o # "delete"
  BY DatabaseAssumption DEF Tasks

LEMMA CloseKeepsTypes ==
  ASSUME DatabaseTypeOK, CloseDbCache
  PROVE  /\ cache' \in DbConns \cup {Nil} /\ idle' \in BOOLEAN
         /\ dbConn' \in [DbConns -> {"queued", "open", "closed", "refused"}]
  <1>1. dbConn' = dbConn \/ dbConn' = [dbConn EXCEPT ![cache] = "closed"]
    BY DEF CloseDbCache
  <1> QED BY <1>1 DEF CloseDbCache, DatabaseTypeOK

LEMMA AdvanceKeepsTypes ==
  ASSUME DatabaseTypeOK, NEW k \in Attempts, Advance(k)
  PROVE  /\ due' \subseteq Attempts /\ watched' \subseteq Attempts /\ advanced' \subseteq Attempts
         /\ outcome' \in {"none", "deleted", "blocked", "error"}
  <1>1. CASE k \in advanced
    BY <1>1 DEF Advance, tries, DatabaseTypeOK
  <1>2. CASE k \notin advanced
    <2>1. k # MaxRetries => k + 1 \in Attempts
      BY DatabaseAssumption DEF Attempts
    <2> QED BY <1>2, <2>1 DEF Advance, Conclude, DatabaseTypeOK
  <1> QED BY <1>1, <1>2

(* Taking a connection and giving it back keep the steps typed.            *)
LEMMA GotoKeepsTypes ==
  ASSUME DatabaseTypeOK, NEW t, NEW s \in Steps, Goto(t, s)
  PROVE  /\ at' \in [Tasks -> Working \cup {"idle", "dropping"}]
         /\ using' \in [Tasks -> DbConns \cup {Nil}]
  BY DEF Goto, DatabaseTypeOK, Steps

LEMMA CallKeepsTypes ==
  ASSUME DatabaseTypeOK, NEW t, NEW s \in Steps, Call(t, s),
         user' \in Keys \cup {"new", Nil}, mixed' \in BOOLEAN
  PROVE  DatabaseTypeOK'
  <1>1. Goto(t, s) BY DEF Call
  <1>2. UNCHANGED <<keys, cache, dbConn, idle, dbRequests, told, busy, due, watched, advanced, outcome, late>>
    BY DEF Call, pool, tries
  <1> QED BY <1>1, <1>2, GotoKeepsTypes DEF DatabaseTypeOK

LEMMA CommitKeepsTypes ==
  ASSUME DatabaseTypeOK, NEW t, NEW s \in Steps, NEW after \in Keys \cup {"absent", "empty"},
         Commit(t, s, after), user' \in Keys \cup {"new", Nil}
  PROVE  DatabaseTypeOK'
  <1>1. Goto(t, s) BY DEF Commit
  <1>2. UNCHANGED <<cache, dbConn, idle, dbRequests, told, due, watched, advanced, outcome, mixed, late>>
    BY DEF Commit, pool, tries, history
  <1>3. busy' \in [Tasks -> BOOLEAN] BY DEF Commit, DatabaseTypeOK
  <1>4. keys' = after BY DEF Commit
  <1> QED BY <1>1, <1>2, <1>3, <1>4, GotoKeepsTypes DEF DatabaseTypeOK

LEMMA DatabaseTypes ==
  ASSUME DatabaseTypeOK, [DatabaseNext]_databaseVars
  PROVE  DatabaseTypeOK'
  <1> USE DEF pool, tasks, tries, history, counts
  <1>1. ASSUME UNCHANGED databaseVars PROVE DatabaseTypeOK'
    BY <1>1 DEF databaseVars, DatabaseTypeOK
  <1>2. ASSUME CacheTimeout PROVE DatabaseTypeOK'
    <2>1. CloseDbCache BY <1>2 DEF CacheTimeout
    <2> QED BY <1>2, <2>1, CloseKeepsTypes DEF CacheTimeout, DatabaseTypeOK
  <1>3. ASSUME ConnOpened PROVE DatabaseTypeOK'
    <2>1. Tail(dbRequests) \in Seq(DbConns \cup Attempts) BY <1>3 DEF ConnOpened, DatabaseTypeOK
    <2>2. idle' \in BOOLEAN BY <1>3 DEF ConnOpened, DatabaseTypeOK
    <2>3. dbConn' \in [DbConns -> Settings] BY <1>3 DEF ConnOpened, DatabaseTypeOK, Settings
    <2>4. keys' \in Keys \cup {"absent", "empty"} BY <1>3 DEF ConnOpened, DatabaseTypeOK
    <2>5. dbRequests' \in Seq(DbConns \cup Attempts) BY <1>3, <2>1 DEF ConnOpened
    <2>6. UNCHANGED <<cache, told, at, using, busy, user, due, watched, advanced, outcome, mixed, late>>
      BY <1>3 DEF ConnOpened
    <2> QED BY <2>2, <2>3, <2>4, <2>5, <2>6 DEF DatabaseTypeOK, Settings
  <1>4. ASSUME OpenFails PROVE DatabaseTypeOK'
    <2>1. Tail(dbRequests) \in Seq(DbConns \cup Attempts) BY <1>4 DEF OpenFails, DatabaseTypeOK
    <2>2. cache' \in DbConns \cup {Nil} BY <1>4 DEF OpenFails, DatabaseTypeOK
    <2>3. dbConn' \in [DbConns -> Settings] BY <1>4 DEF OpenFails, DatabaseTypeOK, Settings
    <2>4. dbRequests' \in Seq(DbConns \cup Attempts) BY <1>4, <2>1 DEF OpenFails
    <2>5. UNCHANGED <<keys, idle, told, at, using, busy, user, due, watched, advanced, outcome, mixed, late>>
      BY <1>4 DEF OpenFails
    <2> QED BY <2>2, <2>3, <2>4, <2>5 DEF DatabaseTypeOK, Settings
  <1>5. ASSUME GetUser PROVE DatabaseTypeOK'
    <2>1. Call("ready", "read") /\ user' = "new" BY <1>5 DEF GetUser
    <2>2. mixed' \in BOOLEAN BY <1>5 DEF GetUser, DatabaseTypeOK
    <2> QED BY <2>1, <2>2, CallKeepsTypes DEF Steps, Working
  <1>6. ASSUME JoinReady PROVE DatabaseTypeOK'
    BY <1>6 DEF JoinReady, DatabaseTypeOK
  <1>7. ASSUME ImportUser PROVE DatabaseTypeOK'
    <2>1. Call("import", "read") /\ user' = user BY <1>7 DEF ImportUser
    <2>2. mixed' \in BOOLEAN BY <1>7 DEF ImportUser, DatabaseTypeOK
    <2>3. user' \in Keys \cup {"new", Nil} BY <2>1 DEF DatabaseTypeOK
    <2> QED BY <2>1, <2>2, <2>3, CallKeepsTypes DEF Steps, Working
  <1>8. ASSUME DeleteUser PROVE DatabaseTypeOK'
    <2>1. Goto("delete", "read") BY <1>8 DEF DeleteUser
    <2>2. "read" \in Steps BY DEF Steps, Working
    <2>3. UNCHANGED <<keys, cache, dbConn, idle, dbRequests, told, busy, user, due, watched, advanced, outcome, mixed, late>>
      BY <1>8 DEF DeleteUser
    <2> QED BY <2>1, <2>2, <2>3, GotoKeepsTypes DEF DatabaseTypeOK
  <1>9. ASSUME NEW o \in Users, CallOp(o) PROVE DatabaseTypeOK'
    <2>1. Call(o, "use") /\ user' = user /\ mixed' = mixed BY <1>9 DEF CallOp
    <2>2. user' \in Keys \cup {"new", Nil} /\ mixed' \in BOOLEAN BY <2>1 DEF DatabaseTypeOK
    <2> QED BY <2>1, <2>2, CallKeepsTypes DEF Steps, Working
  <1>10. ASSUME ReadyReads PROVE DatabaseTypeOK'
    <2>1. user' \in Keys \cup {"new", Nil} BY <1>10 DEF ReadyReads, DatabaseTypeOK
    <2>2. PICK s \in {"idle", "save"} : Commit("ready", s, keys) BY <1>10 DEF ReadyReads
    <2>3. keys \in Keys \cup {"absent", "empty"} BY DEF DatabaseTypeOK
    <2>4. s \in Steps BY <2>2 DEF Steps, Working
    <2> QED BY <2>1, <2>2, <2>3, <2>4, CommitKeepsTypes
  <1>11. ASSUME ReadySaves PROVE DatabaseTypeOK'
    <2>1. user' \in Keys \cup {"new", Nil} BY <1>11 DEF ReadySaves, DatabaseTypeOK, Keys
    <2>2. Commit("ready", "idle", "generated") BY <1>11 DEF ReadySaves
    <2>3. "generated" \in Keys \cup {"absent", "empty"} /\ "idle" \in Steps BY DEF Keys, Steps
    <2> QED BY <2>1, <2>2, <2>3, CommitKeepsTypes
  <1>12. ASSUME ImportReads PROVE DatabaseTypeOK'
    <2>1. user' \in Keys \cup {"new", Nil} BY <1>12 DEF ImportReads, DatabaseTypeOK
    <2>2. PICK s \in {"idle", "save"} : Commit("import", s, keys) BY <1>12 DEF ImportReads, ImportNext
    <2>3. keys \in Keys \cup {"absent", "empty"} BY DEF DatabaseTypeOK
    <2>4. s \in Steps BY <2>2 DEF Steps, Working
    <2> QED BY <2>1, <2>2, <2>3, <2>4, CommitKeepsTypes
  <1>13. ASSUME ImportSaves PROVE DatabaseTypeOK'
    <2>1. user' \in Keys \cup {"new", Nil} BY <1>13 DEF ImportSaves, DatabaseTypeOK
    <2>2. Commit("import", "idle", "imported") BY <1>13 DEF ImportSaves
    <2>3. "imported" \in Keys \cup {"absent", "empty"} /\ "idle" \in Steps BY DEF Keys, Steps
    <2> QED BY <2>1, <2>2, <2>3, CommitKeepsTypes
  <1>14. ASSUME NEW o \in Users, OpEnds(o) PROVE DatabaseTypeOK'
    <2>1. user' \in Keys \cup {"new", Nil} BY <1>14 DEF OpEnds, DatabaseTypeOK
    <2>2. Commit(o, "idle", keys) BY <1>14 DEF OpEnds
    <2>3. keys \in Keys \cup {"absent", "empty"} /\ "idle" \in Steps BY DEF DatabaseTypeOK, Steps
    <2> QED BY <2>1, <2>2, <2>3, CommitKeepsTypes
  <1>15. ASSUME DeleteReads \/ DeleteFlushes \/ DeleteLists PROVE DatabaseTypeOK'
    <2>1. user' \in Keys \cup {"new", Nil} BY <1>15 DEF DeleteReads, DeleteFlushes, DeleteLists, DatabaseTypeOK
    <2>2. PICK s \in {"idle", "flush", "list", "dropping"} : Commit("delete", s, keys)
      BY <1>15 DEF DeleteReads, DeleteFlushes, DeleteLists
    <2>3. keys \in Keys \cup {"absent", "empty"} BY DEF DatabaseTypeOK
    <2>4. s \in Steps BY <2>2 DEF Steps, Working
    <2> QED BY <2>1, <2>2, <2>3, <2>4, CommitKeepsTypes
  <1>16. ASSUME StoragesDeleted PROVE DatabaseTypeOK'
    <2>1. CloseDbCache BY <1>16 DEF StoragesDeleted
    <2>2. {0} \subseteq Attempts BY DatabaseAssumption DEF Attempts
    <2> QED BY <1>16, <2>1, <2>2, CloseKeepsTypes DEF StoragesDeleted, DatabaseTypeOK
  <1>17. ASSUME NEW t \in Tasks, GetDb(t) PROVE DatabaseTypeOK'
    <2>1. CASE cache # Nil
      BY <1>17, <2>1 DEF GetDb, DatabaseTypeOK
    <2>2. CASE cache = Nil
      <3>1. NewConn \in DbConns BY <1>17, <2>2, NewIsFree DEF GetDb
      <3>2. Append(dbRequests, NewConn) \in Seq(DbConns \cup Attempts) BY <3>1 DEF DatabaseTypeOK
      <3>3. using' \in [Tasks -> DbConns \cup {Nil}] BY <1>17, <2>2, <3>1 DEF GetDb, DatabaseTypeOK
      <3>4. dbConn' \in [DbConns -> Settings] BY <1>17, <2>2, <3>1 DEF GetDb, DatabaseTypeOK, Settings
      <3>5. cache' \in DbConns /\ dbRequests' \in Seq(DbConns \cup Attempts) BY <1>17, <2>2, <3>1, <3>2 DEF GetDb
      <3>6. UNCHANGED <<keys, idle, told, at, busy, user, due, watched, advanced, outcome, mixed, late>>
        BY <1>17, <2>2 DEF GetDb
      <3> QED BY <3>3, <3>4, <3>5, <3>6 DEF DatabaseTypeOK, Settings
    <2> QED BY <2>1, <2>2
  <1>18. ASSUME NEW t \in Tasks, StartTransaction(t) PROVE DatabaseTypeOK'
    BY <1>18 DEF StartTransaction, DatabaseTypeOK
  <1>19. ASSUME NEW t \in Tasks, CallRejects(t) PROVE DatabaseTypeOK'
    <2>1. Goto(t, NextOf(at[t])) BY <1>19 DEF CallRejects
    <2>2. NextOf(at[t]) \in Steps BY NextOfIsStep DEF DatabaseTypeOK, Steps
    <2>3. UNCHANGED <<keys, cache, dbConn, idle, dbRequests, told, busy, due, watched, advanced, outcome, mixed, late>>
      BY <1>19 DEF CallRejects
    <2>4. user' = user \/ user' = Nil BY <1>19 DEF CallRejects
    <2> QED BY <2>1, <2>2, <2>3, <2>4, GotoKeepsTypes DEF DatabaseTypeOK
  <1>20. ASSUME NEW k \in Attempts, DoDelete(k) PROVE DatabaseTypeOK'
    <2>1. Append(dbRequests, k) \in Seq(DbConns \cup Attempts) BY DEF DatabaseTypeOK
    <2> QED BY <1>20, <2>1 DEF DoDelete, DatabaseTypeOK
  <1>21. ASSUME NEW k \in Attempts, Watchdog(k) PROVE DatabaseTypeOK'
    <2>1. Advance(k) /\ (CloseDbCache \/ UNCHANGED <<cache, dbConn, idle>>) BY <1>21 DEF Watchdog
    <2>2. UNCHANGED <<keys, dbRequests, told, at, using, busy, user, mixed, late>> BY <1>21 DEF Watchdog
    <2> QED BY <2>1, <2>2, CloseKeepsTypes, AdvanceKeepsTypes DEF DatabaseTypeOK
  <1>22. ASSUME NEW k \in Attempts, VersionChange(k) PROVE DatabaseTypeOK'
    <2>1. /\ Advance(k) \/ UNCHANGED <<due, watched, advanced, outcome>>
          /\ CloseDbCache \/ UNCHANGED <<cache, dbConn, idle>>
      BY <1>22 DEF VersionChange
    <2>2. told' = TRUE /\ UNCHANGED <<keys, dbRequests, at, using, busy, user, mixed, late>> BY <1>22 DEF VersionChange
    <2> QED BY <2>1, <2>2, CloseKeepsTypes, AdvanceKeepsTypes DEF DatabaseTypeOK
  <1>23. ASSUME NEW k \in Attempts, AttemptSucceeds(k) PROVE DatabaseTypeOK'
    <2>1. Tail(dbRequests) \in Seq(DbConns \cup Attempts) BY <1>23 DEF AttemptSucceeds, AtHead, DatabaseTypeOK
    <2>2. late' \in BOOLEAN BY <1>23 DEF AttemptSucceeds
    <2> QED BY <1>23, <2>1, <2>2 DEF AttemptSucceeds, Unwatch, Conclude, DatabaseTypeOK
  <1>24. ASSUME NEW k \in Attempts, DeleteFails(k) PROVE DatabaseTypeOK'
    <2>1. Tail(dbRequests) \in Seq(DbConns \cup Attempts) BY <1>24 DEF DeleteFails, AtHead, DatabaseTypeOK
    <2> QED BY <1>24, <2>1 DEF DeleteFails, Conclude, DatabaseTypeOK
  <1> QED
    BY <1>1, <1>2, <1>3, <1>4, <1>5, <1>6, <1>7, <1>8, <1>9, <1>10, <1>11, <1>12, <1>13, <1>14, <1>15,
       <1>16, <1>17, <1>18, <1>19, <1>20, <1>21, <1>22, <1>23, <1>24 DEF DatabaseNext

(***************************************************************************)
(* The keys of a user.  An instance that gets ready has no keys yet, what  *)
(* runs besides an import makes it `mixed', and an import that saves found *)
(* no keys.                                                                *)
(***************************************************************************)
Identity ==
  /\ user \in Keys => keys \in Keys
  /\ at["ready"] # "idle" => user \notin Keys
  /\ at["import"] # "idle" /\ ~mixed => at["ready"] = "idle"
  /\ at["import"] = "save" /\ ~mixed => keys \notin Keys
  /\ OneIdentity

(* The attempts of deleteUser.  InLine are those that IndexedDB has yet to *)
(* handle.  An attempt comes after all those before it were given up; one  *)
(* that is due is new, and one with a watchdog has not been given up; those*)
(* in line are in order.  A success that was not given up leaves none.     *)
InLine == {k \in Attempts : \E i \in DOMAIN dbRequests : dbRequests[i] = k}
EachInTurn ==
  \A k \in due \cup watched \cup advanced \cup InLine, j \in Attempts : j < k => j \in advanced
DueAreNew == \A k \in due : k \notin advanced /\ k \notin watched /\ k \notin InLine
WatchedGoOn == \A k \in watched : k \notin advanced
LineInOrder ==
  \A i, j \in DOMAIN dbRequests :
    i < j /\ dbRequests[i] \in Attempts /\ dbRequests[j] \in Attempts => dbRequests[i] < dbRequests[j]
NoneLeft == outcome = "deleted" /\ ~late => due = {} /\ watched = {} /\ InLine = {}
AttemptsInv == EachInTurn /\ DueAreNew /\ WatchedGoOn /\ LineInOrder /\ NoneLeft

(* Only these steps change what an instance or an import knows.            *)
LEMMA IdentityKept ==
  ASSUME DatabaseTypeOK, Identity, [DatabaseNext]_databaseVars
  PROVE  Identity'
  <1> USE DEF pool, tasks, tries, history, counts
  <1> DEFINE Same == UNCHANGED <<keys, user, at, mixed>>
  <1>a. ASSUME Same PROVE Identity'
    BY <1>a DEF Identity, OneIdentity
  <1>0. Nil \notin Keys /\ "new" \notin Keys /\ "absent" \notin Keys
    BY DatabaseAssumption DEF Keys
  <1>1. ASSUME UNCHANGED databaseVars PROVE Same BY <1>1 DEF databaseVars
  <1>2. ASSUME CacheTimeout \/ OpenFails \/ StoragesDeleted PROVE Same
    BY <1>2 DEF CacheTimeout, OpenFails, StoragesDeleted
  <1>3. ASSUME NEW t \in Tasks, GetDb(t) \/ StartTransaction(t) PROVE Same
    BY <1>3 DEF GetDb, StartTransaction
  <1>4. ASSUME NEW k \in Attempts, DoDelete(k) \/ Watchdog(k) \/ VersionChange(k) \/ DeleteFails(k) PROVE Same
    BY <1>4 DEF DoDelete, Watchdog, VersionChange, DeleteFails
  <1>5. ASSUME ConnOpened PROVE Identity'
    <2>1. UNCHANGED <<user, at, mixed>> /\ (keys' = keys \/ (keys = "absent" /\ keys' = "empty")) BY <1>5 DEF ConnOpened
    <2>2. "empty" \notin Keys BY DEF Keys
    <2> QED BY <1>0, <2>1, <2>2 DEF Identity, OneIdentity
  <1>6. ASSUME GetUser PROVE Identity'
    <2>1. /\ user' = "new" /\ keys' = keys /\ mixed' = (mixed \/ at["import"] # "idle")
          /\ at' = [at EXCEPT !["ready"] = "read"]
      BY <1>6 DEF GetUser, Call, Goto
    <2>2. at'["import"] = at["import"] /\ at'["ready"] = "read" BY <2>1, TasksDiffer DEF DatabaseTypeOK
    <2> QED BY <1>0, <2>1, <2>2 DEF Identity, OneIdentity
  <1>7. ASSUME JoinReady PROVE Identity'
    BY <1>0, <1>7 DEF JoinReady, Identity, OneIdentity
  <1>8. ASSUME ImportUser PROVE Identity'
    <2>1. /\ user' = user /\ keys' = keys /\ mixed' = (mixed \/ at["ready"] # "idle")
          /\ at' = [at EXCEPT !["import"] = "read"]
      BY <1>8 DEF ImportUser, Call, Goto
    <2>2. at'["import"] = "read" /\ at'["ready"] = at["ready"] BY <2>1, TasksDiffer DEF DatabaseTypeOK
    <2> QED BY <2>1, <2>2 DEF Identity, OneIdentity
  <1>9. ASSUME NEW t \in Tasks, NEW s, t # "ready", t # "import", at' = [at EXCEPT ![t] = s],
               UNCHANGED <<keys, mixed>>, user' = user \/ user' = Nil
        PROVE  Identity'
    <2>1. at'["import"] = at["import"] /\ at'["ready"] = at["ready"] BY <1>9, TasksDiffer DEF DatabaseTypeOK
    <2> QED BY <1>0, <1>9, <2>1 DEF Identity, OneIdentity
  <1>10. ASSUME NEW o \in Users, CallOp(o) \/ OpEnds(o) PROVE Identity'
    <2>1. /\ UNCHANGED <<keys, mixed, user>>
          /\ at' = [at EXCEPT ![o] = "use"] \/ at' = [at EXCEPT ![o] = "idle"]
      BY <1>10 DEF CallOp, Call, OpEnds, Commit, Goto
    <2> QED BY <1>9, <2>1, TasksDiffer
  <1>11. ASSUME DeleteUser \/ DeleteReads \/ DeleteFlushes \/ DeleteLists PROVE Identity'
    <2>1. /\ UNCHANGED <<keys, mixed>> /\ (user' = user \/ user' = Nil)
          /\ \E s \in Steps : at' = [at EXCEPT !["delete"] = s]
      BY <1>11 DEF DeleteUser, DeleteReads, DeleteFlushes, DeleteLists, Commit, Goto, Steps, Working
    <2> QED BY <1>9, <2>1, TasksDiffer
  <1>12. ASSUME ReadyReads PROVE Identity'
    <2>1. PICK s \in {"idle", "save"} : at' = [at EXCEPT !["ready"] = s] /\ (s = "idle" <=> keys \in Keys)
      BY <1>12 DEF ReadyReads, Commit, Goto
    <2>2. /\ keys' = keys /\ mixed' = mixed /\ at["ready"] # "idle"
          /\ user' = IF keys \in Keys /\ user = "new" THEN keys ELSE user
      BY <1>12 DEF ReadyReads, Commit
    <2>3. at'["import"] = at["import"] /\ at'["ready"] = s BY <2>1, TasksDiffer DEF DatabaseTypeOK
    <2> QED BY <1>0, <2>1, <2>2, <2>3 DEF Identity, OneIdentity
  <1>13. ASSUME ReadySaves PROVE Identity'
    <2>1. /\ at' = [at EXCEPT !["ready"] = "idle"] /\ keys' = "generated" /\ mixed' = mixed
          /\ at["ready"] = "save" /\ user' = IF user = "new" THEN "generated" ELSE user
      BY <1>13 DEF ReadySaves, Commit, Goto
    <2>2. at'["import"] = at["import"] /\ at'["ready"] = "idle" BY <2>1, TasksDiffer DEF DatabaseTypeOK
    <2>3. "generated" \in Keys BY DEF Keys
    <2> QED BY <1>0, <2>1, <2>2, <2>3 DEF Identity, OneIdentity
  <1>14. ASSUME ImportReads PROVE Identity'
    <2>1. PICK s \in {"idle", "save"} : at' = [at EXCEPT !["import"] = s] /\ (s = "idle" <=> keys \in Keys)
      BY <1>14 DEF ImportReads, ImportNext, Commit, Goto
    <2>2. UNCHANGED <<keys, user, mixed>> /\ at["import"] = "read" BY <1>14 DEF ImportReads, Commit
    <2>3. at'["import"] = s /\ at'["ready"] = at["ready"] BY <2>1, TasksDiffer DEF DatabaseTypeOK
    <2> QED BY <2>1, <2>2, <2>3 DEF Identity, OneIdentity
  <1>15. ASSUME ImportSaves PROVE Identity'
    <2>1. /\ at' = [at EXCEPT !["import"] = "idle"] /\ keys' = "imported"
          /\ UNCHANGED <<user, mixed>> /\ at["import"] = "save"
      BY <1>15 DEF ImportSaves, Commit, Goto
    <2>2. at'["import"] = "idle" /\ at'["ready"] = at["ready"] BY <2>1, TasksDiffer DEF DatabaseTypeOK
    <2>3. "imported" \in Keys BY DEF Keys
    <2> QED BY <2>1, <2>2, <2>3 DEF Identity, OneIdentity
  <1>16. ASSUME NEW t \in Tasks, CallRejects(t) PROVE Identity'
    <2>1. /\ UNCHANGED <<keys, mixed>> /\ (user' = user \/ user' = Nil)
          /\ at' = [at EXCEPT ![t] = NextOf(at[t])]
      BY <1>16 DEF CallRejects, Goto
    <2>2. \A u \in Tasks : at'[u] = IF u = t THEN NextOf(at[u]) ELSE at[u] BY <2>1 DEF DatabaseTypeOK
    <2>3. \A u \in Tasks : (at[u] = "idle" => at'[u] = "idle") /\ (at'[u] = "save" => at[u] = "save")
      BY <2>2, NextOfIsStep DEF DatabaseTypeOK, Steps
    <2>4. \A u \in {"ready", "import"} : (at[u] = "idle" => at'[u] = "idle") /\ (at'[u] = "save" => at[u] = "save")
      BY <2>3, TasksDiffer
    <2> QED BY <1>0, <2>1, <2>4 DEF Identity, OneIdentity
  <1>17. ASSUME NEW k \in Attempts, AttemptSucceeds(k) PROVE Identity'
    <2>1. keys' = "absent" /\ user' = Nil /\ UNCHANGED <<at, mixed>> BY <1>17 DEF AttemptSucceeds
    <2> QED BY <1>0, <2>1 DEF Identity, OneIdentity
  <1> HIDE DEF Same
  <1> QED
    BY <1>a, <1>1, <1>2, <1>3, <1>4, <1>5, <1>6, <1>7, <1>8, <1>10, <1>11, <1>12, <1>13, <1>14, <1>15,
       <1>16, <1>17 DEF DatabaseNext

LEMMA AppendToLine ==
  ASSUME DatabaseTypeOK, LineInOrder, NEW e \in DbConns \cup Attempts, dbRequests' = Append(dbRequests, e),
         \A k \in InLine : e \in Attempts => k < e
  PROVE  LineInOrder' /\ (\A k \in InLine' : k \in InLine \/ k = e)
  <1>1. /\ DOMAIN dbRequests = 1..Len(dbRequests) /\ Len(dbRequests) \in Nat
        /\ DOMAIN dbRequests' = 1..(Len(dbRequests) + 1)
        /\ \A i \in DOMAIN dbRequests : dbRequests'[i] = dbRequests[i]
        /\ dbRequests'[Len(dbRequests) + 1] = e
    BY DEF DatabaseTypeOK
  <1>2. \A i \in DOMAIN dbRequests' : i \in DOMAIN dbRequests \/ i = Len(dbRequests) + 1
    BY <1>1
  <1>3. \A k \in InLine' : k \in InLine \/ k = e
    BY <1>1, <1>2 DEF InLine
  <1>4. LineInOrder'
    <2> SUFFICES ASSUME NEW i \in DOMAIN dbRequests', NEW j \in DOMAIN dbRequests', i < j,
                        dbRequests'[i] \in Attempts, dbRequests'[j] \in Attempts
                 PROVE  dbRequests'[i] < dbRequests'[j]
      BY DEF LineInOrder
    <2>1. i \in DOMAIN dbRequests BY <1>1
    <2>2. CASE j \in DOMAIN dbRequests BY <1>1, <2>1, <2>2 DEF LineInOrder
    <2>3. CASE j = Len(dbRequests) + 1
      <3>1. dbRequests[i] \in InLine BY <1>1, <2>1 DEF InLine
      <3> QED BY <1>1, <2>1, <2>3, <3>1
    <2> QED BY <1>2, <2>2, <2>3
  <1> QED BY <1>3, <1>4

LEMMA HeadOfLine ==
  ASSUME DatabaseTypeOK, LineInOrder, dbRequests # <<>>, dbRequests' = Tail(dbRequests)
  PROVE  /\ LineInOrder' /\ InLine' \subseteq InLine
         /\ Head(dbRequests) \in Attempts => /\ Head(dbRequests) \in InLine
                                            /\ \A k \in InLine' : Head(dbRequests) < k
  <1>1. /\ DOMAIN dbRequests = 1..Len(dbRequests) /\ Len(dbRequests) \in Nat \ {0}
        /\ DOMAIN dbRequests' = 1..(Len(dbRequests) - 1)
        /\ \A i \in DOMAIN dbRequests' : dbRequests'[i] = dbRequests[i + 1]
        /\ Head(dbRequests) = dbRequests[1]
    BY DEF DatabaseTypeOK
  <1>2. \A i \in DOMAIN dbRequests' : i + 1 \in DOMAIN dbRequests /\ 1 < i + 1 BY <1>1
  <1>3. InLine' \subseteq InLine BY <1>1, <1>2 DEF InLine
  <1>4. LineInOrder'
    <2> SUFFICES ASSUME NEW i \in DOMAIN dbRequests', NEW j \in DOMAIN dbRequests', i < j,
                        dbRequests'[i] \in Attempts, dbRequests'[j] \in Attempts
                 PROVE  dbRequests'[i] < dbRequests'[j]
      BY DEF LineInOrder
    <2>1. i + 1 < j + 1 BY <1>1
    <2> QED BY <1>1, <1>2, <2>1 DEF LineInOrder
  <1>5. 1 \in DOMAIN dbRequests BY <1>1
  <1>6. ASSUME Head(dbRequests) \in Attempts PROVE Head(dbRequests) \in InLine BY <1>1, <1>5, <1>6 DEF InLine
  <1>7. ASSUME Head(dbRequests) \in Attempts, NEW k \in InLine' PROVE Head(dbRequests) < k
    <2>1. PICK i \in DOMAIN dbRequests' : dbRequests'[i] = k /\ k \in Attempts BY <1>7 DEF InLine
    <2> QED BY <1>1, <1>2, <1>5, <1>7, <2>1 DEF LineInOrder
  <1> QED BY <1>3, <1>4, <1>6, <1>7

(* Giving an attempt up.                                                   *)
LEMMA AdvanceKeepsAttempts ==
  ASSUME DatabaseTypeOK, AttemptsInv, NEW k \in Attempts, Advance(k), k \in watched \cup InLine,
         UNCHANGED <<dbRequests, late>>
  PROVE  AttemptsInv'
  <1>1. InLine' = InLine BY DEF InLine
  <1>2. CASE k \in advanced
    BY <1>1, <1>2 DEF Advance, tries, AttemptsInv, EachInTurn, DueAreNew, WatchedGoOn, LineInOrder, NoneLeft
  <1>3. CASE k \notin advanced
    <2>0. InLine \subseteq Attempts /\ Attempts \subseteq Int BY DEF InLine, Attempts
    <2>1. /\ advanced' = advanced \cup {k} /\ watched' = watched \ {k}
          /\ due' \subseteq due \cup {k + 1} /\ (k = MaxRetries => due' = due)
          /\ outcome' = "deleted" => outcome = "deleted"
      BY <1>3 DEF Advance, Conclude
    <2>2. outcome' = "deleted" /\ ~late' => FALSE
      BY <2>1 DEF AttemptsInv, NoneLeft
    <2>3. \A j \in due \cup watched \cup advanced \cup InLine : ~(k < j) BY <1>3 DEF AttemptsInv, EachInTurn
    <2>4. k + 1 \notin due \cup watched \cup advanced \cup InLine BY <2>0, <2>3 DEF DatabaseTypeOK
    <2>5. DueAreNew'
      <3> SUFFICES ASSUME NEW j \in due' PROVE j \notin advanced' /\ j \notin watched' /\ j \notin InLine'
        BY DEF DueAreNew
      <3>1. CASE j = k + 1 BY <1>1, <2>0, <2>1, <2>4, <3>1
      <3>2. CASE j \in due
        <4>1. j # k BY <3>2 DEF AttemptsInv, DueAreNew
        <4> QED BY <1>1, <2>1, <3>2, <4>1 DEF AttemptsInv, DueAreNew
      <3> QED BY <2>1, <3>1, <3>2
    <2>6. EachInTurn'
      <3> SUFFICES ASSUME NEW i \in due' \cup watched' \cup advanced' \cup InLine', NEW j \in Attempts, j < i
                   PROVE  j \in advanced'
        BY DEF EachInTurn
      <3>1. CASE i = k + 1
        <4>1. j = k \/ j < k BY <2>0, <3>1
        <4> QED BY <2>1, <4>1 DEF AttemptsInv, EachInTurn
      <3>2. CASE i # k + 1
        <4>1. i \in due \cup watched \cup advanced \cup InLine BY <1>1, <2>1, <3>2
        <4> QED BY <2>1, <4>1 DEF AttemptsInv, EachInTurn
      <3> QED BY <3>1, <3>2
    <2>7. WatchedGoOn' BY <2>1 DEF AttemptsInv, WatchedGoOn
    <2>8. LineInOrder' /\ NoneLeft' BY <2>2 DEF AttemptsInv, LineInOrder, NoneLeft
    <2> QED BY <2>5, <2>6, <2>7, <2>8 DEF AttemptsInv
  <1> QED BY <1>2, <1>3

(* The end of an attempt takes it out of the line and off the watchdog.    *)
LEMMA EndKeepsAttempts ==
  ASSUME DatabaseTypeOK, AttemptsInv, NEW k \in Attempts, AtHead(k), dbRequests' = Tail(dbRequests),
         watched' = watched \ {k}, UNCHANGED <<due, advanced>>,
         late' = late \/ late' = (late \/ k \in advanced),
         outcome' = "deleted" => outcome = "deleted" \/ late' = (late \/ k \in advanced)
  PROVE  AttemptsInv'
  <1>1. Head(dbRequests) = k /\ dbRequests # <<>> BY DEF AtHead
  <1>2. LineInOrder BY DEF AttemptsInv
  <1>3. LineInOrder' /\ InLine' \subseteq InLine /\ k \in InLine /\ \A j \in InLine' : k < j
    BY <1>1, <1>2, HeadOfLine
  <1>4. EachInTurn' BY <1>3 DEF AttemptsInv, EachInTurn
  <1>5. DueAreNew' /\ WatchedGoOn' BY <1>3 DEF AttemptsInv, DueAreNew, WatchedGoOn
  <1>6. NoneLeft'
    <2> SUFFICES ASSUME outcome' = "deleted", ~late' PROVE due' = {} /\ watched' = {} /\ InLine' = {}
      BY DEF NoneLeft
    <2>1. ~late BY DEF DatabaseTypeOK
    <2>2. outcome # "deleted" BY <1>3, <2>1 DEF AttemptsInv, NoneLeft
    <2>3. k \notin advanced BY <2>2
    <2>4. \A j \in due \cup watched \cup InLine : ~(k < j) BY <2>3 DEF AttemptsInv, EachInTurn
    <2>5. Attempts \subseteq Int /\ InLine \subseteq Attempts BY DEF Attempts, InLine
    <2>6. \A j \in due \cup watched : j < k => j \in advanced
      BY <1>3 DEF AttemptsInv, EachInTurn, DatabaseTypeOK
    <2>7. \A j \in due \cup watched : ~(j < k) BY <2>6 DEF AttemptsInv, DueAreNew, WatchedGoOn
    <2>8. \A j \in due \cup watched : j = k BY <2>4, <2>5, <2>7 DEF DatabaseTypeOK
    <2>9. k \notin due BY <1>3 DEF AttemptsInv, DueAreNew
    <2>10. InLine' = {} BY <1>3, <2>4
    <2> QED BY <2>8, <2>9, <2>10
  <1> QED BY <1>3, <1>4, <1>5, <1>6 DEF AttemptsInv

LEMMA AttemptsKept ==
  ASSUME DatabaseTypeOK, AttemptsInv, [DatabaseNext]_databaseVars
  PROVE  AttemptsInv'
  <1> USE DEF pool, tasks, tries, history, counts
  <1> DEFINE Same == UNCHANGED <<dbRequests, due, watched, advanced, outcome, late>>
  <1>a. ASSUME Same PROVE AttemptsInv'
    BY <1>a DEF AttemptsInv, EachInTurn, DueAreNew, WatchedGoOn, LineInOrder, NoneLeft, InLine
  <1>b. ASSUME UNCHANGED <<due, watched, advanced, outcome, late>>, LineInOrder', InLine' \subseteq InLine
        PROVE  AttemptsInv'
    BY <1>b DEF AttemptsInv, EachInTurn, DueAreNew, WatchedGoOn, NoneLeft
  <1>1. ASSUME UNCHANGED databaseVars PROVE Same BY <1>1 DEF databaseVars
  <1>2. ASSUME CacheTimeout \/ GetUser \/ JoinReady \/ ImportUser \/ DeleteUser PROVE Same
    BY <1>2 DEF CacheTimeout, GetUser, JoinReady, ImportUser, DeleteUser, Call
  <1>3. ASSUME ReadyReads \/ ReadySaves \/ ImportReads \/ ImportSaves PROVE Same
    BY <1>3 DEF ReadyReads, ReadySaves, ImportReads, ImportSaves, Commit
  <1>4. ASSUME DeleteReads \/ DeleteFlushes \/ DeleteLists PROVE Same
    BY <1>4 DEF DeleteReads, DeleteFlushes, DeleteLists, Commit
  <1>5. ASSUME NEW t \in Tasks, StartTransaction(t) \/ CallRejects(t) PROVE Same
    BY <1>5 DEF StartTransaction, CallRejects
  <1>6. ASSUME NEW o \in Users, CallOp(o) \/ OpEnds(o) PROVE Same
    BY <1>6 DEF CallOp, OpEnds, Call, Commit
  <1>7. ASSUME ConnOpened \/ OpenFails PROVE AttemptsInv'
    <2>1. UNCHANGED <<due, watched, advanced, outcome, late>> /\ dbRequests # <<>> /\ dbRequests' = Tail(dbRequests)
      BY <1>7 DEF ConnOpened, OpenFails
    <2>2. LineInOrder BY DEF AttemptsInv
    <2> QED BY <1>b, <2>1, <2>2, HeadOfLine
  <1>8. ASSUME NEW t \in Tasks, GetDb(t) PROVE AttemptsInv'
    <2>1. CASE cache # Nil BY <1>8, <2>1, <1>a DEF GetDb
    <2>2. CASE cache = Nil
      <3>1. NewConn \in DbConns BY <1>8, <2>2, NewIsFree DEF GetDb
      <3>2. NewConn \notin Attempts BY <3>1, DatabaseAssumption
      <3>3. UNCHANGED <<due, watched, advanced, outcome, late>> /\ dbRequests' = Append(dbRequests, NewConn)
        BY <1>8, <2>2 DEF GetDb
      <3>4. LineInOrder BY DEF AttemptsInv
      <3>5. LineInOrder' /\ \A k \in InLine' : k \in InLine \/ k = NewConn
        BY <3>1, <3>2, <3>3, <3>4, AppendToLine
      <3>6. InLine' \subseteq InLine BY <3>2, <3>5 DEF InLine
      <3> QED BY <1>b, <3>3, <3>5, <3>6
    <2> QED BY <2>1, <2>2
  <1>9. ASSUME StoragesDeleted PROVE AttemptsInv'
    <2>1. /\ due' = {0} /\ watched = {} /\ advanced = {} /\ outcome = "none" /\ InLine = {}
          /\ UNCHANGED <<watched, advanced, outcome, dbRequests, late>>
      BY <1>9 DEF StoragesDeleted, InLine
    <2>2. InLine' = {} BY <2>1 DEF InLine
    <2>3. \A j \in Attempts : ~(j < 0) BY DEF Attempts
    <2> QED BY <2>1, <2>2, <2>3 DEF AttemptsInv, EachInTurn, DueAreNew, WatchedGoOn, LineInOrder, NoneLeft
  <1>10. ASSUME NEW k \in Attempts, DoDelete(k) PROVE AttemptsInv'
    <2>1. /\ k \in due /\ due' = due \ {k} /\ watched' = watched \cup {k} /\ dbRequests' = Append(dbRequests, k)
          /\ UNCHANGED <<advanced, outcome, late>>
      BY <1>10 DEF DoDelete
    <2>2. k \notin advanced /\ k \notin watched /\ k \notin InLine BY <2>1 DEF AttemptsInv, DueAreNew
    <2>3. \A j \in InLine : j < k
      <3>1. \A j \in InLine : ~(k < j) BY <2>2 DEF AttemptsInv, EachInTurn
      <3>2. Attempts \subseteq Int /\ InLine \subseteq Attempts BY DEF Attempts, InLine
      <3> QED BY <2>2, <3>1, <3>2
    <2>4. LineInOrder BY DEF AttemptsInv
    <2>5. LineInOrder' /\ \A j \in InLine' : j \in InLine \/ j = k
      BY <2>1, <2>3, <2>4, AppendToLine
    <2>6. EachInTurn' BY <2>1, <2>5 DEF AttemptsInv, EachInTurn
    <2>7. DueAreNew' BY <2>1, <2>5 DEF AttemptsInv, DueAreNew
    <2>8. WatchedGoOn' BY <2>1, <2>2 DEF AttemptsInv, WatchedGoOn
    <2>9. NoneLeft' BY <2>1 DEF AttemptsInv, NoneLeft
    <2> QED BY <2>5, <2>6, <2>7, <2>8, <2>9 DEF AttemptsInv
  <1>11. ASSUME NEW k \in Attempts, Watchdog(k) PROVE AttemptsInv'
    BY <1>11, AdvanceKeepsAttempts DEF Watchdog
  <1>12. ASSUME NEW k \in Attempts, VersionChange(k) PROVE AttemptsInv'
    <2>1. UNCHANGED <<dbRequests, late>> BY <1>12 DEF VersionChange
    <2>2. CASE Advance(k)
      <3>1. 1 \in DOMAIN dbRequests /\ dbRequests[1] = k BY <1>12 DEF VersionChange, AtHead, DatabaseTypeOK
      <3>2. k \in InLine BY <3>1 DEF InLine
      <3> QED BY <2>1, <2>2, <3>2, AdvanceKeepsAttempts
    <2>3. CASE UNCHANGED tries BY <1>a, <2>1, <2>3
    <2> QED BY <1>12, <2>2, <2>3 DEF VersionChange
  <1>13. ASSUME NEW k \in Attempts, AttemptSucceeds(k) PROVE AttemptsInv'
    <2>1. /\ AtHead(k) /\ dbRequests' = Tail(dbRequests) /\ watched' = watched \ {k}
          /\ UNCHANGED <<due, advanced>> /\ late' = (late \/ k \in advanced)
      BY <1>13 DEF AttemptSucceeds, Unwatch
    <2> QED BY <2>1, EndKeepsAttempts
  <1>14. ASSUME NEW k \in Attempts, DeleteFails(k) PROVE AttemptsInv'
    <2>1. /\ AtHead(k) /\ dbRequests' = Tail(dbRequests) /\ watched' = watched \ {k}
          /\ UNCHANGED <<due, advanced>> /\ late' = late /\ (outcome' = "deleted" => outcome = "deleted")
      BY <1>14 DEF DeleteFails, Conclude
    <2> QED BY <2>1, EndKeepsAttempts
  <1> HIDE DEF Same
  <1> QED
    BY <1>a, <1>1, <1>2, <1>3, <1>4, <1>5, <1>6, <1>7, <1>8, <1>9, <1>10, <1>11, <1>12, <1>13, <1>14
    DEF DatabaseNext

(* Keys go only with an attempt that succeeds.                             *)
LEMMA KeysGoWithAnAttempt ==
  ASSUME [DatabaseNext]_databaseVars, KeysGo
  PROVE  \E k \in Attempts : AttemptSucceeds(k)
  <1> USE DEF pool, tasks, tries, history, counts
  <1>0. keys # keys' /\ keys' = "absent" /\ keys \in Keys BY DEF KeysGo, Keys
  <1>1. ~UNCHANGED databaseVars BY <1>0 DEF databaseVars
  <1>2. ~(CacheTimeout \/ GetUser \/ JoinReady \/ ImportUser \/ DeleteUser \/ OpenFails \/ StoragesDeleted)
    BY <1>0 DEF CacheTimeout, GetUser, JoinReady, ImportUser, DeleteUser, Call, OpenFails, StoragesDeleted
  <1>3. ~(ReadyReads \/ ReadySaves \/ ImportReads \/ ImportSaves)
    BY <1>0 DEF ReadyReads, ReadySaves, ImportReads, ImportSaves, Commit
  <1>4. ~(DeleteReads \/ DeleteFlushes \/ DeleteLists)
    BY <1>0 DEF DeleteReads, DeleteFlushes, DeleteLists, Commit
  <1>5. ~ConnOpened BY <1>0 DEF ConnOpened
  <1>6. \A t \in Tasks : ~(GetDb(t) \/ StartTransaction(t) \/ CallRejects(t))
    BY <1>0 DEF GetDb, StartTransaction, CallRejects
  <1>7. \A o \in Users : ~(CallOp(o) \/ OpEnds(o))
    BY <1>0 DEF CallOp, OpEnds, Call, Commit
  <1>8. \A k \in Attempts : ~(DoDelete(k) \/ Watchdog(k) \/ VersionChange(k) \/ DeleteFails(k))
    BY <1>0 DEF DoDelete, Watchdog, VersionChange, DeleteFails
  <1> QED BY <1>1, <1>2, <1>3, <1>4, <1>5, <1>6, <1>7, <1>8 DEF DatabaseNext

LEMMA DeletedOnceStep ==
  ASSUME DatabaseTypeOK, AttemptsInv, [DatabaseNext]_databaseVars, KeysGo, outcome = "deleted"
  PROVE  late
  <1>1. PICK k \in Attempts : AttemptSucceeds(k) BY KeysGoWithAnAttempt
  <1>2. 1 \in DOMAIN dbRequests /\ dbRequests[1] = k BY <1>1 DEF AttemptSucceeds, AtHead, DatabaseTypeOK
  <1>3. k \in InLine BY <1>2 DEF InLine
  <1> QED BY <1>3 DEF AttemptsInv, NoneLeft

DatabaseInv == DatabaseTypeOK /\ Identity /\ AttemptsInv

LEMMA DatabaseInvHolds == DatabaseSpec => []DatabaseInv
  <1>1. DatabaseInit => DatabaseInv
    <2> SUFFICES ASSUME DatabaseInit PROVE DatabaseInv OBVIOUS
    <2>0. \A t \in Tasks : at[t] = "idle" BY DEF DatabaseInit
    <2>1. DatabaseTypeOK
      <3>1. dbRequests \in Seq(DbConns \cup Attempts) BY DEF DatabaseInit
      <3>2. at \in [Tasks -> Steps] BY DEF DatabaseInit, Steps
      <3>3. using \in [Tasks -> DbConns \cup {Nil}] /\ busy \in [Tasks -> BOOLEAN] BY DEF DatabaseInit
      <3>4. dbConn \in [DbConns -> Settings] BY DEF DatabaseInit, Settings
      <3> QED BY <3>1, <3>2, <3>3, <3>4 DEF DatabaseInit, DatabaseTypeOK, Keys, Steps, Settings
    <2>2. Identity
      <3>1. user \notin Keys BY DatabaseAssumption DEF DatabaseInit
      <3> QED BY <2>0, <3>1, TasksDiffer DEF Identity, OneIdentity
    <2>3. InLine = {} BY DEF DatabaseInit, InLine
    <2>4. LineInOrder BY DEF DatabaseInit, LineInOrder
    <2> QED BY <2>1, <2>2, <2>3, <2>4
        DEF DatabaseInit, DatabaseInv, AttemptsInv, EachInTurn, DueAreNew, WatchedGoOn, NoneLeft
  <1>2. DatabaseInv /\ [DatabaseNext]_databaseVars => DatabaseInv'
    BY DatabaseTypes, IdentityKept, AttemptsKept DEF DatabaseInv
  <1> QED BY <1>1, <1>2, PTL DEF DatabaseSpec

(* The connections, the tasks and the attempts stay well typed.         *)
THEOREM UserDatabaseTyped == DatabaseSpec => []DatabaseTypeOK
  <1>1. DatabaseInv => DatabaseTypeOK BY DEF DatabaseInv
  <1> QED BY <1>1, DatabaseInvHolds, PTL

(* A cached instance signs with the keys that are stored, unless an import *)
(* ran while an instance got ready (main.js:85, user.js:1041).             *)
THEOREM OneIdentityHolds == DatabaseSpec => []OneIdentity
  <1>1. DatabaseInv => OneIdentity BY DEF DatabaseInv, Identity
  <1> QED BY <1>1, DatabaseInvHolds, PTL

(* Keys saved after deleteUser succeeded are not deleted by it, unless the *)
(* attempt that succeeded had been given up (main.js:235).                 *)
THEOREM DeletedOnceHolds == DatabaseSpec => DeletedOnce
  <1>1. DatabaseInv /\ [DatabaseNext]_databaseVars => [(KeysGo /\ outcome = "deleted") => late]_databaseVars
    BY DeletedOnceStep DEF DatabaseInv
  <1> QED BY <1>1, DatabaseInvHolds, PTL DEF DatabaseSpec, DeletedOnce

------------------------------------------------------------------------------
(* ContentPublishing: for any fetches, chunks, sessions and limits.        *)

FetchSteps == Over \cup {"session", "asked", "joined", "chunks"}
ChunkSteps == {"todo", "session", "asked", "joined", "done", "bad"}

(* The parts of a request.                                                 *)
LEMMA RequestParts ==
  ASSUME NEW r \in Requests
  PROVE  r[1] \in Fetches /\ r[2] \in Items /\ (r[2] # Manifest => r[2] \in Chunks) /\ r = <<r[1], r[2]>>
  BY DEF Requests, Items

LEMMA AskIsMail ==
  ASSUME NEW r \in Requests, NEW to \in Peers \cup {Everyone}
  PROVE  /\ Ask(r, to) \in Mail
         /\ Ask(r, to).by = r[1] /\ Ask(r, to).item = r[2] /\ Ask(r, to).kind = "ask" /\ Ask(r, to).to = to
  BY RequestParts DEF Ask, Mail

LEMMA SettleKeepsTypes ==
  ASSUME PublishTypeOK, NEW F, NEW pc \in FetchSteps, PromisesSettle(F, pc)
  PROVE  /\ fetch' \in [Fetches -> Over \cup {"session", "asked", "joined", "chunks"}]
         /\ \A f \in Fetches : fetch'[f] = IF f \in F THEN pc ELSE fetch[f]
  BY DEF PromisesSettle, PublishTypeOK, FetchSteps

LEMMA ChunkEndsKeepsTypes ==
  ASSUME PublishTypeOK, NEW G \in SUBSET Fetches, NEW c \in Chunks, NEW how \in {"done", "bad"},
         ChunkEnds(G, c, how)
  PROVE  /\ chunk' \in [Fetches -> [Chunks -> {"todo", "session", "asked", "joined", "done", "bad"}]]
         /\ chunkEntry' \in [Chunks -> Fetches \cup {Nobody, "settled"}]
  <1> DEFINE F == G \cup {f \in Fetches : chunk[f][c] = "joined"}
  <1>1. chunk' = [f \in Fetches |-> IF f \in F THEN [chunk[f] EXCEPT ![c] = how] ELSE chunk[f]]
    BY DEF ChunkEnds
  <1>2. \A f \in Fetches : chunk[f] \in [Chunks -> ChunkSteps] BY DEF PublishTypeOK, ChunkSteps
  <1>3. \A f \in Fetches : [chunk[f] EXCEPT ![c] = how] \in [Chunks -> ChunkSteps] BY <1>2 DEF ChunkSteps
  <1> HIDE DEF F
  <1>4. chunk' \in [Fetches -> [Chunks -> ChunkSteps]] BY <1>1, <1>2, <1>3
  <1>5. \/ chunkEntry' = [chunkEntry EXCEPT ![c] = "settled"]
        \/ chunkEntry' = [chunkEntry EXCEPT ![c] = Nobody]
    BY DEF ChunkEnds
  <1>6. chunkEntry' \in [Chunks -> Fetches \cup {Nobody, "settled"}] BY <1>5 DEF PublishTypeOK
  <1> QED BY <1>4, <1>6 DEF ChunkSteps

(* Sending a set of requests, that of r to s.                              *)
SendsForManifest(R) ==
  /\ \A f \in Fetches : fetch'[f] = IF <<f, Manifest>> \in R THEN "asked" ELSE fetch[f]
  /\ IF \E f \in Fetches : <<f, Manifest>> \in R
     THEN manifestEntry' \in Fetches /\ <<manifestEntry', Manifest>> \in R
     ELSE manifestEntry' = manifestEntry
SendsMail(R, r, s) ==
  /\ mail \subseteq mail'
  /\ \A m \in mail' \ mail :
       /\ m.kind = "ask" /\ m.by \in Fetches /\ <<m.by, m.item>> \in R
       /\ <<m.by, m.item>> = r => m.to = s
  /\ \A q \in R : \E m \in mail' : m.by = q[1] /\ m.item = q[2]
Sends(R, r, s) ==
  /\ SendsForManifest(R) /\ SendsMail(R, r, s)
  /\ \A f \in Fetches, c \in Chunks : chunk'[f][c] = IF <<f, c>> \in R THEN "asked" ELSE chunk[f][c]
  /\ stale \subseteq stale' /\ (s \notin atPeer => r[1] \in stale')
Waits(r) ==
  /\ UNCHANGED <<mail, manifestEntry, stale>>
  /\ \A f \in Fetches : fetch'[f] = IF <<f, Manifest>> = r THEN "session" ELSE fetch[f]
  /\ \A f \in Fetches, c \in Chunks : chunk'[f][c] = IF <<f, c>> = r THEN "session" ELSE chunk[f][c]

LEMMA SendAllSends ==
  ASSUME PublishTypeOK, NEW R \in SUBSET Requests, NEW r \in Requests, NEW s \in Peers,
         SendAll(R, r, s, fetch, chunk)
  PROVE  /\ mail' \subseteq Mail /\ stale' \subseteq Fetches
         /\ fetch' \in [Fetches -> FetchSteps]
         /\ chunk' \in [Fetches -> [Chunks -> ChunkSteps]]
         /\ manifestEntry' \in Fetches \cup {Nobody}
         /\ Sends(R, r, s)
  <1> DEFINE M == {q[1] : q \in {q \in R : q[2] = Manifest}}
  <1>1. \A f \in Fetches : f \in M <=> <<f, Manifest>> \in R BY RequestParts
  <1>2. M \subseteq Fetches BY RequestParts
  <1>3. fetch' = [f \in Fetches |-> IF f \in M THEN "asked" ELSE fetch[f]] BY DEF SendAll
  <1>4. chunk' = [f \in Fetches |-> [c \in Chunks |-> IF <<f, c>> \in R THEN "asked" ELSE chunk[f][c]]] BY DEF SendAll
  <1>5. IF M = {} THEN manifestEntry' = manifestEntry ELSE manifestEntry' \in M BY DEF SendAll
  <1>6. mail' = mail \cup {Ask(q, IF q = r THEN s ELSE Everyone) : q \in R} BY DEF SendAll
  <1>7. stale' = stale \/ stale' = stale \cup {r[1]} BY DEF SendAll
  <1> HIDE DEF M
  <1>8. ASSUME NEW m \in mail', m \notin mail
        PROVE  /\ m \in Mail /\ m.kind = "ask" /\ m.by \in Fetches /\ <<m.by, m.item>> \in R
               /\ <<m.by, m.item>> = r => m.to = s
    <2>1. PICK q \in R : m = Ask(q, IF q = r THEN s ELSE Everyone) BY <1>6, <1>8
    <2>2. PICK to \in Peers \cup {Everyone} : m = Ask(q, to) /\ (q = r => to = s) BY <2>1
    <2>3. m \in Mail /\ m.by = q[1] /\ m.item = q[2] /\ m.kind = "ask" /\ m.to = to BY <2>2, AskIsMail
    <2>4. q = <<q[1], q[2]>> /\ q[1] \in Fetches BY RequestParts
    <2> QED BY <2>2, <2>3, <2>4
  <1>9. mail' \subseteq Mail BY <1>8 DEF PublishTypeOK
  <1>10. stale' \subseteq Fetches BY <1>7, RequestParts DEF PublishTypeOK
  <1>11. fetch' \in [Fetches -> FetchSteps] BY <1>3 DEF PublishTypeOK, FetchSteps
  <1>12. chunk' \in [Fetches -> [Chunks -> ChunkSteps]] BY <1>4 DEF PublishTypeOK, ChunkSteps
  <1>13. manifestEntry' \in Fetches \cup {Nobody} BY <1>2, <1>5 DEF PublishTypeOK
  <1>14. SendsForManifest(R) BY <1>1, <1>2, <1>3, <1>5 DEF SendsForManifest
  <1>15. SendsMail(R, r, s)
    <2>1. mail \subseteq mail' BY <1>6
    <2>2. ASSUME NEW q \in R PROVE \E m \in mail' : m.by = q[1] /\ m.item = q[2]
      <3>1. PICK to \in Peers \cup {Everyone} : Ask(q, to) \in mail' BY <1>6
      <3> QED BY <3>1, AskIsMail
    <2> QED BY <1>8, <2>1, <2>2 DEF SendsMail
  <1>16. \A f \in Fetches, c \in Chunks : chunk'[f][c] = IF <<f, c>> \in R THEN "asked" ELSE chunk[f][c] BY <1>4
  <1>17. stale \subseteq stale' /\ (s \notin atPeer => r[1] \in stale') BY DEF SendAll
  <1>18. Sends(R, r, s) BY <1>14, <1>15, <1>16, <1>17 DEF Sends
  <1> QED BY <1>9, <1>10, <1>11, <1>12, <1>13, <1>18

(* A request is sent, or it waits for the session.                         *)
LEMMA RequestMoves ==
  ASSUME PublishTypeOK, NEW r \in Requests, Request(r, fetch, chunk)
  PROVE  /\ mail' \subseteq Mail /\ stale' \subseteq Fetches
         /\ fetch' \in [Fetches -> FetchSteps]
         /\ chunk' \in [Fetches -> [Chunks -> ChunkSteps]]
         /\ manifestEntry' \in Fetches \cup {Nobody}
         /\ sessionId' \in Peers \cup {Nobody, Everyone} /\ lookingUp' \in Requests \cup {Nobody}
         /\ sessionId' = Everyone <=> lookingUp' # Nobody
         /\ (sessionId \in Peers /\ Sends({r}, r, sessionId)) \/ Waits(r)
  <1>1. CASE sessionId \in Peers
    <2>1. SendAll({r}, r, sessionId, fetch, chunk) /\ UNCHANGED <<sessionId, lookingUp>> BY <1>1 DEF Request
    <2>2. sessionId' \in Peers \cup {Nobody, Everyone} /\ lookingUp' \in Requests \cup {Nobody}
          /\ (sessionId' = Everyone <=> lookingUp' # Nobody)
      BY <2>1 DEF PublishTypeOK
    <2> QED BY <1>1, <2>1, <2>2, SendAllSends
  <1>2. CASE sessionId \notin Peers
    <2>1. /\ sessionId' = Everyone /\ lookingUp' = IF lookingUp = Nobody THEN r ELSE lookingUp
          /\ fetch' = IF r[2] = Manifest THEN [fetch EXCEPT ![r[1]] = "session"] ELSE fetch
          /\ chunk' = IF r[2] = Manifest THEN chunk ELSE [chunk EXCEPT ![r[1]][r[2]] = "session"]
          /\ UNCHANGED <<mail, manifestEntry, stale>>
      BY <1>2 DEF Request
    <2>2. lookingUp' \in Requests /\ lookingUp' # Nobody BY <2>1, PublishAssumption DEF PublishTypeOK
    <2>3. fetch' \in [Fetches -> FetchSteps] BY <2>1, RequestParts DEF PublishTypeOK, FetchSteps
    <2>4. chunk' \in [Fetches -> [Chunks -> ChunkSteps]]
      <3>1. CASE r[2] = Manifest BY <2>1, <3>1 DEF PublishTypeOK, ChunkSteps
      <3>2. CASE r[2] # Manifest
        <4>1. r[1] \in Fetches /\ r[2] \in Chunks BY <3>2, RequestParts
        <4>2. chunk \in [Fetches -> [Chunks -> ChunkSteps]] BY DEF PublishTypeOK, ChunkSteps
        <4>3. [chunk[r[1]] EXCEPT ![r[2]] = "session"] \in [Chunks -> ChunkSteps] BY <4>1, <4>2 DEF ChunkSteps
        <4>4. chunk' = [chunk EXCEPT ![r[1]] = [chunk[r[1]] EXCEPT ![r[2]] = "session"]] BY <2>1, <3>2
        <4> QED BY <4>1, <4>2, <4>3, <4>4
      <3> QED BY <3>1, <3>2
    <2>5. \A f \in Fetches : fetch'[f] = IF <<f, Manifest>> = r THEN "session" ELSE fetch[f]
      <3> SUFFICES ASSUME NEW f \in Fetches PROVE fetch'[f] = IF <<f, Manifest>> = r THEN "session" ELSE fetch[f]
        OBVIOUS
      <3>1. r = <<r[1], r[2]>> /\ r[1] \in Fetches BY RequestParts
      <3>2. <<f, Manifest>> = r <=> r[1] = f /\ r[2] = Manifest BY <3>1
      <3> QED BY <2>1, <3>1, <3>2 DEF PublishTypeOK
    <2>6. ASSUME NEW f \in Fetches, NEW c \in Chunks
          PROVE  chunk'[f][c] = IF <<f, c>> = r THEN "session" ELSE chunk[f][c]
      <3>1. r = <<r[1], r[2]>> /\ r[1] \in Fetches BY RequestParts
      <3>2. <<f, c>> = r <=> r[1] = f /\ r[2] = c BY <3>1
      <3>3. c # Manifest BY PublishAssumption
      <3>4. CASE r[2] = Manifest BY <2>1, <3>2, <3>3, <3>4
      <3>5. CASE r[2] # Manifest
        <4>1. chunk' = [chunk EXCEPT ![r[1]][r[2]] = "session"] BY <2>1, <3>5
        <4> QED BY <3>1, <3>2, <4>1 DEF PublishTypeOK
      <3> QED BY <3>4, <3>5
    <2>7. Waits(r) BY <2>1, <2>5, <2>6 DEF Waits
    <2> QED BY <2>1, <2>2, <2>3, <2>4, <2>7 DEF PublishTypeOK
  <1> QED BY <1>1, <1>2

LEMMA EntrySettlesKeepsTypes ==
  ASSUME PublishTypeOK, NEW pc \in {"chunks", "failed"}, EntrySettles(pc)
  PROVE  /\ fetch' \in [Fetches -> FetchSteps] /\ manifestEntry' \in Fetches \cup {Nobody}
         /\ armed' \subseteq Fetches /\ expired' = expired /\ unsent' = unsent
  <1>1. CASE manifestEntry = Nobody
    BY <1>1 DEF EntrySettles, timing, PublishTypeOK, FetchSteps
  <1>2. CASE manifestEntry # Nobody
    <2>1. /\ manifestEntry' = Nobody /\ armed' \subseteq armed /\ expired' = expired /\ unsent' = unsent
          /\ \E F : PromisesSettle(F, pc)
      BY <1>2 DEF EntrySettles, StopTimer
    <2>2. pc \in FetchSteps BY DEF FetchSteps, Over
    <2>3. fetch' \in [Fetches -> FetchSteps] BY <2>1, <2>2, SettleKeepsTypes DEF FetchSteps
    <2> QED BY <2>1, <2>3 DEF PublishTypeOK
  <1> QED BY <1>1, <1>2

LEMMA ExcuseKeepsTypes ==
  ASSUME PublishTypeOK, NEW F \in SUBSET Fetches, Excuse(F)
  PROVE  excused' \subseteq Fetches
  BY DEF Excuse, PublishTypeOK

LEMMA UpsetKeepsTypes ==
  ASSUME PublishTypeOK, Upset \/ Calm
  PROVE  excused' \subseteq Fetches /\ upsets' \in 0..MaxUpsets
  BY PublishAssumption DEF Upset, Calm, Excuse, UnderWay, PublishTypeOK

LEMMA PublishTypes ==
  ASSUME PublishTypeOK, [PublishNext]_publishVars
  PROVE  PublishTypeOK'
  <1> USE DEF asking, timing
  <1>1. ASSUME UNCHANGED publishVars PROVE PublishTypeOK'
    BY <1>1 DEF publishVars, PublishTypeOK
  <1>2. ASSUME NEW i \in Items, Publish(i) PROVE PublishTypeOK'
    BY <1>2 DEF Publish, PublishTypeOK
  <1>3. ASSUME SessionFound PROVE PublishTypeOK'
    <2>1. PICK s \in atPeer : sessionId' = s /\ SendAll(InLookup, lookingUp, s, fetch, chunk) BY <1>3 DEF SessionFound
    <2>2. s \in Peers /\ InLookup \in SUBSET Requests BY DEF PublishTypeOK, InLookup
    <2>3. lookingUp # Nobody /\ lookingUp' = Nobody BY <1>3 DEF SessionFound
    <2>4. lookingUp \in Requests BY <2>3 DEF PublishTypeOK
    <2>5. excused' \subseteq Fetches
      <3>1. {r[1] : r \in InLookup \ {lookingUp}} \subseteq Fetches BY <2>2, RequestParts
      <3> QED BY <1>3, <3>1, ExcuseKeepsTypes DEF SessionFound
    <2>6. /\ mail' \subseteq Mail /\ stale' \subseteq Fetches /\ fetch' \in [Fetches -> FetchSteps]
          /\ chunk' \in [Fetches -> [Chunks -> ChunkSteps]] /\ manifestEntry' \in Fetches \cup {Nobody}
      BY <2>1, <2>2, <2>4, SendAllSends
    <2>7. UNCHANGED <<published, atPeer, direct, stored, armed, expired, unsent, via, chunkEntry, upsets>> BY <1>3 DEF SessionFound
    <2>8. sessionId' \in Peers /\ sessionId' # Everyone BY <2>1, <2>2, PublishAssumption
    <2> QED BY <2>3, <2>5, <2>6, <2>7, <2>8 DEF PublishTypeOK, FetchSteps, ChunkSteps
  <1>4. ASSUME SessionNotFound PROVE PublishTypeOK'
    <2>1. excused' \subseteq Fetches /\ upsets' \in 0..MaxUpsets
      <3>1. CASE atPeer = {} BY <1>4, <3>1 DEF SessionNotFound, Excuse, UnderWay, PublishTypeOK
      <3>2. CASE atPeer # {} BY <1>4, <3>2, UpsetKeepsTypes DEF SessionNotFound
      <3> QED BY <3>1, <3>2
    <2>2. "failed" \in FetchSteps /\ \E F : PromisesSettle(F, "failed") BY <1>4 DEF SessionNotFound, FetchSteps, Over
    <2>3. fetch' \in [Fetches -> FetchSteps] BY <2>2, SettleKeepsTypes DEF FetchSteps
    <2>4. chunk' \in [Fetches -> [Chunks -> ChunkSteps]]
      <3>1. \A f \in Fetches, c \in Chunks : chunk[f][c] \in ChunkSteps BY DEF PublishTypeOK, ChunkSteps
      <3> QED BY <1>4, <3>1 DEF SessionNotFound, ChunkSteps
    <2>5. chunkEntry' \in [Chunks -> Fetches \cup {Nobody, "settled"}] BY <1>4 DEF SessionNotFound, PublishTypeOK
    <2>6. sessionId' = Nobody /\ lookingUp' = Nobody /\ Nobody # Everyone
      BY <1>4, PublishAssumption DEF SessionNotFound, Forgotten
    <2>7. UNCHANGED <<published, atPeer, direct, stored, manifestEntry, armed, expired, unsent, via, mail, stale>>
      BY <1>4 DEF SessionNotFound
    <2> QED BY <2>1, <2>3, <2>4, <2>5, <2>6, <2>7 DEF PublishTypeOK, FetchSteps, ChunkSteps
  <1>5. ASSUME Move PROVE PublishTypeOK'
    <2>1. excused' \subseteq Fetches /\ upsets' \in 0..MaxUpsets BY <1>5, UpsetKeepsTypes DEF Move
    <2>2. atPeer' \subseteq Peers /\ direct' \in BOOLEAN BY <1>5 DEF Move, PublishTypeOK
    <2>3. UNCHANGED <<published, stored, sessionId, lookingUp, manifestEntry, armed, expired, unsent, fetch, via, chunkEntry, chunk, mail, stale>>
      BY <1>5 DEF Move
    <2> QED BY <2>1, <2>2, <2>3 DEF PublishTypeOK
  <1>6. ASSUME Stop PROVE PublishTypeOK'
    <2>1. excused' \subseteq Fetches /\ upsets' \in 0..MaxUpsets BY <1>6, UpsetKeepsTypes DEF Stop
    <2>2. /\ fetch' \in [Fetches -> FetchSteps] /\ manifestEntry' \in Fetches \cup {Nobody}
          /\ armed' \subseteq Fetches /\ expired' = expired /\ unsent' = unsent
      BY <1>6, EntrySettlesKeepsTypes DEF Stop
    <2>3. lookingUp' = lookingUp /\ sessionId' = IF lookingUp = Nobody THEN Nobody ELSE sessionId BY <1>6 DEF Stop
    <2>4. sessionId' \in Peers \cup {Nobody, Everyone} /\ (sessionId' = Everyone <=> lookingUp' # Nobody)
      BY <2>3, PublishAssumption DEF PublishTypeOK
    <2>5. chunkEntry' \in [Chunks -> Fetches \cup {Nobody, "settled"}] BY <1>6 DEF Stop
    <2>6. UNCHANGED <<published, atPeer, direct, stored, via, chunk, mail, stale>> BY <1>6 DEF Stop
    <2> QED BY <2>1, <2>2, <2>3, <2>4, <2>5, <2>6 DEF PublishTypeOK, FetchSteps
  <1>7. ASSUME Reload PROVE PublishTypeOK'
    <2>1. upsets' \in 0..MaxUpsets BY <1>7, PublishAssumption DEF Reload, PublishTypeOK
    <2>2. /\ sessionId' = Nobody /\ lookingUp' = Nobody /\ manifestEntry' = Nobody /\ armed' = {} /\ expired' = {}
          /\ mail' = {} /\ UNCHANGED <<published, atPeer, direct, stored, unsent, excused, stale>>
      BY <1>7 DEF Reload
    <2>3. via' \in [Fetches -> Fetches] BY <1>7 DEF Reload
    <2>4. chunk' \in [Fetches -> [Chunks -> ChunkSteps]] BY <1>7 DEF Reload, NoChunks, ChunkSteps
    <2>5. chunkEntry' \in [Chunks -> Fetches \cup {Nobody, "settled"}] BY <1>7 DEF Reload
    <2>6. fetch' \in [Fetches -> FetchSteps] BY <1>7 DEF Reload, FetchSteps, Over, PublishTypeOK
    <2> QED BY <2>1, <2>2, <2>3, <2>4, <2>5, <2>6, PublishAssumption DEF PublishTypeOK, FetchSteps, ChunkSteps
  <1>8. ASSUME NEW f \in Fetches, FetchFile(f) PROVE PublishTypeOK'
    <2>1. UNCHANGED <<published, atPeer, direct, stored, expired, unsent, chunkEntry, upsets>> BY <1>8 DEF FetchFile
    <2>2. excused' \subseteq Fetches BY <1>8 DEF FetchFile, Starts, Excuse, UnderWay, PublishTypeOK
    <2>3. CASE \E pc \in {"ok", "chunks", "joined"} :
                 PromisesSettle({f}, pc) /\ UNCHANGED <<sessionId, lookingUp, manifestEntry, armed, chunk, mail, stale>>
      <3>1. fetch' \in [Fetches -> FetchSteps] BY <2>3, SettleKeepsTypes DEF FetchSteps, Over
      <3>2. via' \in [Fetches -> Fetches] BY <1>8 DEF FetchFile, PublishTypeOK
      <3> QED BY <2>1, <2>2, <2>3, <3>1, <3>2 DEF PublishTypeOK, FetchSteps
    <2>4. CASE Request(<<f, Manifest>>, fetch, chunk) /\ via' = via /\ armed' = armed \cup {f}
      <3>1. <<f, Manifest>> \in Requests BY DEF Requests, Items
      <3>2. /\ mail' \subseteq Mail /\ stale' \subseteq Fetches /\ fetch' \in [Fetches -> FetchSteps]
            /\ chunk' \in [Fetches -> [Chunks -> ChunkSteps]] /\ manifestEntry' \in Fetches \cup {Nobody}
            /\ sessionId' \in Peers \cup {Nobody, Everyone} /\ lookingUp' \in Requests \cup {Nobody}
            /\ sessionId' = Everyone <=> lookingUp' # Nobody
        BY <2>4, <3>1, RequestMoves
      <3> QED BY <2>1, <2>2, <2>4, <3>2 DEF PublishTypeOK, FetchSteps, ChunkSteps
    <2> QED BY <1>8, <2>3, <2>4 DEF FetchFile
  <1>9. ASSUME NEW f \in Fetches, NEW c \in Chunks, RequestChunk(f, c) PROVE PublishTypeOK'
    <2>1. UNCHANGED <<published, atPeer, direct, stored, armed, expired, unsent, via, excused, upsets>> BY <1>9 DEF RequestChunk
    <2>2. CASE \E how \in {"done", "joined"} :
                 /\ chunk' = [chunk EXCEPT ![f][c] = how]
                 /\ UNCHANGED <<sessionId, lookingUp, manifestEntry, fetch, chunkEntry, mail, stale>>
      <3>1. PICK how \in {"done", "joined"} : chunk' = [chunk EXCEPT ![f][c] = how] BY <2>2
      <3>2. chunk[f] \in [Chunks -> ChunkSteps] BY DEF PublishTypeOK, ChunkSteps
      <3>3. [chunk[f] EXCEPT ![c] = how] \in [Chunks -> ChunkSteps] BY <3>2 DEF ChunkSteps
      <3>4. chunk' = [chunk EXCEPT ![f] = [chunk[f] EXCEPT ![c] = how]] BY <3>1
      <3>5. chunk' \in [Fetches -> [Chunks -> ChunkSteps]] BY <3>3, <3>4 DEF PublishTypeOK, ChunkSteps
      <3> QED BY <2>1, <2>2, <3>5 DEF PublishTypeOK, ChunkSteps
    <2>3. CASE Request(<<f, c>>, fetch, chunk) /\ chunkEntry' = [chunkEntry EXCEPT ![c] = f]
      <3>1. <<f, c>> \in Requests BY DEF Requests, Items
      <3>2. /\ mail' \subseteq Mail /\ stale' \subseteq Fetches /\ fetch' \in [Fetches -> FetchSteps]
            /\ chunk' \in [Fetches -> [Chunks -> ChunkSteps]] /\ manifestEntry' \in Fetches \cup {Nobody}
            /\ sessionId' \in Peers \cup {Nobody, Everyone} /\ lookingUp' \in Requests \cup {Nobody}
            /\ sessionId' = Everyone <=> lookingUp' # Nobody
        BY <2>3, <3>1, RequestMoves
      <3>3. chunkEntry' \in [Chunks -> Fetches \cup {Nobody, "settled"}] BY <2>3 DEF PublishTypeOK
      <3> QED BY <2>1, <3>2, <3>3 DEF PublishTypeOK, FetchSteps, ChunkSteps
    <2> QED BY <1>9, <2>2, <2>3 DEF RequestChunk
  <1>10. ASSUME NEW f \in Fetches, FetchEnds(f) \/ Expires(f) PROVE PublishTypeOK'
    <2>1. \E pc \in {"ok", "failed"} : PromisesSettle({f}, pc) BY <1>10 DEF FetchEnds, Expires
    <2>2. fetch' \in [Fetches -> FetchSteps] BY <2>1, SettleKeepsTypes DEF FetchSteps, Over
    <2>3. UNCHANGED <<published, atPeer, direct, stored, sessionId, lookingUp, manifestEntry, armed, expired, unsent, via,
                      chunkEntry, chunk, mail, excused, stale, upsets>>
      BY <1>10 DEF FetchEnds, Expires
    <2> QED BY <2>2, <2>3 DEF PublishTypeOK, FetchSteps
  <1>11. ASSUME NEW m \in mail, Answer(m) PROVE PublishTypeOK'
    <2>1. m \in Mail BY DEF PublishTypeOK
    <2>2. \A k \in {"have", "missing"} : [m EXCEPT !.kind = k] \in Mail BY <2>1 DEF Mail
    <2>3. mail' \subseteq Mail BY <1>11, <2>2 DEF Answer, PublishTypeOK
    <2> QED BY <1>11, <2>3 DEF Answer, PublishTypeOK
  <1>12. ASSUME NEW m \in mail, ManifestArrives(m) PROVE PublishTypeOK'
    <2>1. EntrySettles("chunks") \/ EntrySettles("failed") BY <1>12 DEF ManifestArrives
    <2>2. /\ fetch' \in [Fetches -> FetchSteps] /\ manifestEntry' \in Fetches \cup {Nobody}
          /\ armed' \subseteq Fetches /\ expired' = expired /\ unsent' = unsent
      BY <2>1, EntrySettlesKeepsTypes
    <2>3. excused' \subseteq Fetches /\ upsets' \in 0..MaxUpsets
      <3>1. CASE Upset \/ Calm BY <3>1, UpsetKeepsTypes
      <3>2. CASE Excuse(UnderWay) /\ UNCHANGED upsets BY <3>2 DEF Excuse, UnderWay, PublishTypeOK
      <3> QED BY <1>12, <3>1, <3>2 DEF ManifestArrives
    <2>4. stored' \subseteq Items /\ mail' \subseteq Mail BY <1>12 DEF ManifestArrives, Items, PublishTypeOK
    <2>5. UNCHANGED <<published, atPeer, direct, sessionId, lookingUp, via, chunkEntry, chunk, stale>>
      BY <1>12 DEF ManifestArrives
    <2> QED BY <2>2, <2>3, <2>4, <2>5 DEF PublishTypeOK, FetchSteps
  <1>13. ASSUME NEW m \in mail, ChunkArrives(m) PROVE PublishTypeOK'
    <2>1. /\ mail' = mail \ {m} /\ m.item \in Chunks
          /\ UNCHANGED <<published, atPeer, direct, sessionId, lookingUp, manifestEntry, armed, expired, unsent, fetch, via,
                         excused, stale, upsets>>
      BY <1>13 DEF ChunkArrives
    <2>2. stored' = stored \/ stored' = stored \cup {m.item} BY <1>13 DEF ChunkArrives
    <2>3. /\ chunk' \in [Fetches -> [Chunks -> ChunkSteps]]
          /\ chunkEntry' \in [Chunks -> Fetches \cup {Nobody, "settled"}]
      <3>1. CASE UNCHANGED <<chunk, chunkEntry>> BY <3>1 DEF PublishTypeOK, ChunkSteps
      <3>2. CASE \E G \in SUBSET Fetches, how \in {"done", "bad"} : ChunkEnds(G, m.item, how)
        BY <2>1, <3>2, ChunkEndsKeepsTypes DEF ChunkSteps
      <3> QED BY <1>13, <3>1, <3>2 DEF ChunkArrives
    <2> QED BY <2>1, <2>2, <2>3 DEF PublishTypeOK, Items, ChunkSteps
  <1>14. ASSUME NEW m \in mail, SendFails(m) PROVE PublishTypeOK'
    <2>1. /\ mail' = mail \ {m} /\ m \in Mail
          /\ UNCHANGED <<published, atPeer, direct, stored, sessionId, lookingUp, via, stale>>
      BY <1>14 DEF SendFails, PublishTypeOK
    <2>2. excused' \subseteq Fetches /\ upsets' \in 0..MaxUpsets
      <3>1. CASE Upset BY <3>1, UpsetKeepsTypes
      <3>2. CASE Excuse(IF At(<<m.by, m.item>>) = "asked" THEN {} ELSE UnderWay) /\ UNCHANGED upsets
        BY <3>2 DEF Excuse, UnderWay, PublishTypeOK
      <3> QED BY <1>14, <3>1, <3>2 DEF SendFails
    <2>3. CASE m.item = Manifest
      <3>1. /\ manifestEntry' = Nobody /\ armed' \subseteq armed /\ expired' = expired
            /\ (unsent' = unsent \/ unsent' = unsent \cup {m.by}) /\ m.by \in Fetches
            /\ UNCHANGED <<chunk, chunkEntry>>
        BY <1>14, <2>1, <2>3 DEF SendFails, Mail
      <3>2. fetch' = fetch \/ PromisesSettle({m.by}, "failed") BY <1>14, <2>3 DEF SendFails
      <3>3. fetch' \in [Fetches -> FetchSteps] BY <3>2, SettleKeepsTypes DEF FetchSteps, Over, PublishTypeOK
      <3> QED BY <2>1, <2>2, <3>1, <3>3 DEF PublishTypeOK, FetchSteps
    <2>4. CASE m.item # Manifest
      <3>1. m.item \in Chunks /\ m.by \in Fetches BY <2>1, <2>4 DEF Mail, Items
      <3>2. UNCHANGED <<manifestEntry, armed, expired, unsent, fetch>> BY <1>14, <2>4 DEF SendFails
      <3>3. /\ chunk' \in [Fetches -> [Chunks -> ChunkSteps]]
            /\ chunkEntry' \in [Chunks -> Fetches \cup {Nobody, "settled"}]
        <4>1. CASE UNCHANGED <<chunk, chunkEntry>> BY <4>1 DEF PublishTypeOK, ChunkSteps
        <4>2. CASE ChunkEnds({m.by}, m.item, "bad") BY <3>1, <4>2, ChunkEndsKeepsTypes DEF ChunkSteps
        <4> QED BY <1>14, <2>4, <4>1, <4>2 DEF SendFails
      <3> QED BY <2>1, <2>2, <3>2, <3>3 DEF PublishTypeOK, ChunkSteps
    <2> QED BY <2>3, <2>4
  <1>15. ASSUME NEW m \in mail, Lose(m) PROVE PublishTypeOK'
    <2>1. excused' \subseteq Fetches /\ upsets' \in 0..MaxUpsets BY <1>15, UpsetKeepsTypes DEF Lose
    <2> QED BY <1>15, <2>1 DEF Lose, PublishTypeOK
  <1>16. ASSUME NEW f \in Fetches, ManifestTimesOut(f) PROVE PublishTypeOK'
    <2>1. Upset \/ Calm BY <1>16 DEF ManifestTimesOut
    <2>2. excused' \subseteq Fetches /\ upsets' \in 0..MaxUpsets BY <2>1, UpsetKeepsTypes
    <2>3. /\ armed' \subseteq armed /\ manifestEntry' = Nobody /\ expired' \subseteq expired \cup {f}
          /\ \E F : PromisesSettle(F, "failed")
      BY <1>16 DEF ManifestTimesOut
    <2>4. fetch' \in [Fetches -> FetchSteps] BY <2>3, SettleKeepsTypes DEF FetchSteps, Over
    <2>5. UNCHANGED <<published, atPeer, direct, stored, unsent, sessionId, lookingUp, via, chunkEntry, chunk, mail, stale>>
      BY <1>16 DEF ManifestTimesOut
    <2> QED BY <2>2, <2>3, <2>4, <2>5 DEF PublishTypeOK, FetchSteps
  <1>17. ASSUME NEW f \in Fetches, NEW c \in Chunks, ChunkTimesOut(f, c) PROVE PublishTypeOK'
    <2>1. Upset \/ Calm BY <1>17 DEF ChunkTimesOut
    <2>2. excused' \subseteq Fetches /\ upsets' \in 0..MaxUpsets BY <2>1, UpsetKeepsTypes
    <2>3. ChunkEnds({f}, c, "bad") BY <1>17 DEF ChunkTimesOut
    <2>4. /\ chunk' \in [Fetches -> [Chunks -> ChunkSteps]]
          /\ chunkEntry' \in [Chunks -> Fetches \cup {Nobody, "settled"}]
      BY <2>3, ChunkEndsKeepsTypes DEF ChunkSteps
    <2>5. UNCHANGED <<published, atPeer, direct, stored, sessionId, lookingUp, manifestEntry, armed, expired, unsent, fetch, via,
                      mail, stale>>
      BY <1>17 DEF ChunkTimesOut
    <2> QED BY <2>2, <2>4, <2>5 DEF PublishTypeOK, ChunkSteps
  <1> QED
    BY <1>1, <1>2, <1>3, <1>4, <1>5, <1>6, <1>7, <1>8, <1>9, <1>10, <1>11, <1>12, <1>13, <1>14, <1>15, <1>16, <1>17
    DEF PublishNext

(***************************************************************************)
(* What a call that waits for the manifest is owed.  Its request has a     *)
(* timer that runs or has ended; a call that joined waits for a request    *)
(* that was sent, or whose timer has ended, or that could not be sent and  *)
(* settles no more; the entry, which new calls join, is for one of the     *)
(* first two; and a call with a message under way has sent its request.    *)
(***************************************************************************)
Timed == \A f \in Fetches : fetch[f] \in {"session", "asked"} => f \in armed \cup expired
Joined == \A f \in Fetches : fetch[f] = "joined" => via[f] \in expired \cup unsent \/ fetch[via[f]] = "asked"
EntrySent == manifestEntry # Nobody => manifestEntry \in expired \/ fetch[manifestEntry] = "asked"
MailSent == \A m \in mail : m.item = Manifest => fetch[m.by] \notin {"idle", "session"}
Awaited == Timed /\ Joined /\ EntrySent /\ MailSent

(* The requests R for the manifest are sent; they were made before.        *)
LEMMA SendsKeepsAwaited ==
  ASSUME PublishTypeOK, Awaited, NEW R, NEW r, NEW s, Sends(R, r, s), UNCHANGED <<via, expired, unsent>>, armed \subseteq armed',
         \A f \in Fetches : <<f, Manifest>> \in R => f \in armed' \cup expired
  PROVE  Awaited'
  <1>1. Timed' BY DEF Awaited, Timed, Sends, SendsForManifest
  <1>2. Joined' BY DEF Awaited, Joined, Sends, SendsForManifest, PublishTypeOK
  <1>3. EntrySent' BY DEF Awaited, EntrySent, Sends, SendsForManifest, PublishTypeOK
  <1>4. MailSent'
    <2> SUFFICES ASSUME NEW m \in mail', m.item = Manifest PROVE fetch'[m.by] \notin {"idle", "session"}
      BY DEF MailSent
    <2>1. CASE m \in mail
      <3>1. m.by \in Fetches BY <2>1 DEF PublishTypeOK, Mail
      <3> QED BY <2>1, <3>1 DEF Awaited, MailSent, Sends, SendsForManifest
    <2>2. CASE m \notin mail BY <2>2 DEF Sends, SendsMail, SendsForManifest
    <2> QED BY <2>1, <2>2
  <1> QED BY <1>1, <1>2, <1>3, <1>4 DEF Awaited

(* The promises of g settle, if its request was sent, and the entry goes.  *)
LEMMA SettleKeepsAwaited ==
  ASSUME PublishTypeOK, Awaited, NEW g \in Fetches, NEW F, NEW pc \in {"chunks", "failed"},
         PromisesSettle(F, pc), armed' = armed \ {g}, manifestEntry' = Nobody, via' = via, mail' \subseteq mail,
         unsent \subseteq unsent',
         \/ F = Promised(g) /\ expired' = expired
         \/ F = {g} /\ expired' = expired /\ g \in unsent'
         \/ F = {} /\ expired' = expired /\ (fetch[g] \in {"session", "asked"} => g \in expired)
         \/ F = {} /\ expired' = expired \cup {g}
  PROVE  Awaited'
  <1>1. \A f \in Fetches : fetch'[f] = IF f \in F THEN pc ELSE fetch[f]
    BY DEF PromisesSettle
  <1>2. /\ F = Promised(g) => \A f \in Fetches : fetch[f] = "joined" /\ via[f] = g => f \in F
        /\ F = Promised(g) \/ F = {g} => g \in F
    BY DEF Promised
  <1>3. expired \subseteq expired' OBVIOUS
  <1>4. Timed' BY <1>1, <1>2, <1>3 DEF Awaited, Timed
  <1>5. Joined'
    <2> SUFFICES ASSUME NEW f \in Fetches, fetch'[f] = "joined"
                 PROVE  via[f] \in expired' \cup unsent' \/ fetch'[via[f]] = "asked"
      BY DEF Joined
    <2>1. fetch[f] = "joined" /\ f \notin F BY <1>1
    <2>2. via[f] \in Fetches BY DEF PublishTypeOK
    <2>3. via[f] \in expired \cup unsent \/ fetch[via[f]] = "asked" BY <2>1 DEF Awaited, Joined
    <2>4. CASE F = {} BY <1>1, <1>3, <2>2, <2>3, <2>4
    <2>5. CASE F = Promised(g)
      <3>1. via[f] # g BY <1>2, <2>1, <2>5
      <3>2. fetch[via[f]] = "asked" => via[f] \notin F BY <2>5, <3>1 DEF Promised
      <3> QED BY <1>1, <1>3, <2>2, <2>3, <3>2
    <2>6. CASE F = {g} /\ g \in unsent'
      <3>1. via[f] = g \/ via[f] \notin F BY <2>6
      <3> QED BY <1>1, <1>3, <2>2, <2>3, <2>6, <3>1
    <2> QED BY <2>4, <2>5, <2>6
  <1>6. EntrySent' BY DEF EntrySent
  <1>7. MailSent'
    <2> SUFFICES ASSUME NEW m \in mail, m.item = Manifest PROVE fetch'[m.by] \notin {"idle", "session"}
      BY DEF MailSent
    <2>1. m.by \in Fetches BY DEF PublishTypeOK, Mail
    <2> QED BY <1>1, <2>1 DEF Awaited, MailSent
  <1> QED BY <1>4, <1>5, <1>6, <1>7 DEF Awaited

LEMMA EntrySettlesKeepsAwaited ==
  ASSUME PublishTypeOK, Awaited, NEW pc \in {"chunks", "failed"}, EntrySettles(pc), via' = via, mail' \subseteq mail
  PROVE  Awaited'
  <1>1. CASE manifestEntry = Nobody
    <2>1. UNCHANGED <<manifestEntry, armed, expired, unsent, fetch>> BY <1>1 DEF EntrySettles, timing
    <2> QED BY <2>1 DEF Awaited, Timed, Joined, EntrySent, MailSent
  <1>2. CASE manifestEntry # Nobody
    <2>1. manifestEntry \in Fetches BY <1>2 DEF PublishTypeOK
    <2>2. /\ manifestEntry' = Nobody /\ armed' = armed \ {manifestEntry} /\ expired' = expired
          /\ unsent' = unsent
          /\ PromisesSettle(IF manifestEntry \in expired THEN {} ELSE Promised(manifestEntry), pc)
      BY <1>2 DEF EntrySettles, StopTimer
    <2>3. CASE manifestEntry \in expired
      BY <2>1, <2>2, <2>3, SettleKeepsAwaited
    <2>4. CASE manifestEntry \notin expired
      BY <2>1, <2>2, <2>4, SettleKeepsAwaited
    <2> QED BY <2>3, <2>4
  <1> QED BY <1>1, <1>2

LEMMA AwaitedKept ==
  ASSUME PublishTypeOK, Awaited, [PublishNext]_publishVars
  PROVE  Awaited'
  <1> USE DEF asking, timing
  <1> DEFINE Same == UNCHANGED <<fetch, via, armed, expired, unsent, manifestEntry>> /\ mail' \subseteq mail
  <1>a. ASSUME Same PROVE Awaited'
    BY <1>a DEF Awaited, Timed, Joined, EntrySent, MailSent
  (* A call that is not waiting for a request that was sent takes a step.  *)
  <1>b. ASSUME NEW f \in Fetches, NEW pc, PromisesSettle({f}, pc), pc \notin {"idle", "session", "asked", "joined"},
               fetch[f] # "asked" \/ f \in expired,
               UNCHANGED <<via, armed, expired, unsent, manifestEntry>>, mail' \subseteq mail
        PROVE  Awaited'
    <2>1. \A h \in Fetches : fetch'[h] = IF h = f THEN pc ELSE fetch[h] BY <1>b DEF PromisesSettle
    <2>2. Timed' BY <1>b, <2>1 DEF Awaited, Timed
    <2>3. Joined' BY <1>b, <2>1 DEF Awaited, Joined, PublishTypeOK
    <2>4. EntrySent' BY <1>b, <2>1 DEF Awaited, EntrySent, PublishTypeOK
    <2>5. MailSent'
      <3> SUFFICES ASSUME NEW m \in mail, m.item = Manifest PROVE fetch'[m.by] \notin {"idle", "session"}
        BY <1>b DEF MailSent
      <3>1. m.by \in Fetches BY DEF PublishTypeOK, Mail
      <3> QED BY <1>b, <2>1, <3>1 DEF Awaited, MailSent
    <2> QED BY <2>2, <2>3, <2>4, <2>5 DEF Awaited
  <1>1. ASSUME UNCHANGED publishVars PROVE Same BY <1>1 DEF publishVars
  <1>2. ASSUME (\E i \in Items : Publish(i)) \/ Move PROVE Same BY <1>2 DEF Publish, Move
  <1>3. ASSUME NEW m \in mail, ChunkArrives(m) \/ Lose(m) PROVE Same BY <1>3 DEF ChunkArrives, Lose
  <1>4. ASSUME NEW f \in Fetches, NEW c \in Chunks, ChunkTimesOut(f, c) PROVE Same BY <1>4 DEF ChunkTimesOut
  <1>5. ASSUME SessionFound PROVE Awaited'
    <2>1. PICK s \in atPeer : SendAll(InLookup, lookingUp, s, fetch, chunk) BY <1>5 DEF SessionFound
    <2>2. s \in Peers /\ InLookup \in SUBSET Requests /\ lookingUp \in Requests
      BY <1>5 DEF SessionFound, PublishTypeOK, InLookup
    <2>3. Sends(InLookup, lookingUp, s) BY <2>1, <2>2, SendAllSends
    <2>4. \A f \in Fetches : <<f, Manifest>> \in InLookup => f \in armed \cup expired
      BY DEF InLookup, At, Awaited, Timed
    <2>5. UNCHANGED <<via, armed, expired, unsent>> BY <1>5 DEF SessionFound
    <2> QED BY <2>3, <2>4, <2>5, SendsKeepsAwaited
  <1>6. ASSUME SessionNotFound PROVE Awaited'
    <2> DEFINE F == {r[1] : r \in {r \in InLookup : r[2] = Manifest}}
    <2>1. PromisesSettle(F, "failed") /\ UNCHANGED <<manifestEntry, armed, expired, unsent, via, mail>> BY <1>6 DEF SessionNotFound
    <2>2. \A f \in F : f \in Fetches /\ fetch[f] = "session" BY DEF InLookup, At, Requests
    <2> HIDE DEF F
    <2>3. \A f \in Fetches : fetch'[f] = IF f \in F THEN "failed" ELSE fetch[f] BY <2>1 DEF PromisesSettle
    <2>4. Timed' BY <2>1, <2>3 DEF Awaited, Timed
    <2>5. Joined' BY <2>1, <2>2, <2>3 DEF Awaited, Joined, PublishTypeOK
    <2>6. EntrySent' BY <2>1, <2>2, <2>3 DEF Awaited, EntrySent, PublishTypeOK
    <2>7. MailSent'
      <3> SUFFICES ASSUME NEW m \in mail, m.item = Manifest PROVE fetch'[m.by] \notin {"idle", "session"}
        BY <2>1 DEF MailSent
      <3>1. m.by \in Fetches BY DEF PublishTypeOK, Mail
      <3> QED BY <2>3, <3>1 DEF Awaited, MailSent
    <2> QED BY <2>4, <2>5, <2>6, <2>7 DEF Awaited
  <1>7. ASSUME Stop PROVE Awaited'
    BY <1>7, EntrySettlesKeepsAwaited DEF Stop
  <1>8. ASSUME Reload PROVE Awaited'
    <2>1. \A f \in Fetches : fetch'[f] \in Over BY <1>8 DEF Reload, UnderWay, Over, PublishTypeOK
    <2>2. manifestEntry' = Nobody /\ mail' = {} BY <1>8 DEF Reload
    <2> QED BY <2>1, <2>2 DEF Awaited, Timed, Joined, EntrySent, MailSent, Over
  <1>9. ASSUME NEW f \in Fetches, FetchFile(f) PROVE Awaited'
    <2>0. fetch[f] = "idle" /\ expired' = expired /\ unsent' = unsent BY <1>9 DEF FetchFile
    <2>1. CASE \E pc \in {"ok", "chunks"} :
                 PromisesSettle({f}, pc) /\ UNCHANGED <<manifestEntry, armed, expired, unsent, via, mail>>
      BY <2>0, <2>1, <1>b
    <2>2. CASE /\ manifestEntry # Nobody /\ PromisesSettle({f}, "joined") /\ via' = [via EXCEPT ![f] = manifestEntry]
               /\ UNCHANGED <<manifestEntry, armed, expired, unsent, mail>>
      <3>1. \A h \in Fetches : fetch'[h] = IF h = f THEN "joined" ELSE fetch[h] BY <2>2 DEF PromisesSettle
      <3>2. manifestEntry \in Fetches BY <2>2 DEF PublishTypeOK
      <3>3. \A h \in Fetches : via'[h] = IF h = f THEN manifestEntry ELSE via[h] BY <2>2 DEF PublishTypeOK
      <3>4. Timed' BY <2>2, <3>1 DEF Awaited, Timed
      <3>5. EntrySent' BY <2>0, <2>2, <3>1, <3>2 DEF Awaited, EntrySent
      <3>6. Joined'
        <4> SUFFICES ASSUME NEW h \in Fetches, fetch'[h] = "joined" PROVE via'[h] \in expired' \cup unsent' \/ fetch'[via'[h]] = "asked"
          BY DEF Joined
        <4>1. CASE h = f BY <2>0, <2>2, <3>1, <3>2, <3>3, <4>1 DEF Awaited, EntrySent
        <4>2. CASE h # f BY <2>0, <3>1, <3>3, <4>2 DEF Awaited, Joined, PublishTypeOK
        <4> QED BY <4>1, <4>2
      <3>7. MailSent'
        <4> SUFFICES ASSUME NEW m \in mail, m.item = Manifest PROVE fetch'[m.by] \notin {"idle", "session"}
          BY <2>2 DEF MailSent
        <4>1. m.by \in Fetches BY DEF PublishTypeOK, Mail
        <4> QED BY <3>1, <4>1 DEF Awaited, MailSent
      <3> QED BY <3>4, <3>5, <3>6, <3>7 DEF Awaited
    <2>3. CASE Request(<<f, Manifest>>, fetch, chunk) /\ via' = via /\ armed' = armed \cup {f}
      <3>0. <<f, Manifest>> \in Requests BY DEF Requests, Items
      <3>1. CASE Sends({<<f, Manifest>>}, <<f, Manifest>>, sessionId)
        <4>1. \A h \in Fetches : <<h, Manifest>> \in {<<f, Manifest>>} => h \in armed' BY <2>3
        <4> QED BY <2>0, <2>3, <3>1, <4>1, SendsKeepsAwaited
      <3>2. CASE Waits(<<f, Manifest>>)
        <4>0. UNCHANGED <<mail, manifestEntry>> BY <3>2 DEF Waits
        <4>1. \A h \in Fetches : fetch'[h] = IF h = f THEN "session" ELSE fetch[h] BY <3>2 DEF Waits
        <4>2. Timed' BY <2>0, <2>3, <4>1 DEF Awaited, Timed
        <4>3. Joined' BY <2>0, <2>3, <4>1 DEF Awaited, Joined, PublishTypeOK
        <4>4. EntrySent' BY <2>0, <4>0, <4>1 DEF Awaited, EntrySent, PublishTypeOK
        <4>5. MailSent'
          <5> SUFFICES ASSUME NEW m \in mail, m.item = Manifest PROVE fetch'[m.by] \notin {"idle", "session"}
            BY <4>0 DEF MailSent
          <5>1. m.by \in Fetches /\ m.by # f BY <2>0 DEF PublishTypeOK, Mail, Awaited, MailSent
          <5> QED BY <4>1, <5>1 DEF Awaited, MailSent
        <4> QED BY <4>2, <4>3, <4>4, <4>5 DEF Awaited
      <3> QED BY <2>3, <3>0, <3>1, <3>2, RequestMoves
    <2> QED BY <1>9, <2>1, <2>2, <2>3 DEF FetchFile
  <1>10. ASSUME NEW f \in Fetches, NEW c \in Chunks, RequestChunk(f, c) PROVE Awaited'
    <2>1. UNCHANGED <<via, armed, expired, unsent>> BY <1>10 DEF RequestChunk
    <2>2. CASE UNCHANGED <<fetch, manifestEntry, mail>> BY <1>a, <2>1, <2>2
    <2>3. CASE Request(<<f, c>>, fetch, chunk)
      <3>0. <<f, c>> \in Requests BY DEF Requests, Items
      <3>1. c # Manifest BY PublishAssumption
      <3>2. CASE Sends({<<f, c>>}, <<f, c>>, sessionId)
        <4>1. \A h \in Fetches : <<h, Manifest>> \in {<<f, c>>} => h \in armed' \cup expired BY <3>1
        <4> QED BY <2>1, <3>2, <4>1, SendsKeepsAwaited
      <3>3. CASE Waits(<<f, c>>)
        <4>0. UNCHANGED <<mail, manifestEntry>> BY <3>3 DEF Waits
        <4>1. \A h \in Fetches : fetch'[h] = fetch[h] BY <3>1, <3>3 DEF Waits
        <4>2. Timed' BY <2>1, <4>1 DEF Awaited, Timed
        <4>3. Joined' BY <2>1, <4>1 DEF Awaited, Joined, PublishTypeOK
        <4>4. EntrySent' BY <2>1, <4>0, <4>1 DEF Awaited, EntrySent, PublishTypeOK
        <4>5. MailSent'
          <5> SUFFICES ASSUME NEW m \in mail, m.item = Manifest PROVE fetch'[m.by] \notin {"idle", "session"}
            BY <4>0 DEF MailSent
          <5>1. m.by \in Fetches BY DEF PublishTypeOK, Mail
          <5> QED BY <4>1, <5>1 DEF Awaited, MailSent
        <4> QED BY <4>2, <4>3, <4>4, <4>5 DEF Awaited
      <3> QED BY <2>3, <3>0, <3>2, <3>3, RequestMoves
    <2> QED BY <1>10, <2>2, <2>3 DEF RequestChunk
  <1>11. ASSUME NEW f \in Fetches, FetchEnds(f) PROVE Awaited'
    <2>1. \E pc \in {"ok", "failed"} : PromisesSettle({f}, pc) BY <1>11 DEF FetchEnds
    <2>2. fetch[f] = "chunks" /\ UNCHANGED <<via, armed, expired, unsent, manifestEntry, mail>> BY <1>11 DEF FetchEnds
    <2> QED BY <1>b, <2>1, <2>2
  <1>12. ASSUME NEW f \in Fetches, Expires(f) PROVE Awaited'
    <2>1. PromisesSettle({f}, "failed") /\ UNCHANGED <<via, armed, expired, unsent, manifestEntry, mail>> BY <1>12 DEF Expires
    <2>2. fetch[f] # "asked" \/ f \in expired BY <1>12 DEF Expires
    <2> QED BY <1>b, <2>1, <2>2
  <1>13. ASSUME NEW m \in mail, Answer(m) PROVE Awaited'
    <2>1. UNCHANGED <<fetch, via, armed, expired, unsent, manifestEntry>> BY <1>13 DEF Answer
    <2>2. PICK k \in {"have", "missing"} : mail' = (mail \ {m}) \cup {[m EXCEPT !.kind = k]} BY <1>13 DEF Answer
    <2>3. m \in Mail BY DEF PublishTypeOK
    <2>4. [m EXCEPT !.kind = k].by = m.by /\ [m EXCEPT !.kind = k].item = m.item BY <2>3 DEF Mail
    <2>5. MailSent' BY <2>1, <2>2, <2>4 DEF Awaited, MailSent
    <2> QED BY <2>1, <2>5 DEF Awaited, Timed, Joined, EntrySent
  <1>14. ASSUME NEW m \in mail, ManifestArrives(m) PROVE Awaited'
    <2>1. /\ via' = via /\ mail' \subseteq mail /\ \E pc \in {"chunks", "failed"} : EntrySettles(pc)
      BY <1>14 DEF ManifestArrives
    <2> QED BY <2>1, EntrySettlesKeepsAwaited
  <1>15. ASSUME NEW m \in mail, SendFails(m) PROVE Awaited'
    <2>1. CASE m.item = Manifest
      <3>1. m.by \in Fetches /\ fetch[m.by] # "session" BY <2>1 DEF PublishTypeOK, Mail, Awaited, MailSent
      <3>2. /\ manifestEntry' = Nobody /\ armed' = armed \ {m.by} /\ expired' = expired /\ via' = via
            /\ mail' \subseteq mail
        BY <1>15, <2>1 DEF SendFails
      <3>3. CASE fetch[m.by] = "asked"
        <4>1. PromisesSettle({m.by}, "failed") /\ unsent' = unsent \cup {m.by} BY <1>15, <2>1, <3>3 DEF SendFails
        <4> QED BY <3>1, <3>2, <4>1, SettleKeepsAwaited
      <3>4. CASE fetch[m.by] # "asked"
        <4>1. UNCHANGED <<fetch, unsent>> BY <1>15, <2>1, <3>4 DEF SendFails
        <4>2. PromisesSettle({}, "failed") BY <4>1 DEF PromisesSettle, PublishTypeOK
        <4> QED BY <3>1, <3>2, <3>4, <4>1, <4>2, SettleKeepsAwaited
      <3> QED BY <3>3, <3>4
    <2>2. CASE m.item # Manifest
      <3>1. Same BY <1>15, <2>2 DEF SendFails
      <3> QED BY <1>a, <3>1
    <2> QED BY <2>1, <2>2
  <1>16. ASSUME NEW f \in Fetches, ManifestTimesOut(f) PROVE Awaited'
    <2>1. /\ armed' = armed \ {f} /\ manifestEntry' = Nobody /\ UNCHANGED <<via, mail, unsent>>
          /\ expired' = IF fetch[f] = "session" THEN expired \cup {f} ELSE expired
          /\ PromisesSettle(IF fetch[f] = "asked" THEN Promised(f) ELSE {}, "failed")
      BY <1>16 DEF ManifestTimesOut
    <2>2. CASE fetch[f] = "asked"
      <3>1. PromisesSettle(Promised(f), "failed") /\ expired' = expired BY <2>1, <2>2
      <3> QED BY <2>1, <3>1, SettleKeepsAwaited
    <2>3. CASE fetch[f] = "session"
      <3>1. PromisesSettle({}, "failed") /\ expired' = expired \cup {f} BY <2>1, <2>3
      <3> QED BY <2>1, <3>1, SettleKeepsAwaited
    <2>4. CASE fetch[f] \notin {"asked", "session"}
      <3>1. PromisesSettle({}, "failed") /\ expired' = expired BY <2>1, <2>4
      <3> QED BY <2>1, <2>4, <3>1, SettleKeepsAwaited
    <2> QED BY <2>2, <2>3, <2>4
  <1> HIDE DEF Same
  <1> QED
    BY <1>a, <1>1, <1>2, <1>3, <1>4, <1>5, <1>6, <1>7, <1>8, <1>9, <1>10, <1>11, <1>12, <1>13, <1>14, <1>15, <1>16
    DEF PublishNext

(***************************************************************************)
(* What is stored when.  A fetch that has not begun left nothing behind;   *)
(* the publisher stores the manifest last, and a chunk is asked for only   *)
(* once the manifest is here, so every request for a chunk is answered     *)
(* with it; and a chunk that a fetch counts as done is stored.             *)
(***************************************************************************)
NotBegun == \A f \in Fetches : fetch[f] = "idle" =>
  f \notin expired /\ (\A c \in Chunks : chunk[f][c] = "todo") /\ (\A m \in mail : m.by # f)
ManifestLast == (Manifest \in published => Chunks \subseteq published) /\ stored \subseteq published
Answered == \A m \in mail : /\ m.kind = "have" => m.item \in published
                            /\ m.item # Manifest => Manifest \in stored /\ m.kind # "missing"
ManifestFirst == /\ \A f \in Fetches : fetch[f] = "chunks" => Manifest \in stored
                 /\ \A f \in Fetches, c \in Chunks : chunk[f][c] # "todo" => Manifest \in stored
DoneIsStored == /\ \A f \in Fetches, c \in Chunks : chunk[f][c] = "done" => c \in stored
                /\ \A c \in Chunks : chunkEntry[c] = "settled" => c \in stored
EntriesRun == \A c \in Chunks : chunkEntry[c] \in Fetches => chunk[chunkEntry[c]][c] \in {"session", "asked"}
Supplied == NotBegun /\ ManifestLast /\ Answered /\ ManifestFirst /\ DoneIsStored /\ EntriesRun

(* What a step may change, so that all of this stays.                      *)
FetchesGoOn ==
  \A f \in Fetches : /\ fetch'[f] = "idle" => fetch[f] = "idle" /\ (f \in expired' => f \in expired)
                     /\ fetch'[f] = "chunks" => fetch[f] = "chunks" \/ Manifest \in stored'
ChunksGoOn ==
  /\ \A f \in Fetches, c \in Chunks : chunk'[f][c] # chunk[f][c] =>
       /\ chunk[f][c] # "todo" \/ (fetch[f] = "chunks" /\ fetch'[f] = "chunks")
       /\ chunk'[f][c] = "done" => c \in stored'
  /\ \A c \in Chunks : chunkEntry'[c] = "settled" => chunkEntry[c] = "settled" \/ c \in stored'
MailGoesOn ==
  \A m \in mail' \ mail : /\ fetch'[m.by] # "idle" /\ (m.kind = "have" => m.item \in published)
                          /\ m.item # Manifest => Manifest \in stored /\ m.kind # "missing"

LEMMA SuppliedKept ==
  ASSUME PublishTypeOK, PublishTypeOK', Supplied, FetchesGoOn, ChunksGoOn, MailGoesOn,
         published \subseteq published', stored \subseteq stored', ManifestLast', EntriesRun'
  PROVE  Supplied'
  <1>1. NotBegun'
    <2> SUFFICES ASSUME NEW f \in Fetches, fetch'[f] = "idle"
                 PROVE  f \notin expired' /\ (\A c \in Chunks : chunk'[f][c] = "todo") /\ (\A m \in mail' : m.by # f)
      BY DEF NotBegun
    <2>1. fetch[f] = "idle" /\ f \notin expired' BY DEF FetchesGoOn, Supplied, NotBegun
    <2>2. \A c \in Chunks : chunk'[f][c] = "todo" BY <2>1 DEF ChunksGoOn, Supplied, NotBegun
    <2>3. \A m \in mail' : m.by # f BY <2>1 DEF MailGoesOn, Supplied, NotBegun
    <2> QED BY <2>1, <2>2, <2>3
  <1>2. Answered'
    <2> SUFFICES ASSUME NEW m \in mail'
                 PROVE  /\ m.kind = "have" => m.item \in published'
                        /\ m.item # Manifest => Manifest \in stored' /\ m.kind # "missing"
      BY DEF Answered
    <2>1. CASE m \in mail BY <2>1 DEF Supplied, Answered
    <2>2. CASE m \notin mail BY <2>2 DEF MailGoesOn
    <2> QED BY <2>1, <2>2
  <1>3. \A f \in Fetches : fetch'[f] = "chunks" => Manifest \in stored' BY DEF Supplied, ManifestFirst, FetchesGoOn
  <1>4. \A f \in Fetches, c \in Chunks : chunk'[f][c] # "todo" => Manifest \in stored'
    BY DEF Supplied, ManifestFirst, ChunksGoOn
  <1>5. \A f \in Fetches, c \in Chunks : chunk'[f][c] = "done" => c \in stored' BY DEF Supplied, DoneIsStored, ChunksGoOn
  <1>6. \A c \in Chunks : chunkEntry'[c] = "settled" => c \in stored' BY DEF Supplied, DoneIsStored, ChunksGoOn
  <1> QED BY <1>1, <1>2, <1>3, <1>4, <1>5, <1>6 DEF Supplied, ManifestFirst, DoneIsStored

LEMMA EntrySettlesMeans ==
  ASSUME PublishTypeOK, Awaited, NEW pc \in {"chunks", "failed"}, EntrySettles(pc)
  PROVE  /\ \A f \in Fetches : \/ fetch'[f] = fetch[f]
                               \/ fetch[f] \in {"asked", "joined"} /\ fetch'[f] = pc
         /\ \A f \in Fetches : f = manifestEntry /\ f \notin expired => fetch'[f] = pc
         /\ manifestEntry' = Nobody /\ expired' = expired /\ armed' \subseteq armed
  <1>1. CASE manifestEntry = Nobody
    <2>1. UNCHANGED <<manifestEntry, armed, expired, unsent, fetch>> BY <1>1 DEF EntrySettles, timing
    <2> QED BY <1>1, <2>1, PublishAssumption
  <1>2. CASE manifestEntry # Nobody
    <2> DEFINE F == IF manifestEntry \in expired THEN {} ELSE Promised(manifestEntry)
    <2>1. manifestEntry' = Nobody /\ expired' = expired /\ armed' \subseteq armed /\ PromisesSettle(F, pc)
      BY <1>2 DEF EntrySettles, StopTimer
    <2>2. \A f \in F : f \in Fetches /\ fetch[f] \in {"asked", "joined"}
      BY <1>2 DEF Awaited, EntrySent, Promised, PublishTypeOK
    <2>3. manifestEntry \notin expired => manifestEntry \in F BY DEF Promised
    <2> HIDE DEF F
    <2>4. \A f \in Fetches : fetch'[f] = IF f \in F THEN pc ELSE fetch[f] BY <2>1 DEF PromisesSettle
    <2> QED BY <2>1, <2>2, <2>3, <2>4
  <1> QED BY <1>1, <1>2

LEMMA ChunkEndsMeans ==
  ASSUME PublishTypeOK, NEW G \in SUBSET Fetches, NEW c \in Chunks, NEW how, ChunkEnds(G, c, how)
  PROVE  /\ \A f \in Fetches, d \in Chunks :
              chunk'[f][d] = IF d = c /\ (f \in G \/ chunk[f][c] = "joined") THEN how ELSE chunk[f][d]
         /\ \A d \in Chunks : d # c => chunkEntry'[d] = chunkEntry[d]
         /\ chunkEntry'[c] = IF how = "done" /\ chunkEntry[c] # Nobody THEN "settled" ELSE Nobody
  <1> DEFINE F == G \cup {f \in Fetches : chunk[f][c] = "joined"}
  <1>1. chunk' = [f \in Fetches |-> IF f \in F THEN [chunk[f] EXCEPT ![c] = how] ELSE chunk[f]] BY DEF ChunkEnds
  <1>2. \A f \in Fetches : f \in F <=> f \in G \/ chunk[f][c] = "joined" OBVIOUS
  <1>3. \A f \in Fetches : chunk[f] \in [Chunks -> ChunkSteps] BY DEF PublishTypeOK, ChunkSteps
  <1> HIDE DEF F
  <1>4. \A f \in Fetches, d \in Chunks : chunk'[f][d] = IF d = c /\ f \in F THEN how ELSE chunk[f][d]
    <2> SUFFICES ASSUME NEW f \in Fetches, NEW d \in Chunks
                 PROVE  chunk'[f][d] = IF d = c /\ f \in F THEN how ELSE chunk[f][d]
      OBVIOUS
    <2>1. chunk'[f] = IF f \in F THEN [chunk[f] EXCEPT ![c] = how] ELSE chunk[f] BY <1>1
    <2>2. [chunk[f] EXCEPT ![c] = how][d] = IF d = c THEN how ELSE chunk[f][d] BY <1>3
    <2> QED BY <2>1, <2>2
  <1>5. chunkEntry' = [chunkEntry EXCEPT ![c] = IF how = "done" /\ @ # Nobody THEN "settled" ELSE Nobody] BY DEF ChunkEnds
  <1>6. chunkEntry \in [Chunks -> Fetches \cup {Nobody, "settled"}] BY DEF PublishTypeOK
  <1>7. /\ \A d \in Chunks : d # c => chunkEntry'[d] = chunkEntry[d]
        /\ chunkEntry'[c] = IF how = "done" /\ chunkEntry[c] # Nobody THEN "settled" ELSE Nobody
    BY <1>5, <1>6
  <1> QED BY <1>2, <1>4, <1>7

(* The steps that send requests, or look for the session they go to.       *)
LEMMA SendingKeepsSupplied ==
  ASSUME PublishTypeOK, PublishTypeOK', Supplied, NEW R \in SUBSET Requests, NEW r, NEW s, Sends(R, r, s),
         UNCHANGED <<published, stored, expired, unsent>>, EntriesRun',
         \A c \in Chunks : chunkEntry'[c] = "settled" => chunkEntry[c] = "settled",
         \A f \in Fetches, c \in Chunks : <<f, c>> \in R => chunk[f][c] # "todo" \/ fetch[f] = "chunks",
         \A f \in Fetches, c \in Chunks : <<f, c>> \in R => <<f, Manifest>> \notin R \/ chunk[f][c] # "todo"
  PROVE  Supplied'
  <1>1. \A f \in Fetches : fetch'[f] = IF <<f, Manifest>> \in R THEN "asked" ELSE fetch[f]
    BY DEF Sends, SendsForManifest
  <1>2. FetchesGoOn BY <1>1 DEF FetchesGoOn
  <1>3. ChunksGoOn
    <2>1. \A f \in Fetches, c \in Chunks : chunk'[f][c] = IF <<f, c>> \in R THEN "asked" ELSE chunk[f][c] BY DEF Sends
    <2> QED BY <1>1, <2>1 DEF ChunksGoOn
  <1>4. MailGoesOn
    <2> SUFFICES ASSUME NEW m \in mail' \ mail
                 PROVE  /\ fetch'[m.by] # "idle" /\ (m.kind = "have" => m.item \in published)
                        /\ m.item # Manifest => Manifest \in stored /\ m.kind # "missing"
      BY DEF MailGoesOn
    <2>1. m.kind = "ask" /\ m.by \in Fetches /\ <<m.by, m.item>> \in R BY DEF Sends, SendsMail
    <2>2. CASE m.item = Manifest BY <1>1, <2>1, <2>2
    <2>3. CASE m.item # Manifest
      <3>1. m.item \in Chunks BY <2>1, <2>3, RequestParts
      <3>2. chunk[m.by][m.item] # "todo" \/ fetch[m.by] = "chunks" BY <2>1, <3>1
      <3>3. fetch[m.by] # "idle" BY <2>1, <3>1, <3>2 DEF Supplied, NotBegun
      <3>4. Manifest \in stored BY <2>1, <3>1, <3>2 DEF Supplied, ManifestFirst
      <3> QED BY <1>1, <2>1, <3>3, <3>4
    <2> QED BY <2>2, <2>3
  <1>5. ManifestLast' BY DEF Supplied, ManifestLast
  <1> QED BY <1>2, <1>3, <1>4, <1>5, SuppliedKept

LEMMA WaitingKeepsSupplied ==
  ASSUME PublishTypeOK, PublishTypeOK', Supplied, NEW r \in Requests, Waits(r),
         UNCHANGED <<published, stored, expired, unsent>>, EntriesRun',
         \A c \in Chunks : chunkEntry'[c] = "settled" => chunkEntry[c] = "settled",
         \A f \in Fetches, c \in Chunks : <<f, c>> = r => fetch[f] = "chunks"
  PROVE  Supplied'
  <1>1. \A f \in Fetches : fetch'[f] = IF <<f, Manifest>> = r THEN "session" ELSE fetch[f] BY DEF Waits
  <1>2. FetchesGoOn BY <1>1 DEF FetchesGoOn
  <1>3. ChunksGoOn
    <2>1. \A f \in Fetches, c \in Chunks : chunk'[f][c] = IF <<f, c>> = r THEN "session" ELSE chunk[f][c] BY DEF Waits
    <2>2. \A f \in Fetches, c \in Chunks : <<f, c>> = r => <<f, Manifest>> # r BY PublishAssumption
    <2> QED BY <1>1, <2>1, <2>2 DEF ChunksGoOn
  <1>4. mail' = mail BY DEF Waits
  <1>5. MailGoesOn BY <1>4 DEF MailGoesOn
  <1>6. ManifestLast' BY DEF Supplied, ManifestLast
  <1> QED BY <1>2, <1>3, <1>5, <1>6, SuppliedKept

LEMMA LookupKeepsSupplied ==
  ASSUME PublishTypeOK, PublishTypeOK', Supplied, SessionFound
  PROVE  Supplied'
  <1>1. PICK s \in atPeer : SendAll(InLookup, lookingUp, s, fetch, chunk) BY DEF SessionFound
  <1>2. s \in Peers /\ InLookup \in SUBSET Requests /\ lookingUp \in Requests
    BY DEF SessionFound, PublishTypeOK, InLookup
  <1>3. Sends(InLookup, lookingUp, s) BY <1>1, <1>2, SendAllSends
  <1>4. UNCHANGED <<published, stored, expired, unsent, chunkEntry>> BY DEF SessionFound, timing
  <1>5. \A f \in Fetches, c \in Chunks : <<f, c>> \in InLookup => chunk[f][c] = "session"
    BY PublishAssumption DEF InLookup, At
  <1>6. EntriesRun'
    <2> SUFFICES ASSUME NEW c \in Chunks, chunkEntry[c] \in Fetches PROVE chunk'[chunkEntry[c]][c] \in {"session", "asked"}
      BY <1>4 DEF EntriesRun
    <2>1. chunk[chunkEntry[c]][c] \in {"session", "asked"} BY DEF Supplied, EntriesRun
    <2> QED BY <1>3, <2>1 DEF Sends
  <1>7. \A f \in Fetches, c \in Chunks : <<f, c>> \in InLookup => chunk[f][c] # "todo" BY <1>5
  <1> QED BY <1>2, <1>3, <1>4, <1>6, <1>7, SendingKeepsSupplied

LEMMA NoSessionKeepsSupplied ==
  ASSUME PublishTypeOK, PublishTypeOK', Supplied, SessionNotFound
  PROVE  Supplied'
  <1> DEFINE F == {r[1] : r \in {r \in InLookup : r[2] = Manifest}}
             lost(c) == \E f \in Fetches : chunk[f][c] = "session"
  <1>1. UNCHANGED <<published, stored, expired, unsent, mail>> /\ PromisesSettle(F, "failed") BY DEF SessionNotFound, timing
  <1>2. /\ \A f \in Fetches, c \in Chunks : chunk'[f][c] =
              IF lost(c) /\ chunk[f][c] \in {"session", "joined"} THEN "bad" ELSE chunk[f][c]
        /\ \A c \in Chunks : chunkEntry'[c] = IF lost(c) THEN Nobody ELSE chunkEntry[c]
    BY DEF SessionNotFound
  <1> HIDE DEF F, lost
  <1>3. FetchesGoOn BY <1>1 DEF FetchesGoOn, PromisesSettle
  <1>4. ChunksGoOn
    <2>1. \A f \in Fetches, c \in Chunks : chunk'[f][c] # chunk[f][c] => chunk[f][c] # "todo" /\ chunk'[f][c] = "bad"
      BY <1>2
    <2>2. \A c \in Chunks : chunkEntry'[c] = "settled" => chunkEntry[c] = "settled" BY <1>2, PublishAssumption
    <2> QED BY <2>1, <2>2 DEF ChunksGoOn
  <1>5. MailGoesOn BY <1>1 DEF MailGoesOn
  <1>6. ManifestLast' BY <1>1 DEF Supplied, ManifestLast
  <1>7. EntriesRun'
    <2> SUFFICES ASSUME NEW c \in Chunks, chunkEntry'[c] \in Fetches
                 PROVE  chunk'[chunkEntry'[c]][c] \in {"session", "asked"}
      BY DEF EntriesRun
    <2>1. ~lost(c) /\ chunkEntry'[c] = chunkEntry[c] BY <1>2, PublishAssumption
    <2>2. chunk[chunkEntry[c]][c] \in {"session", "asked"} BY <2>1 DEF Supplied, EntriesRun
    <2> QED BY <1>2, <2>1, <2>2
  <1> QED BY <1>1, <1>3, <1>4, <1>5, <1>6, <1>7, SuppliedKept

LEMMA FetchFileKeepsSupplied ==
  ASSUME PublishTypeOK, PublishTypeOK', Supplied, NEW f \in Fetches, FetchFile(f)
  PROVE  Supplied'
  <1>1. UNCHANGED <<published, stored, expired, unsent, chunkEntry>> /\ fetch[f] = "idle" BY DEF FetchFile, timing
  <1>2. CASE \E pc \in {"ok", "chunks", "joined"} :
               PromisesSettle({f}, pc) /\ (pc = "chunks" => Manifest \in stored) /\ UNCHANGED <<chunk, mail>>
    <2>1. PICK pc \in {"ok", "chunks", "joined"} :
                PromisesSettle({f}, pc) /\ (pc = "chunks" => Manifest \in stored)
      BY <1>2
    <2>2. FetchesGoOn BY <1>1, <2>1 DEF FetchesGoOn, PromisesSettle
    <2>3. ChunksGoOn BY <1>1, <1>2 DEF ChunksGoOn
    <2>4. MailGoesOn BY <1>2 DEF MailGoesOn
    <2>5. ManifestLast' /\ EntriesRun' BY <1>1, <1>2 DEF Supplied, ManifestLast, EntriesRun
    <2> QED BY <1>1, <2>2, <2>3, <2>4, <2>5, SuppliedKept
  <1>3. CASE Request(<<f, Manifest>>, fetch, chunk)
    <2>0. <<f, Manifest>> \in Requests BY DEF Requests, Items
    <2>1. \A h \in Fetches, c \in Chunks : <<h, c>> # <<f, Manifest>> BY PublishAssumption
    <2>2. CASE Sends({<<f, Manifest>>}, <<f, Manifest>>, sessionId)
      <3>1. \A h \in Fetches, c \in Chunks : chunk'[h][c] = chunk[h][c] BY <2>1, <2>2 DEF Sends
      <3>2. EntriesRun' BY <1>1, <3>1 DEF Supplied, EntriesRun
      <3>3. \A h \in Fetches, c \in Chunks : <<h, c>> \notin {<<f, Manifest>>} BY <2>1
      <3>4. {<<f, Manifest>>} \in SUBSET Requests BY <2>0
      <3> QED BY <1>1, <2>2, <3>2, <3>3, <3>4, SendingKeepsSupplied
    <2>3. CASE Waits(<<f, Manifest>>)
      <3>1. \A h \in Fetches, c \in Chunks : chunk'[h][c] = chunk[h][c] BY <2>1, <2>3 DEF Waits
      <3>2. EntriesRun' BY <1>1, <3>1 DEF Supplied, EntriesRun
      <3> QED BY <1>1, <2>0, <2>1, <2>3, <3>2, WaitingKeepsSupplied
    <2> QED BY <1>3, <2>0, <2>2, <2>3, RequestMoves
  <1> QED BY <1>2, <1>3 DEF FetchFile

LEMMA RequestKeepsSupplied ==
  ASSUME PublishTypeOK, PublishTypeOK', Supplied, NEW f \in Fetches, NEW c \in Chunks, RequestChunk(f, c)
  PROVE  Supplied'
  <1>1. UNCHANGED <<published, stored, expired, unsent>> /\ fetch[f] = "chunks" /\ chunk[f][c] = "todo"
    BY DEF RequestChunk, timing
  <1>2. ManifestLast' BY <1>1 DEF Supplied, ManifestLast
  <1>3. CASE \E how \in {"done", "joined"} :
               /\ chunk' = [chunk EXCEPT ![f][c] = how] /\ (how = "done" => c \in stored)
               /\ UNCHANGED <<fetch, chunkEntry, mail>>
    <2>1. PICK how \in {"done", "joined"} : chunk' = [chunk EXCEPT ![f][c] = how] /\ (how = "done" => c \in stored)
      BY <1>3
    <2>2. \A h \in Fetches, d \in Chunks : chunk'[h][d] = IF h = f /\ d = c THEN how ELSE chunk[h][d]
      BY <2>1 DEF PublishTypeOK
    <2>3. FetchesGoOn BY <1>1, <1>3 DEF FetchesGoOn
    <2>4. ChunksGoOn BY <1>1, <1>3, <2>1, <2>2 DEF ChunksGoOn
    <2>5. MailGoesOn BY <1>3 DEF MailGoesOn
    <2>6. EntriesRun'
      <3> SUFFICES ASSUME NEW d \in Chunks, chunkEntry[d] \in Fetches PROVE chunk'[chunkEntry[d]][d] \in {"session", "asked"}
        BY <1>3 DEF EntriesRun
      <3>1. chunk[chunkEntry[d]][d] \in {"session", "asked"} BY DEF Supplied, EntriesRun
      <3> QED BY <1>1, <2>2, <3>1
    <2> QED BY <1>1, <1>2, <2>3, <2>4, <2>5, <2>6, SuppliedKept
  <1>4. CASE Request(<<f, c>>, fetch, chunk) /\ chunkEntry' = [chunkEntry EXCEPT ![c] = f]
    <2>0. <<f, c>> \in Requests BY DEF Requests, Items
    <2>1. \A d \in Chunks : chunkEntry'[d] = IF d = c THEN f ELSE chunkEntry[d] BY <1>4 DEF PublishTypeOK
    <2>2. \A d \in Chunks : chunkEntry'[d] = "settled" => chunkEntry[d] = "settled" BY <2>1, PublishAssumption
    <2>3. ASSUME NEW pc \in {"session", "asked"},
                 \A h \in Fetches, d \in Chunks : chunk'[h][d] = IF h = f /\ d = c THEN pc ELSE chunk[h][d]
          PROVE  EntriesRun'
      BY <2>1, <2>3 DEF Supplied, EntriesRun
    <2>4. \A h \in Fetches, d \in Chunks : <<h, d>> = <<f, c>> <=> h = f /\ d = c OBVIOUS
    <2>5. CASE Sends({<<f, c>>}, <<f, c>>, sessionId)
      <3>1. \A h \in Fetches, d \in Chunks : chunk'[h][d] = IF h = f /\ d = c THEN "asked" ELSE chunk[h][d]
        BY <2>4, <2>5 DEF Sends
      <3>2. EntriesRun' BY <2>3, <3>1
      <3>3. \A h \in Fetches, d \in Chunks : <<h, d>> \in {<<f, c>>} =>
              (chunk[h][d] # "todo" \/ fetch[h] = "chunks") /\ (<<h, Manifest>> \notin {<<f, c>>} \/ chunk[h][d] # "todo")
        BY <1>1, <2>4, PublishAssumption
      <3>4. {<<f, c>>} \in SUBSET Requests BY <2>0
      <3> QED BY <1>1, <2>2, <2>5, <3>2, <3>3, <3>4, SendingKeepsSupplied
    <2>6. CASE Waits(<<f, c>>)
      <3>1. \A h \in Fetches, d \in Chunks : chunk'[h][d] = IF h = f /\ d = c THEN "session" ELSE chunk[h][d]
        BY <2>4, <2>6 DEF Waits
      <3>2. EntriesRun' BY <2>3, <3>1
      <3>3. \A h \in Fetches, d \in Chunks : <<h, d>> = <<f, c>> => fetch[h] = "chunks" BY <1>1, <2>4
      <3> QED BY <1>1, <2>0, <2>2, <2>6, <3>2, <3>3, WaitingKeepsSupplied
    <2> QED BY <1>4, <2>0, <2>5, <2>6, RequestMoves
  <1>5. chunkEntry[c] = "settled" => c \in stored BY DEF Supplied, DoneIsStored
  <1> QED BY <1>3, <1>4, <1>5 DEF RequestChunk

(* Requests that end.                                                      *)
LEMMA EndingKeepsSupplied ==
  ASSUME PublishTypeOK, PublishTypeOK', Supplied, NEW c \in Chunks, NEW G \in SUBSET Fetches, NEW how \in {"done", "bad"},
         ChunkEnds(G, c, how), \A f \in G : chunk[f][c] = "asked",
         how = "done" => c \in stored', UNCHANGED <<published, fetch, expired>>, mail' \subseteq mail,
         stored' = stored \/ (c \in published /\ stored' = stored \cup {c})
  PROVE  Supplied'
  <1>1. /\ \A f \in Fetches, d \in Chunks :
             chunk'[f][d] = IF d = c /\ (f \in G \/ chunk[f][c] = "joined") THEN how ELSE chunk[f][d]
        /\ \A d \in Chunks : d # c => chunkEntry'[d] = chunkEntry[d]
        /\ chunkEntry'[c] = IF how = "done" /\ chunkEntry[c] # Nobody THEN "settled" ELSE Nobody
    BY ChunkEndsMeans
  <1>2. FetchesGoOn BY DEF FetchesGoOn
  <1>3. ChunksGoOn BY <1>1, PublishAssumption DEF ChunksGoOn
  <1>4. MailGoesOn BY DEF MailGoesOn
  <1>5. ManifestLast' BY DEF Supplied, ManifestLast
  <1>6. EntriesRun'
    <2> SUFFICES ASSUME NEW d \in Chunks, chunkEntry'[d] \in Fetches PROVE chunk'[chunkEntry'[d]][d] \in {"session", "asked"}
      BY DEF EntriesRun
    <2>1. d # c /\ chunkEntry'[d] = chunkEntry[d] BY <1>1, PublishAssumption
    <2>2. chunk[chunkEntry[d]][d] \in {"session", "asked"} BY <2>1 DEF Supplied, EntriesRun
    <2> QED BY <1>1, <2>1, <2>2
  <1> QED BY <1>2, <1>3, <1>4, <1>5, <1>6, SuppliedKept

(* The answers.                                                            *)
LEMMA AnswerKeepsSupplied ==
  ASSUME PublishTypeOK, PublishTypeOK', Supplied, NEW m \in mail, Answer(m)
  PROVE  Supplied'
  <1>1. UNCHANGED <<published, stored, expired, unsent, fetch, chunk, chunkEntry>> BY DEF Answer, asking, timing
  <1>2. PICK k \in {"have", "missing"} :
          /\ mail' = (mail \ {m}) \cup {[m EXCEPT !.kind = k]}
          /\ k = IF m.item \in published THEN "have" ELSE "missing"
    BY DEF Answer
  <1>3. m \in Mail /\ m.by \in Fetches /\ m.item \in Items BY DEF PublishTypeOK, Mail
  <1>4. [m EXCEPT !.kind = k].by = m.by /\ [m EXCEPT !.kind = k].item = m.item /\ [m EXCEPT !.kind = k].kind = k
    BY <1>3 DEF Mail
  <1>5. MailGoesOn
    <2>1. fetch[m.by] # "idle" BY <1>3 DEF Supplied, NotBegun
    <2>2. m.item # Manifest => Manifest \in stored BY DEF Supplied, Answered
    <2>3. m.item # Manifest => m.item \in published BY <1>3, <2>2 DEF Supplied, ManifestLast, Items
    <2>4. m.item # Manifest => k = "have" BY <1>2, <2>3
    <2> QED BY <1>1, <1>2, <1>4, <2>1, <2>2, <2>4 DEF MailGoesOn
  <1>6. FetchesGoOn /\ ChunksGoOn BY <1>1 DEF FetchesGoOn, ChunksGoOn
  <1>7. ManifestLast' /\ EntriesRun' BY <1>1 DEF Supplied, ManifestLast, EntriesRun
  <1> QED BY <1>1, <1>5, <1>6, <1>7, SuppliedKept

LEMMA ManifestKeepsSupplied ==
  ASSUME PublishTypeOK, PublishTypeOK', Awaited, Supplied, NEW m \in mail, ManifestArrives(m)
  PROVE  Supplied'
  <1>1. UNCHANGED <<published, chunk, chunkEntry>> /\ mail' \subseteq mail BY DEF ManifestArrives
  <1>2. PICK pc \in {"chunks", "failed"} :
          /\ EntrySettles(pc)
          /\ \/ m.kind = "have" /\ stored' = stored \cup {Manifest}
             \/ pc = "failed" /\ stored' = stored
    BY DEF ManifestArrives
  <1>3. m.kind = "have" => Manifest \in published BY DEF Supplied, Answered, ManifestArrives
  <1>4. /\ \A f \in Fetches : fetch'[f] = fetch[f] \/ (fetch[f] \in {"asked", "joined"} /\ fetch'[f] = pc)
        /\ expired' = expired
    BY <1>2, EntrySettlesMeans
  <1>5. FetchesGoOn BY <1>2, <1>4 DEF FetchesGoOn
  <1>6. ChunksGoOn /\ EntriesRun' BY <1>1 DEF ChunksGoOn, Supplied, EntriesRun
  <1>7. MailGoesOn BY <1>1 DEF MailGoesOn
  <1>8. ManifestLast' BY <1>1, <1>2, <1>3 DEF Supplied, ManifestLast
  <1> QED BY <1>1, <1>2, <1>5, <1>6, <1>7, <1>8, SuppliedKept

LEMMA ChunkKeepsSupplied ==
  ASSUME PublishTypeOK, PublishTypeOK', Supplied, NEW m \in mail, ChunkArrives(m)
  PROVE  Supplied'
  <1> DEFINE G == {f \in Fetches : m.item \in Chunks /\ chunk[f][m.item] = "asked"}
  <1>1. m.item \in Chunks /\ UNCHANGED <<published, fetch, expired, unsent>> /\ mail' \subseteq mail
    BY DEF ChunkArrives, timing
  <1>2. m.kind = "have" => m.item \in published BY DEF Supplied, Answered
  <1>3. CASE G = {}
    <2>1. UNCHANGED <<stored, chunk, chunkEntry>> BY <1>3 DEF ChunkArrives
    <2>2. FetchesGoOn /\ ChunksGoOn /\ MailGoesOn BY <1>1, <2>1 DEF FetchesGoOn, ChunksGoOn, MailGoesOn
    <2>3. ManifestLast' /\ EntriesRun' BY <1>1, <2>1 DEF Supplied, ManifestLast, EntriesRun
    <2> QED BY <1>1, <2>1, <2>2, <2>3, SuppliedKept
  <1>4. CASE G # {}
    <2>1. PICK how \in {"done", "bad"} :
            /\ ChunkEnds(G, m.item, how) /\ how = IF m.kind = "have" THEN "done" ELSE "bad"
            /\ stored' = IF m.kind = "have" THEN stored \cup {m.item} ELSE stored
      BY <1>4 DEF ChunkArrives
    <2>2. G \in SUBSET Fetches /\ \A f \in G : chunk[f][m.item] = "asked" OBVIOUS
    <2> HIDE DEF G
    <2> QED BY <1>1, <1>2, <2>1, <2>2, EndingKeepsSupplied
  <1> QED BY <1>3, <1>4

LEMMA FailureKeepsSupplied ==
  ASSUME PublishTypeOK, PublishTypeOK', Supplied, NEW m \in mail, SendFails(m)
  PROVE  Supplied'
  <1>1. UNCHANGED <<published, stored, expired>> /\ mail' \subseteq mail /\ m.by \in Fetches /\ m.item \in Items
    BY DEF SendFails, timing, PublishTypeOK, Mail
  <1>2. CASE UNCHANGED <<chunk, chunkEntry>> /\ (UNCHANGED fetch \/ \E F : PromisesSettle(F, "failed"))
    <2>1. FetchesGoOn BY <1>1, <1>2 DEF FetchesGoOn, PromisesSettle
    <2>2. ChunksGoOn /\ MailGoesOn BY <1>1, <1>2 DEF ChunksGoOn, MailGoesOn
    <2>3. ManifestLast' /\ EntriesRun' BY <1>1, <1>2 DEF Supplied, ManifestLast, EntriesRun
    <2> QED BY <1>1, <2>1, <2>2, <2>3, SuppliedKept
  <1>3. CASE m.item # Manifest /\ chunk[m.by][m.item] = "asked"
    <2>1. ChunkEnds({m.by}, m.item, "bad") /\ fetch' = fetch BY <1>3 DEF SendFails
    <2>2. m.item \in Chunks BY <1>1, <1>3 DEF Items
    <2> QED BY <1>1, <1>3, <2>1, <2>2, EndingKeepsSupplied
  <1>4. m.item = Manifest \/ chunk[m.by][m.item] # "asked" => UNCHANGED <<chunk, chunkEntry>> BY DEF SendFails
  <1>5. UNCHANGED fetch \/ \E F : PromisesSettle(F, "failed") BY DEF SendFails
  <1> QED BY <1>2, <1>3, <1>4, <1>5

LEMMA SuppliedStep ==
  ASSUME PublishTypeOK, Awaited, Supplied, [PublishNext]_publishVars
  PROVE  Supplied'
  <1> USE DEF asking, timing
  <1>0. PublishTypeOK' BY PublishTypes
  (* Steps that change no request for a chunk, and store nothing.          *)
  <1>a. ASSUME UNCHANGED <<published, stored, chunk, chunkEntry>>, FetchesGoOn, mail' \subseteq mail PROVE Supplied'
    <2>1. ChunksGoOn /\ MailGoesOn BY <1>a DEF ChunksGoOn, MailGoesOn
    <2>2. ManifestLast' /\ EntriesRun' BY <1>a DEF Supplied, ManifestLast, EntriesRun
    <2> QED BY <1>0, <1>a, <2>1, <2>2, SuppliedKept
  <1>1. ASSUME UNCHANGED publishVars PROVE Supplied'
    BY <1>a, <1>1 DEF publishVars, FetchesGoOn
  <1>2. ASSUME NEW i \in Items, Publish(i) PROVE Supplied'
    <2>1. ManifestLast' BY <1>2 DEF Publish, Ready, Supplied, ManifestLast
    <2>2. FetchesGoOn /\ ChunksGoOn /\ MailGoesOn BY <1>2 DEF Publish, FetchesGoOn, ChunksGoOn, MailGoesOn
    <2>3. EntriesRun' BY <1>2 DEF Publish, Supplied, EntriesRun
    <2>4. published \subseteq published' /\ stored' = stored BY <1>2 DEF Publish
    <2> QED BY <1>0, <2>1, <2>2, <2>3, <2>4, SuppliedKept
  <1>3. ASSUME Move PROVE Supplied' BY <1>a, <1>3 DEF Move, FetchesGoOn
  <1>4. ASSUME Stop PROVE Supplied'
    <2>1. FetchesGoOn BY <1>4, EntrySettlesMeans DEF Stop, FetchesGoOn
    <2>2. UNCHANGED <<published, stored, chunk, mail>> /\ \A c \in Chunks : chunkEntry'[c] = Nobody BY <1>4 DEF Stop
    <2>3. ChunksGoOn /\ MailGoesOn BY <2>2, PublishAssumption DEF ChunksGoOn, MailGoesOn
    <2>4. ManifestLast' /\ EntriesRun' BY <2>2, PublishAssumption DEF Supplied, ManifestLast, EntriesRun
    <2> QED BY <1>0, <2>1, <2>2, <2>3, <2>4, SuppliedKept
  <1>5. ASSUME Reload PROVE Supplied'
    <2>1. /\ UNCHANGED <<published, stored>> /\ mail' = {} /\ expired' = {}
          /\ \A f \in Fetches, c \in Chunks : chunk'[f][c] = "todo"
          /\ \A c \in Chunks : chunkEntry'[c] = Nobody
      BY <1>5 DEF Reload, NoChunks
    <2>2. \A f \in Fetches : fetch'[f] # "chunks" BY <1>5 DEF Reload, UnderWay, Over
    <2>3. NotBegun' /\ ManifestLast' BY <2>1 DEF NotBegun, Supplied, ManifestLast
    <2>4. Answered' /\ ManifestFirst' BY <2>1, <2>2 DEF Answered, ManifestFirst
    <2>5. DoneIsStored' /\ EntriesRun' BY <2>1, PublishAssumption DEF DoneIsStored, EntriesRun
    <2> QED BY <2>3, <2>4, <2>5 DEF Supplied
  <1>6. ASSUME NEW m \in mail, Lose(m) PROVE Supplied' BY <1>a, <1>6 DEF Lose, FetchesGoOn
  <1>7. ASSUME NEW f \in Fetches, FetchEnds(f) \/ Expires(f) PROVE Supplied'
    <2>1. UNCHANGED <<published, stored, chunk, chunkEntry, mail, expired, unsent>> BY <1>7 DEF FetchEnds, Expires
    <2>2. \E pc \in {"ok", "failed"} : PromisesSettle({f}, pc) BY <1>7 DEF FetchEnds, Expires
    <2>3. FetchesGoOn BY <2>1, <2>2 DEF FetchesGoOn, PromisesSettle
    <2> QED BY <1>a, <2>1, <2>3
  <1>8. ASSUME NEW f \in Fetches, ManifestTimesOut(f) PROVE Supplied'
    <2>1. /\ UNCHANGED <<published, stored, chunk, chunkEntry, mail>>
          /\ expired' = IF fetch[f] = "session" THEN expired \cup {f} ELSE expired
          /\ \E F : PromisesSettle(F, "failed")
      BY <1>8 DEF ManifestTimesOut
    <2>2. FetchesGoOn BY <2>1 DEF FetchesGoOn, PromisesSettle
    <2> QED BY <1>a, <2>1, <2>2
  <1>9. ASSUME NEW f \in Fetches, NEW c \in Chunks, ChunkTimesOut(f, c) PROVE Supplied'
    <2>1. ChunkEnds({f}, c, "bad") /\ chunk[f][c] = "asked" /\ UNCHANGED <<published, stored, fetch, expired, unsent, mail>>
      BY <1>9 DEF ChunkTimesOut
    <2> QED BY <1>0, <2>1, EndingKeepsSupplied
  <1> QED
    BY <1>0, <1>1, <1>2, <1>3, <1>4, <1>5, <1>6, <1>7, <1>8, <1>9, LookupKeepsSupplied, NoSessionKeepsSupplied,
       FetchFileKeepsSupplied, RequestKeepsSupplied, AnswerKeepsSupplied, ManifestKeepsSupplied, ChunkKeepsSupplied,
       FailureKeepsSupplied
    DEF PublishNext

(***************************************************************************)
(* A fetch that is under way, neither disturbed nor sent to a session that *)
(* is gone.  It is alone: the other calls are over, with their timers and  *)
(* their requests, the entry of the manifest is its own, and what it asked *)
(* for is under way, in messages that can be delivered.                    *)
(***************************************************************************)
Undisturbed == UnderWay \ (excused \cup stale)
OthersOver(f) == \A g \in Fetches \ {f} :
  fetch[g] \in Over /\ g \notin armed /\ \A c \in Chunks : chunk[g][c] \notin {"session", "asked", "joined"}
OwnEntry(f) == /\ manifestEntry \in {f, Nobody} /\ f \notin expired /\ fetch[f] # "joined"
               /\ fetch[f] = "asked" => manifestEntry = f /\ Expected(f, Manifest)
OwnChunks(f) == \A c \in Chunks :
  chunk[f][c] \notin {"joined", "bad"} /\ (chunk[f][c] = "asked" => Expected(f, c))
OwnMail(f) == \A m \in mail : m.by = f /\ m.kind = "ask" => m.to \in atPeer
Alone(f) == OthersOver(f) /\ OwnEntry(f) /\ OwnChunks(f) /\ OwnMail(f)
Lone == (\A f \in Undisturbed : Alone(f)) /\ LoneFetchSucceeds

(* The history only grows, and a call that is over stays so.               *)
HistoryGrows == /\ excused \subseteq excused' /\ stale \subseteq stale'
                /\ \A g \in Fetches : fetch[g] \in Over => fetch'[g] = fetch[g]
Spared == Undisturbed \ (excused' \cup stale')

LEMMA LoneKept ==
  ASSUME PublishTypeOK, PublishTypeOK', Lone, HistoryGrows,
         \A f \in Spared : fetch'[f] # "failed" /\ (fetch'[f] \notin Over => Alone(f)')
  PROVE  Lone'
  <1>1. ASSUME NEW g \in Undisturbed' PROVE Alone(g)'
    <2>1. g \in Fetches /\ fetch'[g] \notin Over /\ g \notin excused' /\ g \notin stale' BY DEF Undisturbed, UnderWay
    <2>2. fetch[g] \notin Over BY <2>1 DEF HistoryGrows
    <2>3. g \in Spared BY <2>1, <2>2 DEF Spared, Undisturbed, UnderWay, HistoryGrows
    <2> QED BY <2>1, <2>3
  <1>2. LoneFetchSucceeds'
    <2> SUFFICES ASSUME NEW f \in Fetches, fetch'[f] = "failed" PROVE f \in excused' \cup stale'
      BY DEF LoneFetchSucceeds
    <2>1. CASE fetch[f] \in Over BY <2>1 DEF HistoryGrows, Lone, LoneFetchSucceeds
    <2>2. CASE fetch[f] \notin Over BY <2>2 DEF Spared, Undisturbed, UnderWay, HistoryGrows
    <2> QED BY <2>1, <2>2
  <1> QED BY <1>1, <1>2 DEF Lone

(* A disturbance excuses every call that is under way.                     *)
LEMMA DisturbedKeepsLone ==
  ASSUME PublishTypeOK, PublishTypeOK', Lone, HistoryGrows, Upset \/ Excuse(UnderWay)
  PROVE  Lone'
  <1>1. Spared = {} BY DEF Spared, Undisturbed, Upset, Excuse
  <1> QED BY <1>1, LoneKept

LEMMA SettlingGrows ==
  ASSUME NEW F, NEW pc, PromisesSettle(F, pc), \A f \in F : f \in Fetches => fetch[f] \notin Over,
         excused \subseteq excused', stale \subseteq stale'
  PROVE  HistoryGrows
  BY DEF HistoryGrows, PromisesSettle

(* The steps of a spared call.                                             *)
LEMMA SparedIsAlone ==
  ASSUME PublishTypeOK, Lone, NEW f \in Spared
  PROVE  /\ f \in Fetches /\ fetch[f] \notin Over /\ f \notin excused' /\ f \notin stale' /\ Alone(f)
         /\ f \in Undisturbed
  BY DEF Spared, Undisturbed, UnderWay, Lone

LEMMA LookupKeepsLone ==
  ASSUME PublishTypeOK, PublishTypeOK', Lone, SessionFound
  PROVE  Lone'
  <1>1. PICK s \in atPeer : SendAll(InLookup, lookingUp, s, fetch, chunk) BY DEF SessionFound
  <1>2. s \in Peers /\ InLookup \in SUBSET Requests /\ lookingUp \in Requests
    BY DEF SessionFound, PublishTypeOK, InLookup
  <1>3. Sends(InLookup, lookingUp, s) BY <1>1, <1>2, SendAllSends
  <1>4. UNCHANGED <<atPeer, armed, expired, unsent>> /\ Excuse({r[1] : r \in InLookup \ {lookingUp}})
    BY DEF SessionFound, timing
  <1>5. \A f \in Fetches : fetch'[f] = IF <<f, Manifest>> \in InLookup THEN "asked" ELSE fetch[f]
    BY <1>3 DEF Sends, SendsForManifest
  <1>6. \A f \in Fetches, c \in Chunks : chunk'[f][c] = IF <<f, c>> \in InLookup THEN "asked" ELSE chunk[f][c]
    BY <1>3 DEF Sends
  <1>7. /\ \A f \in Fetches : <<f, Manifest>> \in InLookup => fetch[f] = "session"
        /\ \A f \in Fetches, c \in Chunks : <<f, c>> \in InLookup => chunk[f][c] = "session"
    BY PublishAssumption DEF InLookup, At
  <1>8. HistoryGrows BY <1>3, <1>4, <1>5, <1>7 DEF HistoryGrows, Sends, Excuse, Over
  <1>9. ASSUME NEW f \in Spared PROVE fetch'[f] # "failed" /\ Alone(f)'
    <2>1. f \in Fetches /\ fetch[f] \notin Over /\ f \notin excused' /\ Alone(f) BY SparedIsAlone
    <2>2. \A g \in Fetches \ {f}, i \in Items : <<g, i>> \notin InLookup
      <3>1. ASSUME NEW g \in Fetches \ {f} PROVE <<g, Manifest>> \notin InLookup
        BY <1>7, <2>1 DEF Alone, OthersOver, Over
      <3>2. ASSUME NEW g \in Fetches \ {f}, NEW c \in Chunks PROVE <<g, c>> \notin InLookup
        BY <1>7, <2>1 DEF Alone, OthersOver
      <3> QED BY <3>1, <3>2 DEF Items
    <2>3. \A i \in Items : <<f, i>> \in InLookup => <<f, i>> = lookingUp
      <3> SUFFICES ASSUME NEW i \in Items, <<f, i>> \in InLookup, <<f, i>> # lookingUp PROVE FALSE OBVIOUS
      <3>1. <<f, i>>[1] \in {r[1] : r \in InLookup \ {lookingUp}} OBVIOUS
      <3> QED BY <1>4, <2>1, <3>1 DEF Excuse
    <2>4. OthersOver(f)'
      <3>1. \A g \in Fetches \ {f} : fetch'[g] = fetch[g] BY <1>5, <2>2 DEF Items
      <3>2. \A g \in Fetches \ {f}, c \in Chunks : chunk'[g][c] = chunk[g][c] BY <1>6, <2>2 DEF Items
      <3> QED BY <1>4, <2>1, <3>1, <3>2 DEF Alone, OthersOver
    <2>5. \A i \in Items : Expected(f, i) \/ <<f, i>> \in InLookup => Expected(f, i)'
      BY <1>3 DEF Expected, Sends, SendsMail
    <2>6. OwnEntry(f)'
      <3>1. IF <<f, Manifest>> \in InLookup THEN manifestEntry' = f ELSE manifestEntry' = manifestEntry
        BY <1>3, <2>1, <2>2 DEF Sends, SendsForManifest, Items
      <3> QED BY <1>4, <1>5, <2>1, <2>5, <3>1 DEF Alone, OwnEntry, Items
    <2>7. OwnChunks(f)' BY <1>6, <2>1, <2>5 DEF Alone, OwnChunks, Items
    <2>8. OwnMail(f)'
      <3> SUFFICES ASSUME NEW m \in mail', m.by = f, m.kind = "ask" PROVE m.to \in atPeer
        BY <1>4 DEF OwnMail
      <3>1. CASE m \in mail BY <2>1, <3>1 DEF Alone, OwnMail
      <3>2. CASE m \notin mail
        <4>1. <<f, m.item>> \in InLookup /\ (<<f, m.item>> = lookingUp => m.to = s) BY <1>3, <3>2 DEF Sends, SendsMail
        <4>2. m.item \in Items BY <4>1 DEF InLookup, Requests
        <4> QED BY <2>3, <4>1, <4>2
      <3> QED BY <3>1, <3>2
    <2>9. fetch'[f] # "failed" BY <1>5, <2>1 DEF Over
    <2> QED BY <2>4, <2>6, <2>7, <2>8, <2>9 DEF Alone
  <1> QED BY <1>8, <1>9, LoneKept

LEMMA FetchFileKeepsLone ==
  ASSUME PublishTypeOK, PublishTypeOK', Supplied, Lone, NEW f \in Fetches, FetchFile(f)
  PROVE  Lone'
  <1>1. /\ UNCHANGED <<published, atPeer, expired, unsent>> /\ fetch[f] = "idle" /\ Starts(f)
        /\ armed' = armed \/ armed' = armed \cup {f}
    BY DEF FetchFile, timing
  <1>2. <<f, Manifest>> \in Requests /\ \A g \in Fetches, c \in Chunks : <<g, c>> # <<f, Manifest>>
    BY PublishAssumption DEF Requests, Items
  <1>3. \/ /\ fetch'[f] \in {"ok", "chunks"} \/ (fetch'[f] = "joined" /\ manifestEntry # Nobody)
           /\ \A g \in Fetches \ {f} : fetch'[g] = fetch[g]
           /\ UNCHANGED <<manifestEntry, chunk, mail, stale>>
        \/ sessionId \in Peers /\ Sends({<<f, Manifest>>}, <<f, Manifest>>, sessionId)
        \/ Waits(<<f, Manifest>>)
    <2>1. \A pc : PromisesSettle({f}, pc) => fetch'[f] = pc /\ \A g \in Fetches \ {f} : fetch'[g] = fetch[g]
      BY DEF PromisesSettle
    <2>2. CASE Request(<<f, Manifest>>, fetch, chunk) BY <1>2, <2>2, RequestMoves
    <2> QED BY <2>1, <2>2 DEF FetchFile
  <1>4. \A g \in Fetches \ {f} : fetch'[g] = fetch[g] BY <1>3 DEF Sends, SendsForManifest, Waits
  <1>5. fetch'[f] \in {"ok", "chunks", "session", "asked"} \/ (fetch'[f] = "joined" /\ manifestEntry # Nobody)
    BY <1>3 DEF Sends, SendsForManifest, Waits
  <1>6. stale \subseteq stale' BY <1>3 DEF Sends, Waits
  <1>7. excused \subseteq excused' BY <1>1 DEF Starts, Excuse
  <1>8. LoneFetchSucceeds' BY <1>4, <1>5, <1>6, <1>7 DEF Lone, LoneFetchSucceeds
  <1>9. ASSUME NEW h \in Undisturbed' PROVE Alone(h)'
    <2>1. h \in Fetches /\ fetch'[h] \notin Over /\ h \notin excused' /\ h \notin stale' BY DEF Undisturbed, UnderWay
    <2>2. h \notin UnderWay \cup {f} \/ (UnderWay = {} /\ Pending = {} /\ armed = {} /\ manifestEntry = Nobody)
      <3>1. CASE UnderWay \cup Pending \cup armed = {} /\ manifestEntry = Nobody BY <3>1
      <3>2. CASE ~(UnderWay \cup Pending \cup armed = {} /\ manifestEntry = Nobody)
        <4>1. excused' = excused \cup (UnderWay \cup {f}) BY <1>1, <3>2 DEF Starts, Excuse
        <4> QED BY <2>1, <4>1
      <3> QED BY <3>1, <3>2
    <2>3. h = f BY <1>4, <2>1, <2>2 DEF UnderWay
    <2>4. UnderWay = {} /\ Pending = {} /\ armed = {} /\ manifestEntry = Nobody BY <2>2, <2>3
    <2>5. /\ f \notin expired /\ (\A c \in Chunks : chunk[f][c] = "todo") /\ (\A m \in mail : m.by # f)
      BY <1>1 DEF Supplied, NotBegun
    <2>6. \A g \in Fetches, c \in Chunks : chunk'[g][c] = chunk[g][c] BY <1>2, <1>3 DEF Sends, Waits
    <2>7. OthersOver(f)'
      <3> SUFFICES ASSUME NEW g \in Fetches \ {f}
                   PROVE  fetch'[g] \in Over /\ g \notin armed' /\ \A c \in Chunks : chunk'[g][c] \notin {"session", "asked", "joined"}
        BY DEF OthersOver
      <3>1. fetch'[g] \in Over BY <1>4, <2>4 DEF UnderWay
      <3>2. g \notin armed' BY <1>1, <2>4
      <3>3. Running(g) = {} BY <2>4 DEF Pending
      <3>4. \A c \in Chunks : chunk[g][c] \notin {"session", "asked", "joined"} BY <3>3 DEF Running
      <3> QED BY <2>6, <3>1, <3>2, <3>4
    <2>8. OwnEntry(f)'
      <3>1. manifestEntry' \in {f, Nobody} BY <1>3, <2>4 DEF Sends, SendsForManifest, Waits
      <3>2. fetch'[f] # "joined" /\ f \notin expired' BY <1>1, <1>5, <2>4, <2>5
      <3>3. ASSUME fetch'[f] = "asked" PROVE manifestEntry' = f /\ Expected(f, Manifest)'
        <4>1. Sends({<<f, Manifest>>}, <<f, Manifest>>, sessionId) BY <1>3, <3>3 DEF Waits
        <4>2. manifestEntry' = f BY <4>1 DEF Sends, SendsForManifest
        <4>3. Expected(f, Manifest)' BY <4>1 DEF Sends, SendsMail, Expected
        <4> QED BY <4>2, <4>3
      <3> QED BY <3>1, <3>2, <3>3 DEF OwnEntry
    <2>9. OwnChunks(f)' BY <2>5, <2>6 DEF OwnChunks
    <2>10. OwnMail(f)'
      <3> SUFFICES ASSUME NEW m \in mail', m.by = f, m.kind = "ask" PROVE m.to \in atPeer
        BY <1>1 DEF OwnMail
      <3>1. m \notin mail BY <2>5
      <3>2. Sends({<<f, Manifest>>}, <<f, Manifest>>, sessionId) BY <1>3, <3>1 DEF Waits
      <3>3. m.to = sessionId BY <3>1, <3>2 DEF Sends, SendsMail
      <3>4. sessionId \in atPeer BY <2>1, <2>3, <3>2 DEF Sends
      <3> QED BY <3>3, <3>4
    <2> QED BY <2>3, <2>7, <2>8, <2>9, <2>10 DEF Alone
  <1> QED BY <1>8, <1>9 DEF Lone

LEMMA RequestKeepsLone ==
  ASSUME PublishTypeOK, PublishTypeOK', Supplied, Lone, NEW f \in Fetches, NEW c \in Chunks, RequestChunk(f, c)
  PROVE  Lone'
  <1>1. /\ UNCHANGED <<atPeer, armed, expired, unsent, excused>> /\ fetch[f] = "chunks" /\ chunk[f][c] = "todo"
    BY DEF RequestChunk, timing
  <1>2. <<f, c>> \in Requests /\ \A g \in Fetches : <<g, Manifest>> # <<f, c>>
    BY PublishAssumption DEF Requests, Items
  <1>3. \A g \in Fetches, d \in Chunks : <<g, d>> = <<f, c>> <=> g = f /\ d = c OBVIOUS
  <1>4. PICK pc \in {"done", "joined", "session", "asked"} :
          /\ pc = "joined" => chunkEntry[c] \in Fetches
          /\ \/ pc # "asked" /\ mail' = mail /\ stale' = stale
             \/ pc = "asked" /\ Sends({<<f, c>>}, <<f, c>>, sessionId)
          /\ fetch' = fetch /\ manifestEntry' = manifestEntry
          /\ \A g \in Fetches, d \in Chunks : chunk'[g][d] = IF g = f /\ d = c THEN pc ELSE chunk[g][d]
    <2>1. CASE \E how \in {"done", "joined"} :
                 /\ chunk' = [chunk EXCEPT ![f][c] = how] /\ (how = "joined" => chunkEntry[c] \in Fetches)
                 /\ UNCHANGED <<fetch, manifestEntry, mail, stale>>
      <3>1. PICK how \in {"done", "joined"} : chunk' = [chunk EXCEPT ![f][c] = how]
                                              /\ (how = "joined" => chunkEntry[c] \in Fetches)
        BY <2>1
      <3>2. \A g \in Fetches, d \in Chunks : chunk'[g][d] = IF g = f /\ d = c THEN how ELSE chunk[g][d]
        BY <3>1 DEF PublishTypeOK
      <3> QED BY <2>1, <3>1, <3>2
    <2>2. CASE Request(<<f, c>>, fetch, chunk)
      <3>1. ASSUME \A g \in Fetches : fetch'[g] = fetch[g] PROVE fetch' = fetch
        BY <3>1 DEF PublishTypeOK
      <3>2. CASE Sends({<<f, c>>}, <<f, c>>, sessionId)
        <4>1. \A g \in Fetches : fetch'[g] = fetch[g] BY <1>2, <3>2 DEF Sends, SendsForManifest
        <4>2. manifestEntry' = manifestEntry BY <1>2, <3>2 DEF Sends, SendsForManifest
        <4>3. \A g \in Fetches, d \in Chunks : chunk'[g][d] = IF g = f /\ d = c THEN "asked" ELSE chunk[g][d]
          BY <1>3, <3>2 DEF Sends
        <4> QED BY <3>1, <3>2, <4>1, <4>2, <4>3
      <3>3. CASE Waits(<<f, c>>)
        <4>1. \A g \in Fetches : fetch'[g] = fetch[g] BY <1>2, <3>3 DEF Waits
        <4>2. UNCHANGED <<manifestEntry, mail, stale>> BY <3>3 DEF Waits
        <4>3. \A g \in Fetches, d \in Chunks : chunk'[g][d] = IF g = f /\ d = c THEN "session" ELSE chunk[g][d]
          BY <1>3, <3>3 DEF Waits
        <4> QED BY <3>1, <4>1, <4>2, <4>3
      <3> QED BY <1>2, <2>2, <3>2, <3>3, RequestMoves
    <2> QED BY <2>1, <2>2 DEF RequestChunk
  <1>5. HistoryGrows BY <1>1, <1>4 DEF HistoryGrows, Sends
  <1>6. ASSUME NEW h \in Spared PROVE fetch'[h] # "failed" /\ Alone(h)'
    <2>1. h \in Fetches /\ fetch[h] \notin Over /\ h \notin stale' /\ Alone(h) BY SparedIsAlone
    <2>2. h = f BY <1>1, <2>1 DEF Alone, OthersOver, Over
    <2>3. pc # "joined"
      <3> SUFFICES ASSUME pc = "joined" PROVE FALSE OBVIOUS
      <3>1. chunkEntry[c] \in Fetches /\ chunk[chunkEntry[c]][c] \in {"session", "asked"}
        BY <1>4 DEF Supplied, EntriesRun
      <3> QED BY <1>1, <2>1, <2>2, <3>1 DEF Alone, OthersOver
    <2>4. mail \subseteq mail' BY <1>4 DEF Sends, SendsMail
    <2>5. OthersOver(f)' BY <1>1, <1>4, <2>1, <2>2 DEF Alone, OthersOver
    <2>6. OwnEntry(f)' BY <1>1, <1>4, <2>1, <2>2, <2>4 DEF Alone, OwnEntry, Expected
    <2>7. OwnChunks(f)'
      <3>1. pc = "asked" => Expected(f, c)' BY <1>4 DEF Sends, SendsMail, Expected
      <3>2. \A d \in Chunks : Expected(f, d) => Expected(f, d)' BY <2>4 DEF Expected
      <3> QED BY <1>4, <2>1, <2>2, <2>3, <3>1, <3>2 DEF Alone, OwnChunks
    <2>8. OwnMail(f)'
      <3> SUFFICES ASSUME NEW m \in mail', m.by = f, m.kind = "ask" PROVE m.to \in atPeer
        BY <1>1 DEF OwnMail
      <3>1. CASE m \in mail BY <2>1, <2>2, <3>1 DEF Alone, OwnMail
      <3>2. CASE m \notin mail
        <4>1. Sends({<<f, c>>}, <<f, c>>, sessionId) BY <1>4, <3>2
        <4>2. m.to = sessionId BY <3>2, <4>1 DEF Sends, SendsMail
        <4>3. sessionId \in atPeer BY <2>1, <2>2, <4>1 DEF Sends
        <4> QED BY <4>2, <4>3
      <3> QED BY <3>1, <3>2
    <2>9. fetch'[h] # "failed" BY <1>4, <2>1 DEF Over
    <2> QED BY <2>2, <2>5, <2>6, <2>7, <2>8, <2>9 DEF Alone
  <1> QED BY <1>5, <1>6, LoneKept

(* The ends of a fetch and of its requests.                                *)
LEMMA EndKeepsLone ==
  ASSUME PublishTypeOK, PublishTypeOK', Supplied, Lone, NEW g \in Fetches, FetchEnds(g)
  PROVE  Lone'
  <1>1. fetch[g] = "chunks" /\ UNCHANGED <<excused, stale>> BY DEF FetchEnds
  <1>2. PICK pc \in {"ok", "failed"} : PromisesSettle({g}, pc) BY DEF FetchEnds
  <1>3. HistoryGrows BY <1>1, <1>2, SettlingGrows DEF Over
  <1>4. ASSUME NEW f \in Spared PROVE fetch'[f] = "ok"
    <2>1. f \in Fetches /\ fetch[f] \notin Over /\ Alone(f) BY SparedIsAlone
    <2>2. f = g BY <1>1, <2>1 DEF Alone, OthersOver, Over
    <2>3. \A c \in Chunks : chunk[g][c] = "done" BY <2>1, <2>2 DEF FetchEnds, Alone, OwnChunks
    <2>4. stored = Items BY <1>1, <2>3 DEF Supplied, DoneIsStored, ManifestFirst, PublishTypeOK, Items
    <2>5. PromisesSettle({g}, "ok") BY <2>1, <2>2, <2>3, <2>4 DEF FetchEnds, Alone, OwnChunks
    <2> QED BY <2>1, <2>2, <2>5 DEF PromisesSettle
  <1>5. \A f \in Spared : fetch'[f] # "failed" /\ fetch'[f] \in Over BY <1>4 DEF Over
  <1> QED BY <1>3, <1>5, LoneKept

LEMMA AnswerKeepsLone ==
  ASSUME PublishTypeOK, PublishTypeOK', Lone, NEW m \in mail, Answer(m)
  PROVE  Lone'
  <1>1. UNCHANGED <<atPeer, fetch, armed, expired, unsent, manifestEntry, chunk, excused, stale>> BY DEF Answer, asking, timing
  <1>2. PICK k \in {"have", "missing"} : mail' = (mail \ {m}) \cup {[m EXCEPT !.kind = k]} BY DEF Answer
  <1>3. m \in Mail BY DEF PublishTypeOK
  <1>4. [m EXCEPT !.kind = k].by = m.by /\ [m EXCEPT !.kind = k].item = m.item /\ [m EXCEPT !.kind = k].kind = k
    BY <1>3 DEF Mail
  <1>5. HistoryGrows BY <1>1 DEF HistoryGrows
  <1>6. ASSUME NEW f \in Spared PROVE fetch'[f] # "failed" /\ Alone(f)'
    <2>1. f \in Fetches /\ fetch[f] \notin Over /\ Alone(f) BY SparedIsAlone
    <2>2. \A i \in Items : Expected(f, i) => Expected(f, i)' BY <1>2, <1>4 DEF Expected
    <2>3. OthersOver(f)' BY <1>1, <2>1 DEF Alone, OthersOver
    <2>4. OwnEntry(f)' BY <1>1, <2>1, <2>2 DEF Alone, OwnEntry, Items
    <2>5. OwnChunks(f)' BY <1>1, <2>1, <2>2 DEF Alone, OwnChunks, Items
    <2>6. OwnMail(f)' BY <1>1, <1>2, <1>4, <2>1 DEF Alone, OwnMail
    <2> QED BY <1>1, <2>1, <2>3, <2>4, <2>5, <2>6 DEF Alone, Over
  <1> QED BY <1>5, <1>6, LoneKept

LEMMA ManifestKeepsLone ==
  ASSUME PublishTypeOK, PublishTypeOK', Awaited, Lone, NEW m \in mail, ManifestArrives(m)
  PROVE  Lone'
  <1>1. UNCHANGED <<atPeer, chunk, stale>> /\ mail' = mail \ {m} /\ m.item = Manifest BY DEF ManifestArrives
  <1>2. PICK pc \in {"chunks", "failed"} : EntrySettles(pc) /\ (Upset \/ Excuse(UnderWay) \/ (pc = "chunks" /\ Calm))
    BY DEF ManifestArrives
  <1>3. /\ \A f \in Fetches : fetch'[f] = fetch[f] \/ (fetch[f] \in {"asked", "joined"} /\ fetch'[f] = pc)
        /\ \A f \in Fetches : f = manifestEntry /\ f \notin expired => fetch'[f] = pc
        /\ manifestEntry' = Nobody /\ expired' = expired /\ armed' \subseteq armed
    BY <1>2, EntrySettlesMeans
  <1>4. HistoryGrows BY <1>1, <1>2, <1>3 DEF HistoryGrows, Over, Upset, Excuse, Calm
  <1>5. CASE Upset \/ Excuse(UnderWay) BY <1>4, <1>5, DisturbedKeepsLone
  <1>6. CASE pc = "chunks"
    <2>1. ASSUME NEW f \in Spared PROVE fetch'[f] # "failed" /\ Alone(f)'
      <3>1. f \in Fetches /\ fetch[f] \notin Over /\ Alone(f) BY SparedIsAlone
      <3>2. \A c \in Chunks : Expected(f, c) => Expected(f, c)' BY <1>1, PublishAssumption DEF Expected
      <3>3. OthersOver(f)' BY <1>1, <1>3, <1>4, <3>1 DEF Alone, OthersOver, HistoryGrows
      <3>4. fetch'[f] \notin {"asked", "joined", "failed"} BY <1>3, <1>6, <3>1 DEF Alone, OwnEntry, Over
      <3>5. OwnEntry(f)' BY <1>3, <3>1, <3>4 DEF Alone, OwnEntry
      <3>6. OwnChunks(f)' BY <1>1, <3>1, <3>2 DEF Alone, OwnChunks
      <3>7. OwnMail(f)' BY <1>1, <3>1 DEF Alone, OwnMail
      <3> QED BY <3>3, <3>4, <3>5, <3>6, <3>7 DEF Alone
    <2> QED BY <1>4, <2>1, LoneKept
  <1> QED BY <1>2, <1>5, <1>6

LEMMA ChunkKeepsLone ==
  ASSUME PublishTypeOK, PublishTypeOK', Supplied, Lone, NEW m \in mail, ChunkArrives(m)
  PROVE  Lone'
  <1> DEFINE c == m.item
             G == {f \in Fetches : m.item \in Chunks /\ chunk[f][m.item] = "asked"}
  <1>1. /\ c \in Chunks /\ mail' = mail \ {m} /\ m.kind = "have"
        /\ UNCHANGED <<atPeer, fetch, armed, expired, unsent, manifestEntry, excused, stale>>
    BY PublishAssumption DEF ChunkArrives, timing, Supplied, Answered, PublishTypeOK, Mail
  <1>2. \A f \in Fetches, d \in Chunks :
          /\ chunk'[f][d] = chunk[f][d] \/ (d = c /\ chunk'[f][d] = "done")
          /\ d = c => chunk'[f][d] # "asked"
    <2>1. \A f \in Fetches : f \in G <=> chunk[f][c] = "asked" BY <1>1
    <2>2. CASE G = {}
      <3>1. chunk' = chunk BY <2>2 DEF ChunkArrives
      <3> QED BY <2>1, <2>2, <3>1
    <2>3. CASE G # {}
      <3>1. ChunkEnds(G, c, "done") BY <1>1, <2>3 DEF ChunkArrives
      <3>2. G \in SUBSET Fetches OBVIOUS
      <3> HIDE DEF G, c
      <3>3. \A f \in Fetches, d \in Chunks :
              chunk'[f][d] = IF d = c /\ (f \in G \/ chunk[f][c] = "joined") THEN "done" ELSE chunk[f][d]
        BY <1>1, <3>1, <3>2, ChunkEndsMeans
      <3> QED BY <2>1, <3>3
    <2> QED BY <2>2, <2>3
  <1>3. HistoryGrows BY <1>1 DEF HistoryGrows
  <1>4. ASSUME NEW f \in Spared PROVE fetch'[f] # "failed" /\ Alone(f)'
    <2>1. f \in Fetches /\ fetch[f] \notin Over /\ Alone(f) BY SparedIsAlone
    <2>2. \A i \in Items : i # c /\ Expected(f, i) => Expected(f, i)' BY <1>1 DEF Expected
    <2> HIDE DEF c
    <2>3. OthersOver(f)' BY <1>1, <1>2, <2>1 DEF Alone, OthersOver
    <2>4. OwnEntry(f)' BY <1>1, <2>1, <2>2, PublishAssumption DEF Alone, OwnEntry, Items
    <2>5. OwnChunks(f)' BY <1>2, <2>1, <2>2 DEF Alone, OwnChunks, Items
    <2>6. OwnMail(f)' BY <1>1, <2>1 DEF Alone, OwnMail
    <2> QED BY <1>1, <2>1, <2>3, <2>4, <2>5, <2>6 DEF Alone, Over
  <1> QED BY <1>3, <1>4, LoneKept

LEMMA FailureKeepsLone ==
  ASSUME PublishTypeOK, PublishTypeOK', Lone, NEW m \in mail, SendFails(m)
  PROVE  Lone'
  <1>1. m.kind = "ask" /\ stale' = stale /\ m.by \in Fetches /\ m.item \in Items
    BY DEF SendFails, PublishTypeOK, Mail
  <1> DEFINE F == IF fetch[m.by] = "asked" THEN {m.by} ELSE {}
  <1>2. fetch' = fetch \/ PromisesSettle(F, "failed") BY DEF SendFails
  <1>3. \A f \in F : fetch[f] \notin Over BY DEF Over
  <1> HIDE DEF F
  <1>4. \/ Upset \/ Excuse(UnderWay)
        \/ ~Reaches(m.to) /\ At(<<m.by, m.item>>) = "asked" /\ excused' = excused
    BY DEF SendFails, Excuse
  <1>5. excused \subseteq excused' BY <1>4 DEF Upset, Excuse
  <1>6. HistoryGrows
    <2>1. CASE fetch' = fetch BY <1>1, <1>5, <2>1 DEF HistoryGrows
    <2>2. CASE PromisesSettle(F, "failed") BY <1>1, <1>3, <1>5, <2>2, SettlingGrows
    <2> QED BY <1>2, <2>1, <2>2
  <1>7. CASE Upset \/ Excuse(UnderWay) BY <1>6, <1>7, DisturbedKeepsLone
  <1>8. CASE ~Reaches(m.to) /\ At(<<m.by, m.item>>) = "asked"
    <2>1. ASSUME NEW f \in Spared PROVE FALSE
      <3>1. f \in Fetches /\ Alone(f) BY SparedIsAlone
      <3>2. CASE m.by = f
        <4>1. m.to \in atPeer BY <1>1, <3>1, <3>2 DEF Alone, OwnMail
        <4>2. m.to # Everyone BY <4>1, PublishAssumption DEF PublishTypeOK
        <4> QED BY <1>8, <4>1, <4>2 DEF Reaches
      <3>3. CASE m.by # f
        <4>1. CASE m.item = Manifest
          <5>1. fetch[m.by] = "asked" BY <1>8, <4>1 DEF At
          <5> QED BY <1>1, <3>1, <3>3, <5>1 DEF Alone, OthersOver, Over
        <4>2. CASE m.item \in Chunks
          <5>1. chunk[m.by][m.item] = "asked" BY <1>8, <4>2, PublishAssumption DEF At
          <5> QED BY <1>1, <3>1, <3>3, <4>2, <5>1 DEF Alone, OthersOver
        <4> QED BY <1>1, <4>1, <4>2 DEF Items
      <3> QED BY <3>2, <3>3
    <2> QED BY <1>6, <2>1, LoneKept
  <1> QED BY <1>4, <1>7, <1>8

LEMMA TimeoutKeepsLone ==
  ASSUME PublishTypeOK, PublishTypeOK', Lone, NEW g \in Fetches, ManifestTimesOut(g)
  PROVE  Lone'
  <1>1. /\ g \in armed /\ UNCHANGED <<atPeer, chunk, mail, stale>> /\ armed' \subseteq armed /\ manifestEntry' = Nobody
        /\ expired' = IF fetch[g] = "session" THEN expired \cup {g} ELSE expired
    BY DEF ManifestTimesOut
  <1>2. PICK F : PromisesSettle(F, "failed") /\ F = IF fetch[g] = "asked" THEN Promised(g) ELSE {}
    BY DEF ManifestTimesOut
  <1>3. \A f \in F : fetch[f] \notin Over BY <1>2 DEF Promised, Over
  <1>4. Upset \/ (Calm /\ ~Expected(g, Manifest) /\ fetch[g] # "session") BY DEF ManifestTimesOut
  <1>5. HistoryGrows
    <2>1. excused \subseteq excused' BY <1>4 DEF Upset, Excuse, Calm
    <2> QED BY <1>1, <1>2, <1>3, <2>1, SettlingGrows
  <1>6. CASE Upset BY <1>5, <1>6, DisturbedKeepsLone
  <1>7. CASE ~Expected(g, Manifest) /\ fetch[g] # "session"
    <2>1. ASSUME NEW f \in Spared PROVE fetch'[f] # "failed" /\ Alone(f)'
      <3>1. f \in Fetches /\ fetch[f] \notin Over /\ Alone(f) BY SparedIsAlone
      <3>2. f = g BY <1>1, <3>1 DEF Alone, OthersOver
      <3>3. fetch[g] # "asked" BY <1>7, <3>1, <3>2 DEF Alone, OwnEntry
      <3>4. fetch'[f] = fetch[f] /\ expired' = expired BY <1>1, <1>2, <1>7, <3>1, <3>3 DEF PromisesSettle
      <3>5. OthersOver(f)' BY <1>1, <1>5, <3>1 DEF Alone, OthersOver, HistoryGrows
      <3>6. OwnEntry(f)' BY <1>1, <3>1, <3>2, <3>3, <3>4 DEF Alone, OwnEntry
      <3>7. OwnChunks(f)' /\ OwnMail(f)' BY <1>1, <3>1 DEF Alone, OwnChunks, OwnMail, Expected
      <3> QED BY <3>1, <3>4, <3>5, <3>6, <3>7 DEF Alone, Over
    <2> QED BY <1>5, <2>1, LoneKept
  <1> QED BY <1>4, <1>6, <1>7

LEMMA LoneStep ==
  ASSUME PublishTypeOK, Awaited, Supplied, Lone, [PublishNext]_publishVars
  PROVE  Lone'
  <1> USE DEF asking, timing
  <1>0. PublishTypeOK' BY PublishTypes
  <1>a. ASSUME UNCHANGED <<atPeer, asking, mail, excused, stale>> PROVE Lone'
    BY <1>a DEF Lone, LoneFetchSucceeds, Undisturbed, UnderWay, Alone, OthersOver, OwnEntry, OwnChunks, OwnMail, Expected
  <1>b. ASSUME Upset \/ Excuse(UnderWay), stale' = stale, \A g \in Fetches : fetch[g] \in Over => fetch'[g] = fetch[g]
        PROVE  Lone'
    <2>1. HistoryGrows BY <1>b DEF HistoryGrows, Upset, Excuse
    <2> QED BY <1>0, <1>b, <2>1, DisturbedKeepsLone
  <1>1. ASSUME UNCHANGED publishVars PROVE Lone' BY <1>a, <1>1 DEF publishVars
  <1>2. ASSUME NEW i \in Items, Publish(i) PROVE Lone' BY <1>a, <1>2 DEF Publish
  <1>3. ASSUME SessionNotFound PROVE Lone'
    <2> DEFINE F == {r[1] : r \in {r \in InLookup : r[2] = Manifest}}
    <2>1. PromisesSettle(F, "failed") /\ stale' = stale /\ (Upset \/ Excuse(UnderWay)) BY <1>3 DEF SessionNotFound
    <2>2. \A f \in F : fetch[f] = "session" BY DEF InLookup, At
    <2> HIDE DEF F
    <2>3. \A g \in Fetches : fetch[g] \in Over => fetch'[g] = fetch[g] BY <2>1, <2>2 DEF PromisesSettle, Over
    <2> QED BY <1>b, <2>1, <2>3
  <1>4. ASSUME Move \/ \E m \in mail : Lose(m) PROVE Lone' BY <1>b, <1>4 DEF Move, Lose
  <1>5. ASSUME Stop PROVE Lone'
    <2>1. Upset /\ stale' = stale /\ EntrySettles("failed") BY <1>5 DEF Stop
    <2>2. \A g \in Fetches : fetch[g] \in Over => fetch'[g] = fetch[g] BY <2>1, EntrySettlesMeans DEF Over
    <2> QED BY <1>b, <2>1, <2>2
  <1>6. ASSUME Reload PROVE Lone'
    <2>1. UNCHANGED <<excused, stale>> /\ \A f \in Fetches : fetch'[f] = IF f \in UnderWay THEN "idle" ELSE fetch[f]
      BY <1>6 DEF Reload
    <2>2. HistoryGrows BY <2>1 DEF HistoryGrows, UnderWay
    <2>3. \A f \in Spared : fetch'[f] # "failed" /\ fetch'[f] \in Over BY <2>1 DEF Spared, Undisturbed, UnderWay, Over
    <2> QED BY <1>0, <2>2, <2>3, LoneKept
  <1>7. ASSUME NEW g \in Fetches, Expires(g) PROVE Lone'
    <2>1. /\ PromisesSettle({g}, "failed") /\ UNCHANGED <<excused, stale>>
          /\ (fetch[g] = "asked" /\ g \in expired) \/ fetch[g] = "joined"
      BY <1>7 DEF Expires
    <2>2. HistoryGrows BY <2>1, SettlingGrows DEF Over
    <2>3. ASSUME NEW f \in Spared PROVE FALSE
      <3>1. f \in Fetches /\ Alone(f) BY SparedIsAlone
      <3> QED BY <2>1, <3>1 DEF Alone, OthersOver, OwnEntry, Over
    <2> QED BY <1>0, <2>2, <2>3, LoneKept
  <1>8. ASSUME NEW g \in Fetches, NEW c \in Chunks, ChunkTimesOut(g, c) PROVE Lone'
    <2>1. /\ chunk[g][c] = "asked" /\ UNCHANGED <<fetch, stale>>
          /\ Upset \/ (Calm /\ ~Expected(g, c))
      BY <1>8 DEF ChunkTimesOut
    <2>2. CASE Upset BY <1>b, <2>1, <2>2
    <2>3. CASE Calm /\ ~Expected(g, c)
      <3>1. HistoryGrows BY <2>1, <2>3 DEF HistoryGrows, Calm
      <3>2. ASSUME NEW f \in Spared PROVE FALSE
        <4>1. f \in Fetches /\ Alone(f) BY SparedIsAlone
        <4> QED BY <2>1, <2>3, <4>1 DEF Alone, OthersOver, OwnChunks
      <3> QED BY <1>0, <3>1, <3>2, LoneKept
    <2> QED BY <2>1, <2>2, <2>3
  <1> HIDE DEF asking, timing
  <1> QED
    BY <1>0, <1>1, <1>2, <1>3, <1>4, <1>5, <1>6, <1>7, <1>8, LookupKeepsLone, FetchFileKeepsLone, RequestKeepsLone,
       EndKeepsLone, AnswerKeepsLone, ManifestKeepsLone, ChunkKeepsLone, FailureKeepsLone, TimeoutKeepsLone
    DEF PublishNext

PublishInv == PublishTypeOK /\ Awaited /\ Supplied /\ Lone

LEMMA PublishInvHolds == PublishSpec => []PublishInv
  <1>1. PublishInit => PublishInv
    <2> SUFFICES ASSUME PublishInit PROVE PublishInv OBVIOUS
    <2>1. \A f \in Fetches : fetch[f] = "idle" BY DEF PublishInit
    <2>2. Awaited BY <2>1 DEF PublishInit, Awaited, Timed, Joined, EntrySent, MailSent
    <2>3. fetch \in [Fetches -> FetchSteps] /\ via \in [Fetches -> Fetches] BY DEF PublishInit, FetchSteps, Over
    <2>4. chunkEntry \in [Chunks -> Fetches \cup {Nobody, "settled"}] BY DEF PublishInit
    <2>5. chunk \in [Fetches -> [Chunks -> ChunkSteps]] BY DEF PublishInit, NoChunks, ChunkSteps
    <2>6. PublishTypeOK
      BY <2>3, <2>4, <2>5, PublishAssumption DEF PublishInit, PublishTypeOK, FetchSteps, ChunkSteps
    <2>7. Supplied
      <3>1. published = {} /\ stored = {} /\ mail = {} /\ expired = {} BY DEF PublishInit
      <3>2. \A f \in Fetches, c \in Chunks : chunk[f][c] = "todo" BY DEF PublishInit, NoChunks
      <3>3. \A c \in Chunks : chunkEntry[c] = Nobody BY DEF PublishInit
      <3>4. NotBegun /\ ManifestLast /\ Answered BY <3>1, <3>2 DEF NotBegun, ManifestLast, Answered
      <3>5. ManifestFirst BY <2>1, <3>2 DEF ManifestFirst
      <3>6. DoneIsStored /\ EntriesRun BY <3>2, <3>3, PublishAssumption DEF DoneIsStored, EntriesRun
      <3> QED BY <3>4, <3>5, <3>6 DEF Supplied
    <2>8. Lone BY <2>1 DEF Lone, LoneFetchSucceeds, Undisturbed, UnderWay, Over
    <2> QED BY <2>2, <2>6, <2>7, <2>8 DEF PublishInv
  <1>2. PublishInv /\ [PublishNext]_publishVars => PublishInv'
    BY PublishTypes, AwaitedKept, SuppliedStep, LoneStep DEF PublishInv
  <1> QED BY <1>1, <1>2, PTL DEF PublishSpec

(* The entries, the timers, the requests and the messages stay well typed. *)
THEOREM ContentPublishingTyped == PublishSpec => []PublishTypeOK
  <1>1. PublishInv => PublishTypeOK BY DEF PublishInv
  <1> QED BY <1>1, PublishInvHolds, PTL

(* No caller of requestManifest is left without an end: the timer of the   *)
(* request whose promise it waits for runs, or has ended and is about to   *)
(* end the wait (data-publisher.js:412).                                   *)
THEOREM EveryWaitEndsHolds == PublishSpec => []EveryWaitEnds
  <1>1. PublishInv => EveryWaitEnds BY DEF PublishInv, Awaited, Timed, Joined, EveryWaitEnds
  <1> QED BY <1>1, PublishInvHolds, PTL

(* A fetch that nothing disturbs, that is alone and asks a session that is *)
(* online gets the file: publish stores the manifest last                  *)
(* (data-publisher.js:289), and a chunk is asked for only once the         *)
(* manifest is here.                                                       *)
THEOREM LoneFetchSucceedsHolds == PublishSpec => []LoneFetchSucceeds
  <1>1. PublishInv => LoneFetchSucceeds BY DEF PublishInv, Lone
  <1> QED BY <1>1, PublishInvHolds, PTL

(***************************************************************************)
================================================================================
