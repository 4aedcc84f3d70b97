----------------------- MODULE SessionRegistryProofs -----------------------
(***************************************************************************)
(* Proofs about SessionRegistry, for any number of users, session ids and  *)
(* connections, in two parts.                                              *)
(*                                                                         *)
(* What every interleaving satisfies: the inductive invariant is IInv, the *)
(* types, Registration (a record and the signal of its connection move     *)
(* together) and the fact that a connection which has not inserted its     *)
(* record has not been told to stop.  NoInvisibleSession and               *)
(* OneLiveConnection follow from it.                                       *)
(*                                                                         *)
(* What holds until two operations on one user overlap: the inductive      *)
(* invariant is Ledger, which says for the one operation under way on a    *)
(* user, call by call, how far the count and the statistics are from the   *)
(* sessions.  ExactUntilOverlap follows from it.                           *)
(***************************************************************************)
EXTENDS MCRegistry, FiniteSetTheorems, TLAPS

Unsignalled == \A c \in Conns : pc[c] \in HandshakePcs => ~disconnect[c]
IInv == TypeOK /\ Registration /\ Unsignalled

\* The capped failure count stays within its type.
LEMMA CappedType ==
  ASSUME NEW n \in Nat
  PROVE  Capped(n) \in 0..RelayFailLimit
BY ConstantsOK DEF Capped

\* A saturating subtraction stays a natural number.
LEMMA SaturatingSubType ==
  ASSUME NEW n \in Nat, NEW m \in Nat
  PROVE  SaturatingSub(n, m) \in Nat
BY DEF SaturatingSub

\* The initial state has the types.
LEMMA InitTypeOK == Init => TypeOK
BY ConstantsOK DEF Init, TypeOK, Pcs, HandshakePcs, NoIter, AdminIdle, AdminStates, Key


\* The initial state satisfies the invariant: nothing is registered.
LEMMA InitIInv == Init => IInv
<1>1. Init => Registration /\ Unsignalled
  BY DEF Init, Registration, Unsignalled, AttachedPcs
<1> QED BY <1>1, InitTypeOK DEF IInv

\* The steps of a handshake keep the types.
LEMMA HandshakeTypeOK ==
  ASSUME TypeOK, NEW c \in Conns, Handshake(c)
  PROVE  TypeOK'
<1> USE DEF TypeOK, Goto, At, Pcs, HandshakePcs, AttachedPcs, GonePcs
<1>1. CASE SendChallenge(c)   BY <1>1 DEF SendChallenge
<1>2. CASE RejectHandshake(c) BY <1>2 DEF RejectHandshake
<1>3. CASE Authenticate(c)    BY <1>3 DEF Authenticate
<1>4. CASE CheckReconnect(c)  BY <1>4 DEF CheckReconnect
<1>5. CASE CheckLimit(c)      BY <1>5 DEF CheckLimit
<1>6. CASE EvictOld(c)        BY <1>6 DEF EvictOld, Fire
<1>7. CASE InsertSession(c)
  <2>1. users' \in [Key -> Conns \cup {NoConn}] /\ fails' \in [Key -> 0..RelayFailLimit]
    BY <1>7, ConstantsOK DEF InsertSession
  <2>2. iter' \in [Conns -> [left : SUBSET Key, n : Nat]]
    BY <1>7 DEF InsertSession, KeysOf
  <2>3. pc' \in [Conns -> Pcs] /\ disconnect' \in [Conns -> BOOLEAN]
    BY <1>7 DEF InsertSession, Fire
  <2> QED BY <1>7, <2>1, <2>2, <2>3 DEF InsertSession
<1>8. CASE RecountVisit(c)
  <2>1. iter' \in [Conns -> [left : SUBSET Key, n : Nat]]
    BY <1>8 DEF RecountVisit
  <2> QED BY <1>8, <2>1 DEF RecountVisit
<1>9. CASE RecountDone(c)     BY <1>9 DEF RecountDone
<1>10. CASE SetCount(c)
  <2>1. UserOf(c) \in Users BY DEF UserOf, Key
  <2>2. iter[c].n \in Nat OBVIOUS
  <2> QED BY <1>10, <2>1, <2>2 DEF SetCount, NoIter
<1>11. CASE RegisterStats(c)  BY <1>11 DEF RegisterStats
<1>12. CASE LoadUser(c)       BY <1>12 DEF LoadUser
<1>13. CASE SaveUser(c)       BY <1>13 DEF SaveUser
<1>14. CASE FlushInbox(c)     BY <1>14 DEF FlushInbox
<1>15. CASE GreetClient(c)    BY <1>15 DEF GreetClient
<1> QED
  BY <1>1, <1>2, <1>3, <1>4, <1>5, <1>6, <1>7, <1>8, <1>9, <1>10, <1>11,
     <1>12, <1>13, <1>14, <1>15 DEF Handshake, AddUser

\* The steps of the loop and of the cleanup keep the types.
LEMMA ServiceTypeOK ==
  ASSUME TypeOK, NEW c \in Conns, Loop(c) \/ Cleanup(c)
  PROVE  TypeOK'
<1> USE DEF TypeOK, Goto, At, Pcs, HandshakePcs, AttachedPcs, GonePcs
<1>0. /\ UserOf(c) \in Users /\ key[c] \in Key
      /\ SaturatingSub(counts[UserOf(c)], 1) \in Nat
  <2>1. UserOf(c) \in Users /\ key[c] \in Key BY DEF UserOf, Key
  <2> QED BY <2>1, SaturatingSubType
<1>1. CASE NoticeDisconnect(c) BY <1>1 DEF NoticeDisconnect
<1>2. CASE LeaveLoop(c)        BY <1>2 DEF LeaveLoop
<1>3. CASE RelaySucceeds(c)
  BY <1>3, ConstantsOK DEF RelaySucceeds
<1>4. CASE RelayFails(c)
  <2>1. PICK n \in {1, Capped(fails[key[c]] + 1)} :
          /\ fails' = [fails EXCEPT ![key[c]] = n]
          /\ pc' = [pc EXCEPT ![c] = IF n >= RelayFailLimit THEN "kick" ELSE "loop"]
    BY <1>4 DEF RelayFails
  <2>2. n \in 0..RelayFailLimit
    BY <1>0, CappedType, ConstantsOK
  <2> QED BY <1>4, <2>1, <2>2 DEF RelayFails
<1>5. CASE KickSelf(c)  BY <1>5 DEF KickSelf, Fire
<1>6. CASE KickCount(c) BY <1>0, <1>6 DEF KickCount
<1>7. CASE KickStats(c) BY <1>7 DEF KickStats
<1>8. CASE RemoveIfCurrent(c)  BY <1>8 DEF RemoveIfCurrent
<1>9. CASE Decrement(c)        BY <1>0, <1>9 DEF Decrement
<1>10. CASE DropStats(c)       BY <1>10 DEF DropStats
<1>11. CASE LastSessionCheck(c) BY <1>11 DEF LastSessionCheck
<1>12. CASE RetireUser(c)      BY <1>12 DEF RetireUser
<1> QED
  BY <1>1, <1>2, <1>3, <1>4, <1>5, <1>6, <1>7, <1>8, <1>9, <1>10, <1>11, <1>12
  DEF Loop, Cleanup

\* A record with well-typed fields is a state of the admin interface.
LEMMA AdminStateType ==
  ASSUME NEW p \in {"idle", "session", "retain", "count", "stats"},
         NEW u \in Users, NEW l \in SUBSET Key, NEW n \in Nat, NEW o \in Nat
  PROVE  [pc |-> p, user |-> u, left |-> l, n |-> n, ops |-> o] \in AdminStates
BY DEF AdminStates

\* The steps of the admin interface keep the types.
LEMMA AdminTypeOK ==
  ASSUME TypeOK, AdminRequest \/ AdminWork
  PROVE  TypeOK'
<1> USE DEF TypeOK
<1>0. /\ \A o \in Nat : AdminIdle(o) \in AdminStates
      /\ \A u : KeysOf(u) \in SUBSET Key
      /\ admin.pc \in {"idle", "session", "retain", "count", "stats"}
      /\ admin.user \in Users /\ admin.left \in SUBSET Key
      /\ admin.n \in Nat /\ admin.ops \in Nat
  BY ConstantsOK DEF AdminIdle, AdminStates, KeysOf
<1>1. ASSUME NEW k \in Key, AdminKickSession(k) PROVE TypeOK'
  <2>1. k[1] \in Users BY <1>1 DEF Key
  <2>2. {k} \in SUBSET Key BY <1>1
  <2>3. admin.ops + 1 \in Nat BY <1>0
  <2>4. admin' \in AdminStates
    BY <1>1, <2>1, <2>2, <2>3, AdminStateType DEF AdminKickSession
  <2> QED BY <1>1, <2>4 DEF AdminKickSession
<1>2. ASSUME NEW u \in Users, AdminKickUser(u) PROVE TypeOK'
  <2>1. admin.ops + 1 \in Nat /\ KeysOf(u) \in SUBSET Key BY <1>0
  <2>2. admin' \in AdminStates
    BY <1>2, <2>1, AdminStateType DEF AdminKickUser
  <2> QED BY <1>2, <2>2 DEF AdminKickUser
<1>3. CASE AdminRemove
  <2>1. PICK k \in admin.left :
          /\ users' = [users EXCEPT ![k] = NoConn]
          /\ Fire(users[k])
          /\ admin' = [pc |-> IF admin.pc = "session" THEN "count" ELSE "retain",
                       user |-> admin.user,
                       left |-> IF admin.pc = "session" THEN {k}
                                ELSE admin.left \ {k},
                       n |-> IF users[k] # NoConn THEN admin.n + 1 ELSE admin.n,
                       ops |-> admin.ops]
    BY <1>3 DEF AdminRemove
  <2>2. admin' \in AdminStates
    <3>1. {k} \in SUBSET Key /\ admin.left \ {k} \in SUBSET Key BY <1>0, <2>1
    <3>2. admin.n + 1 \in Nat BY <1>0
    <3> DEFINE p == IF admin.pc = "session" THEN "count" ELSE "retain"
               l == IF admin.pc = "session" THEN {k} ELSE admin.left \ {k}
               n == IF users[k] # NoConn THEN admin.n + 1 ELSE admin.n
    <3>3. /\ p \in {"idle", "session", "retain", "count", "stats"}
          /\ l \in SUBSET Key /\ n \in Nat
      BY <1>0, <3>1, <3>2
    <3>4. admin' = [pc |-> p, user |-> admin.user, left |-> l, n |-> n,
                    ops |-> admin.ops]
      BY <2>1
    <3> HIDE DEF p, l, n
    <3> QED BY <1>0, <3>3, <3>4, AdminStateType
  <2>3. users' \in [Key -> Conns \cup {NoConn}] /\ disconnect' \in [Conns -> BOOLEAN]
    BY <2>1 DEF Fire
  <2> QED BY <1>3, <2>2, <2>3 DEF AdminRemove
<1>4. CASE AdminRetained
  <2>1. admin' \in AdminStates
    BY <1>0, <1>4 DEF AdminRetained, AdminStates
  <2> QED BY <1>4, <2>1 DEF AdminRetained
<1>5. CASE AdminCount
  <2>1. SaturatingSub(counts[admin.user], admin.n) \in Nat
    BY <1>0, SaturatingSubType
  <2>2. counts' \in [Users -> Nat] BY <1>5, <2>1 DEF AdminCount
  <2>3. admin' \in AdminStates BY <1>0, <1>5 DEF AdminCount, AdminStates
  <2> QED BY <1>5, <2>2, <2>3 DEF AdminCount
<1>6. CASE AdminStats BY <1>0, <1>6 DEF AdminStats
<1> QED BY <1>1, <1>2, <1>3, <1>4, <1>5, <1>6 DEF AdminRequest, AdminWork

\* Every step keeps the types.
LEMMA NextTypeOK == TypeOK /\ [Next]_vars => TypeOK'
<1> SUFFICES ASSUME TypeOK, [Next]_vars PROVE TypeOK'
  OBVIOUS
<1>1. CASE UNCHANGED vars BY <1>1 DEF vars, TypeOK
<1>2. CASE Next
  BY <1>2, HandshakeTypeOK, ServiceTypeOK, AdminTypeOK DEF Next
<1> QED BY <1>1, <1>2

\* Type correctness of the registry in every reachable state.
THEOREM TypeCorrect == Spec => []TypeOK
<1>1. Init => TypeOK BY InitTypeOK
<1>2. TypeOK /\ [Next]_vars => TypeOK' BY NextTypeOK
<1> QED BY <1>1, <1>2, PTL DEF Spec

----------------------------------------------------------------------------
\* A step that leaves the registry alone and moves a task within the attached
\* places, or within the places after its removal, preserves the invariant.
LEMMA QuietStep ==
  ASSUME IInv, NEW c \in Conns,
         users' = users, key' = key, disconnect' = disconnect,
         NEW p, pc' = [pc EXCEPT ![c] = p],
         \/ pc[c] \in AttachedPcs /\ p \in AttachedPcs
         \/ pc[c] \in HandshakePcs /\ p \in HandshakePcs
         \/ pc[c] \notin AttachedPcs /\ p \in GonePcs
  PROVE  Registration' /\ Unsignalled'
<1>1. AttachedPcs \cap HandshakePcs = {} /\ GonePcs \cap HandshakePcs = {}
      /\ AttachedPcs \cap GonePcs = {}
  BY DEF AttachedPcs, HandshakePcs, GonePcs
<1>2. \A d \in Conns : d # c => pc'[d] = pc[d]
  BY DEF IInv, TypeOK
<1>3. pc'[c] = p BY DEF IInv, TypeOK
<1>4. \A k \in Key : users[k] # NoConn => users[k] \in Conns
  BY DEF IInv, TypeOK
<1>5. Registration'
  BY <1>1, <1>2, <1>3, <1>4 DEF IInv, Registration
<1>6. Unsignalled'
  BY <1>1, <1>2, <1>3 DEF IInv, Unsignalled
<1> QED BY <1>5, <1>6

\* Taking the record under k out of the registry, firing its signal, and moving
\* at most one task c between places before the insert (or between attached
\* places) preserves the invariant.
LEMMA RemoveStep ==
  ASSUME IInv, NEW k \in Key, key' = key,
         users' = [users EXCEPT ![k] = NoConn],
         Fire(users[k]),
         \/ pc' = pc
         \/ \E c \in Conns, p \in Pcs :
              /\ pc' = [pc EXCEPT ![c] = p]
              /\ \/ pc[c] \in AttachedPcs /\ p \in AttachedPcs
                 \/ pc[c] \in HandshakePcs /\ p \in HandshakePcs
  PROVE  Registration' /\ Unsignalled'
<1>1. AttachedPcs \cap HandshakePcs = {}
  BY DEF AttachedPcs, HandshakePcs
<1>2. \A d \in Conns : /\ pc'[d] \in AttachedPcs <=> pc[d] \in AttachedPcs
                       /\ pc'[d] \in HandshakePcs <=> pc[d] \in HandshakePcs
  BY <1>1 DEF IInv, TypeOK
<1>3. \A d \in Conns : disconnect'[d] <=> disconnect[d] \/ d = users[k]
  BY DEF Fire
<1>4. /\ \A j \in Key : users'[j] = IF j = k THEN NoConn ELSE users[j]
      /\ \A j \in Key : users[j] # NoConn => users[j] \in Conns
      /\ \A d \in Conns : key[d] \in Key /\ d # NoConn
  BY ConstantsOK DEF IInv, TypeOK
<1>5. ASSUME NEW d \in Conns, pc'[d] \in AttachedPcs
      PROVE  disconnect'[d] <=> users'[key[d]] # d
  <2>1. pc[d] \in AttachedPcs /\ (disconnect[d] <=> users[key[d]] # d)
    BY <1>2, <1>5 DEF IInv, Registration
  <2>2. users[k] = d => key[d] = k BY <1>4 DEF IInv, Registration
  <2> QED BY <1>3, <1>4, <2>1, <2>2
<1>6. Registration'
  BY <1>2, <1>4, <1>5 DEF IInv, Registration
<1>7. Unsignalled'
  <2>1. \A d \in Conns : pc[d] \in HandshakePcs => users[k] # d
    BY <1>1, <1>4 DEF IInv, Registration
  <2> QED BY <1>2, <1>3, <2>1 DEF IInv, Unsignalled
<1> QED BY <1>6, <1>7

\* users.insert: the newcomer is registered and unsignalled; a record it
\* overwrites was the only one of its connection, which is signalled.
LEMMA InsertStep ==
  ASSUME IInv, NEW c \in Conns, InsertSession(c)
  PROVE  Registration' /\ Unsignalled'
<1> DEFINE k == key[c]
<1>1. AttachedPcs \cap HandshakePcs = {} /\ "insert" \in HandshakePcs
      /\ "recount" \in AttachedPcs
  BY DEF AttachedPcs, HandshakePcs
<1>2. /\ pc[c] = "insert" /\ pc'[c] = "recount" /\ key' = key
      /\ \A d \in Conns : d # c => pc'[d] = pc[d]
  BY DEF InsertSession, At, Goto, IInv, TypeOK
<1>3. /\ \A j \in Key : users'[j] = IF j = k THEN c ELSE users[j]
      /\ \A j \in Key : users[j] # NoConn => users[j] \in Conns
      /\ \A d \in Conns : key[d] \in Key /\ d # NoConn
      /\ \A d \in Conns : disconnect'[d] <=> disconnect[d] \/ d = users[k]
  BY ConstantsOK DEF InsertSession, Fire, IInv, TypeOK
<1>4. ~disconnect[c] /\ \A j \in Key : users[j] # c
  BY <1>1, <1>2, <1>3 DEF IInv, Unsignalled, Registration
<1>5. ASSUME NEW d \in Conns, pc'[d] \in AttachedPcs
      PROVE  disconnect'[d] <=> users'[key[d]] # d
  <2>1. CASE d = c BY <2>1, <1>3, <1>4
  <2>2. CASE d # c
    <3>1. disconnect[d] <=> users[key[d]] # d
      BY <2>2, <1>2, <1>5 DEF IInv, Registration
    <3>2. users[k] = d => key[d] = k BY <1>3 DEF IInv, Registration
    <3> QED BY <2>2, <3>1, <3>2, <1>3
  <2> QED BY <2>1, <2>2
<1>6. ASSUME NEW j \in Key, users'[j] # NoConn
      PROVE  key[users'[j]] = j /\ pc'[users'[j]] \in AttachedPcs
  <2>1. CASE j = k BY <2>1, <1>1, <1>2, <1>3
  <2>2. CASE j # k
    <3>1. users'[j] = users[j] /\ users[j] # c BY <2>2, <1>3, <1>4
    <3> QED BY <3>1, <1>2, <1>3, <1>6 DEF IInv, Registration
  <2> QED BY <2>1, <2>2
<1>7. Registration' BY <1>2, <1>5, <1>6 DEF Registration
<1>8. Unsignalled'
  <2>1. \A d \in Conns : pc[d] \in HandshakePcs => users[k] # d
    BY <1>1, <1>3 DEF IInv, Registration
  <2> QED BY <2>1, <1>1, <1>2, <1>3 DEF IInv, Unsignalled
<1> QED BY <1>7, <1>8

\* remove_if by the owner: its record goes, and its task is past serving.
LEMMA RemoveIfStep ==
  ASSUME IInv, NEW c \in Conns, RemoveIfCurrent(c)
  PROVE  Registration' /\ Unsignalled'
<1> DEFINE k == key[c]
<1>1. /\ AttachedPcs \cap HandshakePcs = {}
      /\ "decrement" \notin AttachedPcs /\ "closed" \notin AttachedPcs
      /\ "decrement" \notin HandshakePcs /\ "closed" \notin HandshakePcs
      /\ "remove" \in AttachedPcs
  BY DEF AttachedPcs, HandshakePcs
<1>2. /\ pc[c] = "remove" /\ pc'[c] \in {"decrement", "closed"}
      /\ key' = key /\ disconnect' = disconnect
      /\ \A d \in Conns : d # c => pc'[d] = pc[d]
  BY DEF RemoveIfCurrent, At, Goto, IInv, TypeOK
<1>3. /\ \A j \in Key : users[j] # NoConn => users[j] \in Conns
      /\ \A d \in Conns : key[d] \in Key /\ d # NoConn
  BY ConstantsOK DEF IInv, TypeOK
<1>4. \A j \in Key : users'[j] = IF users[j] = c THEN NoConn ELSE users[j]
  <2>1. \A j \in Key : users[j] = c => j = k
    BY <1>3 DEF IInv, Registration
  <2> QED BY <1>3, <2>1 DEF RemoveIfCurrent, IInv, TypeOK
<1>5. Registration'
  BY <1>1, <1>2, <1>3, <1>4 DEF IInv, Registration
<1>6. Unsignalled'
  BY <1>1, <1>2 DEF IInv, Unsignalled
<1> QED BY <1>5, <1>6

\* The places each kind of step leaves and reaches.
LEMMA Places ==
  /\ {"idle", "challenged", "known", "limit", "evict", "insert"} \subseteq HandshakePcs
  /\ {"recount", "setcount", "regstats", "loaduser", "saveuser", "flushinbox",
      "greet", "loop", "kick", "kickcount", "kickstats", "remove", "aborted"}
       \subseteq AttachedPcs
  /\ {"decrement", "dropstats", "lastcheck", "retire", "closed"} \subseteq GonePcs
  /\ HandshakePcs \cap AttachedPcs = {} /\ GonePcs \cap AttachedPcs = {}
  /\ HandshakePcs \subseteq Pcs /\ AttachedPcs \subseteq Pcs
BY DEF HandshakePcs, AttachedPcs, GonePcs, Pcs

\* The steps of a handshake preserve the invariant.
LEMMA HandshakeStep ==
  ASSUME IInv, NEW c \in Conns, Handshake(c)
  PROVE  Registration' /\ Unsignalled'
<1> USE Places DEF At, Goto
<1>0. key[c] \in Key BY DEF IInv, TypeOK
<1>1. CASE SendChallenge(c)
  BY <1>1, QuietStep DEF SendChallenge
<1>2. CASE RejectHandshake(c)
  BY <1>2, QuietStep DEF RejectHandshake
<1>3. CASE Authenticate(c)
  BY <1>3, QuietStep DEF Authenticate
<1>4. CASE CheckReconnect(c)
  BY <1>4, QuietStep DEF CheckReconnect
<1>5. CASE CheckLimit(c)
  BY <1>5, QuietStep DEF CheckLimit
<1>6. CASE EvictOld(c)
  BY <1>0, <1>6, RemoveStep DEF EvictOld
<1>7. CASE InsertSession(c)
  BY <1>7, InsertStep
<1>8. CASE RecountVisit(c)
  <2>1. pc' = [pc EXCEPT ![c] = pc[c]] BY <1>8 DEF RecountVisit, IInv, TypeOK
  <2> QED BY <1>8, <2>1, QuietStep DEF RecountVisit
<1>9. CASE RecountDone(c)
  BY <1>9, QuietStep DEF RecountDone
<1>10. CASE SetCount(c)
  BY <1>10, QuietStep DEF SetCount
<1>11. CASE RegisterStats(c)
  BY <1>11, QuietStep DEF RegisterStats
<1>12. CASE LoadUser(c)
  BY <1>12, QuietStep DEF LoadUser
<1>13. CASE SaveUser(c)
  BY <1>13, QuietStep DEF SaveUser
<1>14. CASE FlushInbox(c)
  BY <1>14, QuietStep DEF FlushInbox
<1>15. CASE GreetClient(c)
  BY <1>15, QuietStep DEF GreetClient
<1> QED
  BY <1>1, <1>2, <1>3, <1>4, <1>5, <1>6, <1>7, <1>8, <1>9, <1>10, <1>11,
     <1>12, <1>13, <1>14, <1>15 DEF Handshake, AddUser

\* The steps of the loop and of the cleanup preserve the invariant.
LEMMA ServiceStep ==
  ASSUME IInv, NEW c \in Conns, Loop(c) \/ Cleanup(c)
  PROVE  Registration' /\ Unsignalled'
<1> USE Places DEF At, Goto
<1>0. key[c] \in Key BY DEF IInv, TypeOK
<1>1. CASE NoticeDisconnect(c)
  BY <1>1, QuietStep DEF NoticeDisconnect
<1>2. CASE LeaveLoop(c)
  BY <1>2, QuietStep DEF LeaveLoop
<1>3. CASE RelaySucceeds(c)
  <2>1. pc' = [pc EXCEPT ![c] = pc[c]] BY <1>3 DEF RelaySucceeds, IInv, TypeOK
  <2> QED BY <1>3, <2>1, QuietStep DEF RelaySucceeds
<1>4. CASE RelayFails(c)
  BY <1>4, QuietStep DEF RelayFails
<1>5. CASE KickSelf(c)
  BY <1>0, <1>5, RemoveStep DEF KickSelf
<1>6. CASE KickCount(c)
  BY <1>6, QuietStep DEF KickCount
<1>7. CASE KickStats(c)
  BY <1>7, QuietStep DEF KickStats
<1>8. CASE RemoveIfCurrent(c)
  BY <1>8, RemoveIfStep
<1>9. CASE Decrement(c)
  BY <1>9, QuietStep DEF Decrement
<1>10. CASE DropStats(c)
  BY <1>10, QuietStep DEF DropStats
<1>11. CASE LastSessionCheck(c)
  BY <1>11, QuietStep DEF LastSessionCheck
<1>12. CASE RetireUser(c)
  BY <1>12, QuietStep DEF RetireUser
<1> QED
  BY <1>1, <1>2, <1>3, <1>4, <1>5, <1>6, <1>7, <1>8, <1>9, <1>10, <1>11, <1>12
  DEF Loop, Cleanup

\* The steps of the admin interface preserve the invariant.
LEMMA AdminStep ==
  ASSUME IInv, AdminRequest \/ AdminWork
  PROVE  Registration' /\ Unsignalled'
<1>1. CASE AdminRemove
  <2>1. PICK k \in admin.left :
          users' = [users EXCEPT ![k] = NoConn] /\ Fire(users[k])
    BY <1>1 DEF AdminRemove
  <2>2. k \in Key BY <2>1 DEF IInv, TypeOK, AdminStates
  <2> QED BY <1>1, <2>1, <2>2, RemoveStep DEF AdminRemove
<1>2. ASSUME UNCHANGED <<users, pc, key, disconnect>>
      PROVE  Registration' /\ Unsignalled'
  BY <1>2 DEF IInv, Registration, Unsignalled
<1> QED
  BY <1>1, <1>2
  DEF AdminRequest, AdminWork, AdminKickSession, AdminKickUser, AdminRetained,
      AdminCount, AdminStats

\* Every step preserves the inductive invariant.
LEMMA NextIInv == IInv /\ [Next]_vars => IInv'
<1> SUFFICES ASSUME IInv, [Next]_vars PROVE Registration' /\ Unsignalled'
  BY NextTypeOK DEF IInv
<1>1. CASE UNCHANGED vars
  BY <1>1 DEF vars, IInv, Registration, Unsignalled
<1>2. CASE Next
  BY <1>2, HandshakeStep, ServiceStep, AdminStep DEF Next
<1> QED BY <1>1, <1>2

\* A record and the disconnect signal of its connection always agree: whatever
\* replaces or kicks a session tells exactly the connection that owned it.
THEOREM RegistrationHolds == Spec => []Registration
<1>1. IInv => Registration BY DEF IInv
<1> QED BY <1>1, InitIInv, NextIInv, PTL DEF Spec

\* A served client that was not told to stop is visible under its conn_key.
THEOREM NoInvisibleSessionHolds == Spec => []NoInvisibleSession
<1>1. IInv => NoInvisibleSession
  BY Places DEF IInv, Registration, NoInvisibleSession, At
<1> QED BY <1>1, InitIInv, NextIInv, PTL DEF Spec

\* Two live connections never share a conn_key.
THEOREM OneLiveConnectionHolds == Spec => []OneLiveConnection
<1>1. IInv => OneLiveConnection
  BY DEF IInv, Registration, OneLiveConnection, Holds
<1> QED BY <1>1, InitIInv, NextIInv, PTL DEF Spec

----------------------------------------------------------------------------
(* The accounts of one user, while no two operations on a user have been    *)
(* under way together.                                                      *)

Solo(u) ==
  /\ \A c, d \in BusyOn(u) : c = d
  /\ AdminOn(u) => BusyOn(u) = {}

StatsBut(u, S) == \A k \in KeysOf(u) \ S : stats[k] = users[k]
Exact(u) == counts[u] = Cardinality(Present(u)) /\ StatsBut(u, {})

\* What the registry owes user u at each call of the one busy connection c:
\* the record under c's key, what the count is ahead of the sessions, and the
\* room that the limit check found.
OpAccount(c, u) ==
  /\ StatsBut(u, {key[c]})
  /\ pc[c] \in {"limit", "evict", "kick", "lastcheck", "retire"} => Exact(u)
  /\ pc[c] \in {"limit", "insert", "kickcount", "kickstats", "decrement",
                "dropstats"} => users[key[c]] = NoConn
  /\ pc[c] \in {"recount", "setcount", "regstats"} => users[key[c]] = c
  /\ pc[c] = "evict" => Cardinality(Present(u) \ {key[c]}) < MaxSessions
  /\ pc[c] = "insert" => Cardinality(Present(u)) < MaxSessions
  /\ pc[c] = "recount" => /\ iter[c].left \subseteq KeysOf(u)
                          /\ iter[c].n = Cardinality(Present(u) \ iter[c].left)
  /\ pc[c] = "setcount" => iter[c].n = Cardinality(Present(u))
  /\ pc[c] \in {"regstats", "kickstats", "dropstats"} =>
       counts[u] = Cardinality(Present(u))
  /\ pc[c] \in {"kickcount", "decrement"} =>
       counts[u] = Cardinality(Present(u)) + 1

\* The same for a command of the admin interface.
AdminAccount(u) ==
  /\ counts[u] = Cardinality(Present(u)) + IF admin.pc = "stats" THEN 0 ELSE admin.n
  /\ admin.left \subseteq KeysOf(u)
  /\ admin.pc = "session" => admin.n = 0 /\ StatsBut(u, {})
  /\ admin.n = 0 => StatsBut(u, {})
  /\ admin.pc = "retain" => /\ \A k \in KeysOf(u) \ admin.left : users[k] = NoConn
                            /\ \A k \in admin.left : stats[k] = users[k]
  /\ admin.pc \in {"count", "stats"} => /\ StatsBut(u, admin.left)
                                        /\ \A k \in admin.left : users[k] = NoConn

Account(u) ==
  /\ IsFiniteSet(Present(u)) /\ Cardinality(Present(u)) <= MaxSessions
  /\ Quiet(u) => Exact(u)
  /\ \A c \in BusyOn(u) : OpAccount(c, u)
  /\ AdminOn(u) => AdminAccount(u)

Ledger ==
  /\ \A u \in Users : IsFiniteSet(BusyOn(u))
  /\ ~overlapped => \A u \in Users : Solo(u) /\ Account(u)

\* A finite set with at most one element has no two.
LEMMA AtMostOne ==
  ASSUME NEW S, IsFiniteSet(S), Cardinality(S) <= 1, NEW c \in S, NEW d \in S
  PROVE  c = d
<1> SUFFICES ASSUME c # d PROVE FALSE OBVIOUS
<1>1. IsFiniteSet({c, d}) /\ Cardinality({c, d}) = 2
  <2>1. Cardinality({c}) = 1 /\ IsFiniteSet({c}) BY FS_Singleton
  <2>2. {c, d} = {c} \cup {d} /\ d \notin {c} OBVIOUS
  <2> QED BY <2>1, <2>2, FS_AddElement
<1>2. Cardinality({c, d}) <= Cardinality(S) BY FS_Subset
<1> QED BY <1>1, <1>2, FS_CardinalityType

\* What taking an element out of a finite set, or putting it in, does to its size.
LEMMA CardOut ==
  ASSUME NEW S, IsFiniteSet(S), NEW x
  PROVE  /\ IsFiniteSet(S \ {x}) /\ Cardinality(S) \in Nat /\ Cardinality(S \ {x}) \in Nat
         /\ x \in S => Cardinality(S \ {x}) = Cardinality(S) - 1
         /\ x \notin S => Cardinality(S \ {x}) = Cardinality(S)
<1>1. IsFiniteSet(S \ {x}) BY FS_Subset
<1>2. x \notin S => S \ {x} = S OBVIOUS
<1> QED BY <1>1, <1>2, FS_RemoveElement, FS_CardinalityType

LEMMA CardIn ==
  ASSUME NEW S, IsFiniteSet(S), NEW x
  PROVE  /\ IsFiniteSet(S \cup {x}) /\ Cardinality(S) \in Nat
         /\ Cardinality(S \cup {x}) \in Nat
         /\ x \notin S => Cardinality(S \cup {x}) = Cardinality(S) + 1
<1>1. x \in S => S \cup {x} = S OBVIOUS
<1> QED BY <1>1, FS_AddElement, FS_CardinalityType

\* Sessions of a user after a step that changes at most the record under k.
LEMMA PresentMoves ==
  ASSUME TypeOK, NEW u, NEW k \in KeysOf(u)
  PROVE  /\ users' = users => Present(u)' = Present(u)
         /\ users' = [users EXCEPT ![k] = NoConn] => Present(u)' = Present(u) \ {k}
         /\ \A c \in Conns : users' = [users EXCEPT ![k] = c] =>
              Present(u)' = Present(u) \cup {k}
BY ConstantsOK DEF TypeOK, Present, KeysOf

\* A step of a task touches nothing but its own place and recount, the record
\* and the entry under its own key, and the count of its own user.
LEMMA TaskTouches ==
  ASSUME TypeOK, NEW c \in Conns, Handshake(c) \/ Loop(c) \/ Cleanup(c)
  PROVE  /\ key' = key /\ admin' = admin
         /\ \A d \in Conns : d # c => pc'[d] = pc[d] /\ iter'[d] = iter[d]
         /\ \A k \in Key : k # key[c] => users'[k] = users[k] /\ stats'[k] = stats[k]
         /\ \A u \in Users : u # UserOf(c) => counts'[u] = counts[u]
<1> USE DEF TypeOK, Goto
<1>1. CASE Handshake(c)
  BY <1>1 DEF Handshake, AddUser, SendChallenge, RejectHandshake, Authenticate,
     CheckReconnect, CheckLimit, EvictOld, InsertSession, RecountVisit, RecountDone,
     SetCount, RegisterStats, LoadUser, SaveUser, FlushInbox, GreetClient
<1>2. CASE Loop(c)
  BY <1>2 DEF Loop, NoticeDisconnect, LeaveLoop, RelaySucceeds, RelayFails,
     KickSelf, KickCount, KickStats
<1>3. CASE Cleanup(c)
  BY <1>3 DEF Cleanup, RemoveIfCurrent, Decrement, DropStats, LastSessionCheck,
     RetireUser
<1> QED BY <1>1, <1>2, <1>3

\* The admin interface moves no task.
LEMMA AdminTouches ==
  ASSUME AdminRequest \/ AdminWork
  PROVE  pc' = pc /\ key' = key /\ iter' = iter
BY DEF AdminRequest, AdminWork, AdminKickSession, AdminKickUser, AdminRemove,
       AdminRetained, AdminCount, AdminStats

\* Only finitely many tasks are busy on a user: one starts at a time.
LEMMA BusyStaysFinite ==
  ASSUME TypeOK, [Next]_vars, NEW u \in Users, IsFiniteSet(BusyOn(u))
  PROVE  IsFiniteSet(BusyOn(u)')
<1>1. ASSUME pc' = pc, key' = key PROVE IsFiniteSet(BusyOn(u)')
  <2>1. BusyOn(u)' = BusyOn(u) BY <1>1 DEF BusyOn, Busy, UserOf
  <2> QED BY <2>1
<1>2. ASSUME NEW c \in Conns, Handshake(c) \/ Loop(c) \/ Cleanup(c)
      PROVE  IsFiniteSet(BusyOn(u)')
  <2>1. key' = key /\ \A d \in Conns : d # c => pc'[d] = pc[d]
    BY <1>2, TaskTouches
  <2>2. BusyOn(u)' \subseteq BusyOn(u) \cup {c} BY <2>1 DEF BusyOn, Busy, UserOf
  <2> QED BY <2>2, CardIn, FS_Subset
<1>3. CASE UNCHANGED vars BY <1>1, <1>3 DEF vars
<1>4. CASE Next BY <1>1, <1>2, <1>4, AdminTouches DEF Next
<1> QED BY <1>3, <1>4

\* While no overlap is recorded, each user has at most one operation under way.
LEMMA SoloNext ==
  ASSUME TypeOK, [MCNext]_<<vars, overlapped>>, NEW u \in Users,
         IsFiniteSet(BusyOn(u)), ~overlapped', ~overlapped => Solo(u)
  PROVE  ~overlapped /\ Solo(u)'
<1>1. CASE UNCHANGED <<vars, overlapped>>
  BY <1>1 DEF vars, Solo, BusyOn, Busy, UserOf, AdminOn
<1>2. CASE MCNext
  <2>1. ~overlapped /\ OneAtATime' BY <1>2 DEF MCNext
  <2>2. IsFiniteSet(BusyOn(u)') BY <1>2, BusyStaysFinite DEF MCNext
  <2>3. Cardinality(BusyOn(u)') <= 1 /\ (AdminOn(u)' => BusyOn(u)' = {})
    BY <2>1 DEF OneAtATime
  <2>4. \A c, d \in BusyOn(u)' : c = d BY <2>2, <2>3, AtMostOne
  <2> QED BY <2>1, <2>3, <2>4 DEF Solo
<1> QED BY <1>1, <1>2

\* A step that touches neither the records, entries and count of u nor any
\* operation on u leaves its accounts as they are.
LEMMA FrameAccount ==
  ASSUME TypeOK, NEW u \in Users, Account(u), key' = key,
         \A k \in KeysOf(u) : users'[k] = users[k] /\ stats'[k] = stats[k],
         counts'[u] = counts[u],
         \A d \in Conns : UserOf(d) = u =>
            /\ Busy(d)' <=> Busy(d)
            /\ Busy(d) => pc'[d] = pc[d] /\ iter'[d] = iter[d],
         AdminOn(u)' <=> AdminOn(u),
         AdminOn(u) => admin' = admin
  PROVE  Account(u)'
<1>1. Present(u)' = Present(u) BY DEF Present, KeysOf
<1>2. BusyOn(u)' = BusyOn(u) BY DEF BusyOn, UserOf
<1>3. Quiet(u)' <=> Quiet(u) BY <1>2 DEF Quiet
<1>4. \A S : StatsBut(u, S)' <=> StatsBut(u, S) BY DEF StatsBut, KeysOf
<1>5. Exact(u)' <=> Exact(u) BY <1>1, <1>4 DEF Exact
<1>6. ASSUME NEW c \in BusyOn(u) PROVE OpAccount(c, u)'
  <2>1. OpAccount(c, u) BY <1>6 DEF Account
  <2>2. c \in Conns /\ pc'[c] = pc[c] /\ iter'[c] = iter[c] /\ key'[c] = key[c]
    BY <1>6 DEF BusyOn
  <2>3. users'[key'[c]] = users[key[c]]
    BY <1>6 DEF BusyOn, UserOf, KeysOf, TypeOK
  <2>4. StatsBut(u, {key[c]})' BY <1>4, <2>1, <2>2 DEF OpAccount
  <2> QED BY <1>1, <1>5, <2>1, <2>2, <2>3, <2>4 DEF OpAccount, KeysOf
<1>7. ASSUME AdminOn(u) PROVE AdminAccount(u)'
  <2>1. AdminAccount(u) /\ admin' = admin BY <1>7 DEF Account
  <2>2. admin.left \subseteq KeysOf(u) BY <2>1 DEF AdminAccount
  <2>3. StatsBut(u, {})' <=> StatsBut(u, {}) BY <1>4
  <2>4. StatsBut(u, admin.left)' <=> StatsBut(u, admin.left)
    BY <2>1 DEF StatsBut, KeysOf
  <2> QED BY <1>1, <2>1, <2>2, <2>3, <2>4 DEF AdminAccount, KeysOf
<1> QED BY <1>1, <1>2, <1>3, <1>5, <1>6, <1>7 DEF Account

----------------------------------------------------------------------------
\* Nobody but c works on the user of c.
Lone(c) ==
  /\ \A d \in Conns : Busy(d) /\ UserOf(d) = UserOf(c) => d = c
  /\ ~AdminOn(UserOf(c))

\* What the accounts say when at most c works on its user.
LEMMA LoneAccount ==
  ASSUME NEW c \in Conns, Account(UserOf(c)), Lone(c)
  PROVE  /\ Busy(c) => OpAccount(c, UserOf(c))
         /\ ~Busy(c) => Exact(UserOf(c))
         /\ IsFiniteSet(Present(UserOf(c)))
         /\ Cardinality(Present(UserOf(c))) \in Nat
         /\ Cardinality(Present(UserOf(c))) <= MaxSessions
BY FS_CardinalityType DEF Account, Lone, Quiet, BusyOn

\* The same after a step of c: this much has to be shown of it.
LEMMA LoneAccountNext ==
  ASSUME NEW c \in Conns, Lone(c), key' = key, admin' = admin,
         \A d \in Conns : d # c => pc'[d] = pc[d],
         NEW u, u = UserOf(c),
         IsFiniteSet(Present(u)'), Cardinality(Present(u)') <= MaxSessions,
         Busy(c)' => OpAccount(c, u)',
         ~Busy(c)' => Exact(u)'
  PROVE  Account(u)'
<1>1. \A d \in BusyOn(u)' : d = c BY DEF Lone, BusyOn, Busy, UserOf
<1>2. Quiet(u)' => ~Busy(c)' BY DEF Quiet, BusyOn, UserOf
<1>3. ~AdminOn(u)' BY DEF Lone, AdminOn
<1>4. \A d \in BusyOn(u)' : Busy(d)' BY DEF BusyOn
<1> QED BY <1>1, <1>2, <1>3, <1>4 DEF Account

\* The facts every step of the one operation on a user starts from: k is the
\* key of c and u its user.
LEMMA LoneFacts ==
  ASSUME TypeOK, NEW c \in Conns, Handshake(c) \/ Loop(c) \/ Cleanup(c),
         NEW u, u = UserOf(c), NEW k, k = key[c], Account(u), Lone(c)
  PROVE  /\ k \in KeysOf(u) /\ k \in Key /\ u \in Users /\ c # NoConn
         /\ IsFiniteSet(Present(u)) /\ Cardinality(Present(u)) \in Nat
         /\ Cardinality(Present(u)) <= MaxSessions /\ MaxSessions \in Nat
         /\ Busy(c) => OpAccount(c, u)
         /\ ~Busy(c) => Exact(u)
         /\ pc[c] \in Pcs /\ iter[c].left \in SUBSET Key /\ iter[c].n \in Nat
         /\ key' = key /\ admin' = admin /\ key'[c] = k
         /\ \A d \in Conns : d # c => pc'[d] = pc[d] /\ iter'[d] = iter[d]
         /\ users' = users => Present(u)' = Present(u)
         /\ users' = [users EXCEPT ![k] = NoConn] => Present(u)' = Present(u) \ {k}
         /\ users' = [users EXCEPT ![k] = c] => Present(u)' = Present(u) \cup {k}
         /\ \A S : users' = users /\ stats' = stats =>
              (StatsBut(u, S)' <=> StatsBut(u, S))
         /\ \A p : Goto(c, p) => pc'[c] = p
         /\ StatsBut(u, {}) => StatsBut(u, {k})
<1>1. /\ k \in KeysOf(u) /\ k \in Key /\ u \in Users /\ c # NoConn
      /\ MaxSessions \in Nat
      /\ pc[c] \in Pcs /\ iter[c].left \in SUBSET Key /\ iter[c].n \in Nat
      /\ k \in Present(u) <=> users[k] # NoConn
  BY ConstantsOK DEF TypeOK, UserOf, KeysOf, Key, Present
<1>2. /\ users' = users => Present(u)' = Present(u)
      /\ users' = [users EXCEPT ![k] = NoConn] => Present(u)' = Present(u) \ {k}
      /\ users' = [users EXCEPT ![k] = c] => Present(u)' = Present(u) \cup {k}
  BY <1>1, PresentMoves
<1>3. \A S : users' = users /\ stats' = stats => (StatsBut(u, S)' <=> StatsBut(u, S))
  BY DEF StatsBut, KeysOf
<1>4. \A p : Goto(c, p) => pc'[c] = p BY DEF Goto, TypeOK
<1>5. StatsBut(u, {}) => StatsBut(u, {k}) BY DEF StatsBut
<1>6. key' = key /\ admin' = admin /\ key'[c] = k
      /\ \A d \in Conns : d # c => pc'[d] = pc[d] /\ iter'[d] = iter[d]
  BY TaskTouches
<1> QED BY <1>1, <1>2, <1>3, <1>4, <1>5, <1>6, LoneAccount

\* The calls of add_user keep the accounts of the user.
LEMMA AddUserAccount ==
  ASSUME TypeOK, NEW c \in Conns, AddUser(c), NEW u, u = UserOf(c),
         Account(u), Lone(c)
  PROVE  Account(u)'
<1>1. PICK k \in Key : k = key[c] BY DEF TypeOK
<1>2. Handshake(c) BY DEF Handshake
<1>3. k \in Present(u) <=> users[k] # NoConn
  BY <1>1 DEF Present, KeysOf, UserOf
<1>4. /\ k \in KeysOf(u) /\ k \in Key /\ u \in Users /\ c # NoConn
      /\ IsFiniteSet(Present(u)) /\ Cardinality(Present(u)) \in Nat
      /\ Cardinality(Present(u)) <= MaxSessions /\ MaxSessions \in Nat
      /\ Busy(c) => OpAccount(c, u)
      /\ ~Busy(c) => Exact(u)
      /\ pc[c] \in Pcs /\ iter[c].left \in SUBSET Key /\ iter[c].n \in Nat
      /\ k \in Present(u) <=> users[k] # NoConn
  BY <1>1, <1>2, <1>3, LoneFacts
<1>5. /\ key' = key /\ admin' = admin
      /\ \A d \in Conns : d # c => pc'[d] = pc[d] /\ iter'[d] = iter[d]
  BY <1>1, <1>2, LoneFacts
<1>6. /\ users' = users => Present(u)' = Present(u)
      /\ users' = [users EXCEPT ![k] = NoConn] => Present(u)' = Present(u) \ {k}
      /\ users' = [users EXCEPT ![k] = c] => Present(u)' = Present(u) \cup {k}
  BY <1>1, <1>2, LoneFacts
<1>7. \A S : users' = users /\ stats' = stats => (StatsBut(u, S)' <=> StatsBut(u, S))
  BY <1>1, <1>2, LoneFacts
<1>8. \A p : Goto(c, p) => pc'[c] = p BY <1>1, <1>2, LoneFacts
<1>9. StatsBut(u, {}) => StatsBut(u, {k}) BY <1>1, <1>2, LoneFacts
<1>10. CASE CheckReconnect(c)
  <2>1. /\ pc[c] = "known" /\ UNCHANGED <<users, counts, stats, iter>>
        /\ pc'[c] = IF users[k] # NoConn THEN "evict" ELSE "limit"
    BY <1>10, <1>8, <1>1 DEF CheckReconnect, At
  <2>2. Exact(u) BY <1>4, <2>1 DEF Busy
  <2>3. Exact(u)' BY <2>1, <2>2, <1>6, <1>7 DEF Exact
  <2>4. StatsBut(u, {k})' BY <2>2, <2>1, <1>7, <1>9 DEF Exact
  <2>5. users[k] # NoConn => Cardinality(Present(u) \ {k}) < MaxSessions
    <3>1. k \in Present(u) => Cardinality(Present(u) \ {k}) = Cardinality(Present(u)) - 1
      BY <1>4, CardOut
    <3> QED BY <1>4, <3>1
  <2>6. OpAccount(c, u)'
    BY <2>1, <2>3, <2>4, <2>5, <1>5, <1>6, <1>1 DEF OpAccount
  <2>7. Busy(c)' BY <2>1 DEF Busy
  <2> QED BY <2>1, <2>6, <2>7, <1>4, <1>5, <1>6, LoneAccountNext
<1>11. CASE CheckLimit(c)
  <2>1. /\ pc[c] = "limit" /\ UNCHANGED <<users, counts, stats, iter>>
        /\ pc'[c] = IF counts[u] >= MaxSessions THEN "closed" ELSE "evict"
    BY <1>11, <1>8 DEF CheckLimit, At
  <2>2. Exact(u) /\ users[k] = NoConn BY <1>4, <1>1, <2>1 DEF Busy, OpAccount
  <2>3. Exact(u)' BY <2>1, <2>2, <1>6, <1>7 DEF Exact
  <2>4. StatsBut(u, {k})' BY <2>2, <2>1, <1>7, <1>9 DEF Exact
  <2>5. pc'[c] = "evict" => Cardinality(Present(u) \ {k}) < MaxSessions
    BY <1>4, <2>1, <2>2, CardOut DEF Exact
  <2>6. Busy(c)' => OpAccount(c, u)'
    BY <2>1, <2>3, <2>4, <2>5, <1>5, <1>6, <1>1 DEF OpAccount, Busy
  <2> QED BY <2>1, <2>3, <2>6, <1>4, <1>5, <1>6, LoneAccountNext
<1>12. CASE EvictOld(c)
  <2>1. /\ pc[c] = "evict" /\ UNCHANGED <<counts, stats, iter>>
        /\ users' = [users EXCEPT ![k] = NoConn] /\ pc'[c] = "insert"
    BY <1>12, <1>8, <1>1 DEF EvictOld, At
  <2>2. StatsBut(u, {k}) /\ Cardinality(Present(u) \ {k}) < MaxSessions
    BY <1>4, <1>1, <2>1 DEF Busy, OpAccount
  <2>3. StatsBut(u, {k})' /\ users'[k] = NoConn
    BY <2>1, <2>2, <1>4 DEF StatsBut, KeysOf, TypeOK
  <2>4. OpAccount(c, u)' BY <2>1, <2>2, <2>3, <1>5, <1>6, <1>1 DEF OpAccount
  <2>5. IsFiniteSet(Present(u)') /\ Cardinality(Present(u)') <= MaxSessions
    BY <2>1, <2>2, <1>4, <1>6, CardOut
  <2>6. Busy(c)' BY <2>1 DEF Busy
  <2> QED BY <2>4, <2>5, <2>6, <1>5, LoneAccountNext
<1>13. CASE InsertSession(c)
  <2>1. /\ pc[c] = "insert" /\ UNCHANGED <<counts, stats>>
        /\ users' = [users EXCEPT ![k] = c] /\ pc'[c] = "recount"
        /\ iter'[c] = [left |-> KeysOf(u), n |-> 0]
    BY <1>13, <1>8, <1>1 DEF InsertSession, At, TypeOK
  <2>2. /\ StatsBut(u, {k}) /\ users[k] = NoConn
        /\ Cardinality(Present(u)) < MaxSessions
    BY <1>4, <1>1, <2>1 DEF Busy, OpAccount
  <2>3. StatsBut(u, {k})' /\ users'[k] = c
    BY <2>1, <2>2, <1>4 DEF StatsBut, KeysOf, TypeOK
  <2>4. IsFiniteSet(Present(u)') /\ Cardinality(Present(u)') <= MaxSessions
    BY <2>1, <2>2, <1>4, <1>6, CardIn
  <2>5. /\ iter'[c].left = KeysOf(u) /\ iter'[c].n = 0
        /\ Cardinality(Present(u)' \ KeysOf(u)) = 0
    <3>1. Present(u)' \ KeysOf(u) = {} BY DEF Present, KeysOf
    <3> QED BY <2>1, <3>1, FS_EmptySet DEF KeysOf
  <2>6. OpAccount(c, u)' BY <2>1, <2>3, <2>5, <1>5, <1>1 DEF OpAccount
  <2>7. Busy(c)' BY <2>1 DEF Busy
  <2> QED BY <2>4, <2>6, <2>7, <1>5, LoneAccountNext
<1>14. CASE RecountVisit(c)
  <2>1. pc[c] = "recount" /\ UNCHANGED <<users, counts, stats, pc>>
    BY <1>14 DEF RecountVisit, At
  <2>2. PICK j \in iter[c].left :
          iter'[c] = [left |-> iter[c].left \ {j},
                      n |-> IF users[j] # NoConn THEN iter[c].n + 1 ELSE iter[c].n]
    BY <1>14 DEF RecountVisit, TypeOK
  <2>3. /\ StatsBut(u, {k}) /\ users[k] = c /\ iter[c].left \subseteq KeysOf(u)
        /\ iter[c].n = Cardinality(Present(u) \ iter[c].left)
    BY <1>4, <1>1, <2>1 DEF Busy, OpAccount
  <2>4. iter'[c].n = Cardinality(Present(u) \ iter'[c].left)
    <3> DEFINE A == Present(u) \ iter[c].left
               B == Present(u) \ iter'[c].left
    <3>1. IsFiniteSet(A) /\ j \notin A BY <1>4, <2>2, FS_Subset
    <3>2. users[j] # NoConn => B = A \cup {j}
      BY <2>2, <2>3 DEF Present
    <3>3. users[j] = NoConn => B = A BY <2>2 DEF Present
    <3>4. Cardinality(A \cup {j}) = Cardinality(A) + 1 BY <3>1, CardIn
    <3> HIDE DEF A, B
    <3>5. iter'[c].n = Cardinality(B)
      <4>1. iter[c].n = Cardinality(A) BY <2>3 DEF A
      <4> QED BY <4>1, <2>2, <3>2, <3>3, <3>4
    <3> QED BY <3>5 DEF B
  <2>5. iter'[c].left \subseteq KeysOf(u) BY <2>2, <2>3
  <2>6. StatsBut(u, {k})' BY <2>1, <2>3, <1>7
  <2>7. OpAccount(c, u)'
    BY <2>1, <2>3, <2>4, <2>5, <2>6, <1>5, <1>6, <1>1 DEF OpAccount, KeysOf
  <2>8. Busy(c)' BY <2>1 DEF Busy
  <2> QED BY <2>1, <2>7, <2>8, <1>4, <1>5, <1>6, LoneAccountNext
<1>15. CASE RecountDone(c)
  <2>1. /\ pc[c] = "recount" /\ UNCHANGED <<users, counts, stats, iter>>
        /\ pc'[c] = "setcount" /\ iter[c].left = {}
    BY <1>15, <1>8 DEF RecountDone, At
  <2>2. /\ StatsBut(u, {k}) /\ users[k] = c
        /\ iter[c].n = Cardinality(Present(u) \ iter[c].left)
    BY <1>4, <1>1, <2>1 DEF Busy, OpAccount
  <2>3. Present(u) \ iter[c].left = Present(u) BY <2>1
  <2>4. StatsBut(u, {k})' BY <2>1, <2>2, <1>7
  <2>5. OpAccount(c, u)'
    BY <2>1, <2>2, <2>3, <2>4, <1>5, <1>6, <1>1 DEF OpAccount
  <2>6. Busy(c)' BY <2>1 DEF Busy
  <2> QED BY <2>1, <2>5, <2>6, <1>4, <1>5, <1>6, LoneAccountNext
<1>16. CASE SetCount(c)
  <2>1. /\ pc[c] = "setcount" /\ UNCHANGED <<users, stats>>
        /\ counts'[u] = iter[c].n /\ pc'[c] = "regstats"
    BY <1>16, <1>4, <1>8 DEF SetCount, At, TypeOK
  <2>2. /\ StatsBut(u, {k}) /\ users[k] = c
        /\ iter[c].n = Cardinality(Present(u))
    BY <1>4, <1>1, <2>1 DEF Busy, OpAccount
  <2>3. StatsBut(u, {k})' BY <2>1, <2>2, <1>7
  <2>4. OpAccount(c, u)'
    BY <2>1, <2>2, <2>3, <1>5, <1>6, <1>1 DEF OpAccount
  <2>5. Busy(c)' BY <2>1 DEF Busy
  <2> QED BY <2>1, <2>4, <2>5, <1>4, <1>5, <1>6, LoneAccountNext
<1> QED
  BY <1>10, <1>11, <1>12, <1>13, <1>14, <1>15, <1>16 DEF AddUser

\* register_session keeps them: the entry of c's key is c's own again.
LEMMA RegisterAccount ==
  ASSUME TypeOK, NEW c \in Conns, RegisterStats(c), NEW u, u = UserOf(c),
         Account(u), Lone(c)
  PROVE  Account(u)'
<1>1. PICK k \in Key : k = key[c] BY DEF TypeOK
<1>2. Handshake(c) BY DEF Handshake
<1>3. /\ pc[c] = "regstats" /\ UNCHANGED <<users, counts, iter>>
      /\ stats' = [stats EXCEPT ![k] = c] /\ pc'[c] = "loaduser"
  BY <1>1, <1>2, LoneFacts DEF RegisterStats, At
<1>4. /\ StatsBut(u, {k}) /\ users[k] = c /\ counts[u] = Cardinality(Present(u))
  <2>1. OpAccount(c, u) BY <1>1, <1>2, <1>3, LoneFacts DEF Busy
  <2> QED BY <2>1, <1>1, <1>3 DEF OpAccount
<1>5. StatsBut(u, {})' BY <1>3, <1>4 DEF StatsBut, KeysOf, TypeOK
<1>6. Present(u)' = Present(u) /\ IsFiniteSet(Present(u))
      /\ Cardinality(Present(u)) <= MaxSessions
  BY <1>1, <1>2, <1>3, LoneFacts
<1>7. Exact(u)' BY <1>3, <1>4, <1>5, <1>6 DEF Exact
<1>8. ~Busy(c)' BY <1>3 DEF Busy
<1> QED BY <1>6, <1>7, <1>8, <1>2, TaskTouches, LoneAccountNext

\* Taking c's record out of the registry leaves the count one ahead: kick and
\* cleanup alike.
LEMMA RemovalAccount ==
  ASSUME TypeOK, NEW c \in Conns, Loop(c) \/ Cleanup(c), NEW u, u = UserOf(c),
         Account(u), Lone(c), NEW k \in Key, k = key[c],
         users[k] # NoConn, Exact(u), Goto(c, "kickcount") \/ Goto(c, "decrement"),
         users' = [users EXCEPT ![k] = NoConn], counts' = counts, stats' = stats
  PROVE  Account(u)'
<1>0. k \in Present(u) BY DEF Present, KeysOf, UserOf
<1>1. /\ k \in KeysOf(u) /\ IsFiniteSet(Present(u)) /\ k \in Present(u)
      /\ Present(u)' = Present(u) \ {k} /\ Cardinality(Present(u)) <= MaxSessions
      /\ MaxSessions \in Nat /\ key'[c] = k
      /\ pc'[c] \in {"kickcount", "decrement"}
  BY <1>0, LoneFacts
<1>2. /\ Cardinality(Present(u)') = Cardinality(Present(u)) - 1
      /\ IsFiniteSet(Present(u)') /\ Cardinality(Present(u)) \in Nat
  BY <1>1, CardOut
<1>3. StatsBut(u, {k})' /\ users'[k] = NoConn
  BY DEF Exact, StatsBut, KeysOf, TypeOK
<1>4. counts'[u] = Cardinality(Present(u)') + 1 BY <1>2 DEF Exact
<1>5. OpAccount(c, u)'
  <2>1. StatsBut(u, {key[c]})' /\ users'[key'[c]] = NoConn BY <1>1, <1>3
  <2> QED BY <2>1, <1>1, <1>4 DEF OpAccount
<1>6. Cardinality(Present(u)') <= MaxSessions BY <1>1, <1>2
<1>7. Busy(c)' BY <1>1 DEF Busy
<1> QED BY <1>2, <1>5, <1>6, <1>7, TaskTouches, LoneAccountNext

\* The subtraction that follows a removal settles the count.
LEMMA SettleAccount ==
  ASSUME TypeOK, NEW c \in Conns, Loop(c) \/ Cleanup(c), NEW u, u = UserOf(c),
         Account(u), Lone(c), pc[c] \in {"kickcount", "decrement"},
         Goto(c, "kickstats") \/ Goto(c, "dropstats"),
         counts' = [counts EXCEPT ![u] = SaturatingSub(@, 1)],
         users' = users, stats' = stats
  PROVE  Account(u)'
<1>1. PICK k \in Key : k = key[c] BY DEF TypeOK
<1>2. /\ IsFiniteSet(Present(u)) /\ Present(u)' = Present(u) /\ u \in Users
      /\ Cardinality(Present(u)) <= MaxSessions /\ Cardinality(Present(u)) \in Nat
      /\ OpAccount(c, u) /\ key'[c] = k
      /\ pc'[c] \in {"kickstats", "dropstats"}
      /\ StatsBut(u, {k})' <=> StatsBut(u, {k})
  BY <1>1, LoneFacts DEF Busy
<1>3. /\ counts[u] = Cardinality(Present(u)) + 1 /\ users[k] = NoConn
      /\ StatsBut(u, {k})
  BY <1>1, <1>2 DEF OpAccount
<1>4. counts'[u] = Cardinality(Present(u)')
  BY <1>2, <1>3 DEF SaturatingSub, TypeOK
<1>5. OpAccount(c, u)'
  <2>1. StatsBut(u, {key[c]})' /\ users'[key'[c]] = NoConn BY <1>2, <1>3
  <2> QED BY <2>1, <1>2, <1>4 DEF OpAccount
<1>6. Busy(c)' BY <1>2 DEF Busy
<1> QED BY <1>2, <1>5, <1>6, TaskTouches, LoneAccountNext

\* Dropping the entry of the removed session settles the statistics.
LEMMA DropAccount ==
  ASSUME TypeOK, NEW c \in Conns, KickStats(c) \/ DropStats(c), NEW u, u = UserOf(c),
         Account(u), Lone(c)
  PROVE  Account(u)'
<1>1. PICK k \in Key : k = key[c] BY DEF TypeOK
<1>2. Loop(c) \/ Cleanup(c) BY DEF Loop, Cleanup
<1>3. /\ pc[c] \in {"kickstats", "dropstats"} /\ pc'[c] \in {"remove", "lastcheck"}
      /\ UNCHANGED <<users, counts>> /\ stats' = [stats EXCEPT ![k] = NoConn]
      /\ key'[c] = k
  BY <1>1, <1>2, LoneFacts DEF KickStats, DropStats, At
<1>4. /\ StatsBut(u, {k}) /\ users[k] = NoConn
      /\ counts[u] = Cardinality(Present(u))
  <2>1. OpAccount(c, u) BY <1>1, <1>2, <1>3, LoneFacts DEF Busy
  <2> QED BY <2>1, <1>1, <1>3 DEF OpAccount
<1>5. StatsBut(u, {})' /\ StatsBut(u, {k})'
  BY <1>3, <1>4 DEF StatsBut, KeysOf, TypeOK
<1>6. Present(u)' = Present(u) /\ IsFiniteSet(Present(u))
      /\ Cardinality(Present(u)) <= MaxSessions
  BY <1>1, <1>2, <1>3, LoneFacts
<1>7. Exact(u)' BY <1>3, <1>4, <1>5, <1>6 DEF Exact
<1>8. Busy(c)' => OpAccount(c, u)'
  <2>1. StatsBut(u, {key[c]})' BY <1>3, <1>5
  <2> QED BY <2>1, <1>3, <1>7 DEF Busy, OpAccount
<1> QED BY <1>6, <1>7, <1>8, <1>2, TaskTouches, LoneAccountNext

\* A step that only moves c to another place where the accounts are exact.
LEMMA ExactAccount ==
  ASSUME TypeOK, NEW c \in Conns, Loop(c) \/ Cleanup(c), NEW u, u = UserOf(c),
         Account(u), Lone(c), Exact(u), NEW p, Goto(c, p),
         p \in {"loop", "kick", "lastcheck", "retire", "closed", "remove"},
         users' = users, stats' = stats, counts' = counts
  PROVE  Account(u)'
<1>1. PICK k \in Key : k = key[c] BY DEF TypeOK
<1>2. /\ IsFiniteSet(Present(u)) /\ Present(u)' = Present(u)
      /\ Cardinality(Present(u)) <= MaxSessions /\ key'[c] = k /\ pc'[c] = p
      /\ StatsBut(u, {k})' <=> StatsBut(u, {k})
      /\ StatsBut(u, {})' <=> StatsBut(u, {})
      /\ StatsBut(u, {}) => StatsBut(u, {k})
  BY <1>1, LoneFacts
<1>3. Exact(u)' BY <1>2 DEF Exact
<1>4. StatsBut(u, {key[c]})' BY <1>2 DEF Exact
<1>5. Busy(c)' => OpAccount(c, u)' BY <1>2, <1>3, <1>4 DEF Busy, OpAccount
<1> QED BY <1>2, <1>3, <1>5, TaskTouches, LoneAccountNext

\* The steps of the loop and of the cleanup keep the accounts of the user.
LEMMA ServiceAccount ==
  ASSUME TypeOK, NEW c \in Conns, Loop(c) \/ Cleanup(c), NEW u, u = UserOf(c),
         Account(u), Lone(c)
  PROVE  Account(u)'
<1>0. PICK k \in Key : k = key[c] BY DEF TypeOK
<1>1. /\ pc[c] \in {"loop", "kick", "remove", "lastcheck", "retire"} => Exact(u)
      /\ \A p : Goto(c, p) => pc'[c] = p
  <2>1. /\ Busy(c) => OpAccount(c, u)
        /\ ~Busy(c) => Exact(u)
        /\ \A p : Goto(c, p) => pc'[c] = p
    BY <1>0, LoneFacts
  <2> QED BY <2>1 DEF Busy, OpAccount
<1> USE DEF At
<1>2. CASE NoticeDisconnect(c) BY <1>1, <1>2, ExactAccount DEF NoticeDisconnect
<1>3. CASE LeaveLoop(c) BY <1>1, <1>3, ExactAccount DEF LeaveLoop
<1>4. CASE RelaySucceeds(c)
  <2>1. Goto(c, "loop") BY <1>4 DEF RelaySucceeds, Goto, TypeOK
  <2> QED BY <1>1, <1>4, <2>1, ExactAccount DEF RelaySucceeds
<1>5. CASE RelayFails(c)
  <2>1. Goto(c, "loop") \/ Goto(c, "kick") BY <1>5 DEF RelayFails, Goto
  <2> QED BY <1>1, <1>5, <2>1, ExactAccount DEF RelayFails
<1>6. CASE KickSelf(c)
  <2>1. CASE users[k] = NoConn
    <3>1. users' = users /\ Goto(c, "remove")
      BY <1>0, <1>6, <2>1 DEF KickSelf, TypeOK
    <3> QED BY <1>1, <1>6, <3>1, ExactAccount DEF KickSelf
  <2>2. CASE users[k] # NoConn
    BY <1>0, <1>1, <1>6, <2>2, RemovalAccount DEF KickSelf
  <2> QED BY <2>1, <2>2
<1>7. CASE KickCount(c) BY <1>7, SettleAccount DEF KickCount
<1>8. CASE KickStats(c) BY <1>8, DropAccount
<1>9. CASE RemoveIfCurrent(c)
  <2>1. CASE users[k] = c
    <3>1. users[k] # NoConn BY <2>1, ConstantsOK
    <3> QED BY <1>0, <1>1, <1>9, <2>1, <3>1, RemovalAccount DEF RemoveIfCurrent
  <2>2. CASE users[k] # c
    BY <1>0, <1>1, <1>9, <2>2, ExactAccount DEF RemoveIfCurrent
  <2> QED BY <2>1, <2>2
<1>10. CASE Decrement(c) BY <1>10, SettleAccount DEF Decrement
<1>11. CASE DropStats(c) BY <1>11, DropAccount
<1>12. CASE LastSessionCheck(c) BY <1>1, <1>12, ExactAccount DEF LastSessionCheck
<1>13. CASE RetireUser(c) BY <1>1, <1>13, ExactAccount DEF RetireUser
<1> QED
  BY <1>2, <1>3, <1>4, <1>5, <1>6, <1>7, <1>8, <1>9, <1>10, <1>11, <1>12, <1>13
  DEF Loop, Cleanup

----------------------------------------------------------------------------
\* What has to be shown of a step of the admin interface that is working, or
\* starts to work, on u.
LEMMA AdminAccountNext ==
  ASSUME NEW u, BusyOn(u) = {}, pc' = pc, key' = key,
         IsFiniteSet(Present(u)'), Cardinality(Present(u)') <= MaxSessions,
         AdminOn(u)' => AdminAccount(u)',
         ~AdminOn(u)' => Exact(u)'
  PROVE  Account(u)'
<1>1. BusyOn(u)' = {} BY DEF BusyOn, Busy, UserOf
<1> QED BY <1>1 DEF Account, Quiet

\* Before a command starts, the accounts of its user are exact.
LEMMA AdminRequestAccount ==
  ASSUME TypeOK, AdminRequest, NEW u \in Users, Account(u), Solo(u)'
  PROVE  Account(u)'
<1>1. PICK w, l, p :
        /\ admin.pc = "idle"
        /\ admin' = [pc |-> p, user |-> w, left |-> l, n |-> 0, ops |-> admin.ops + 1]
        /\ l \subseteq KeysOf(w) /\ p \in {"session", "retain"}
        /\ p = "retain" => l = KeysOf(w)
        /\ UNCHANGED <<users, fails, counts, stats, pc, key, disconnect, iter>>
  <2>1. ASSUME NEW k \in Key, AdminKickSession(k)
        PROVE  admin' = [pc |-> "session", user |-> k[1], left |-> {k}, n |-> 0,
                         ops |-> admin.ops + 1] /\ {k} \subseteq KeysOf(k[1])
    BY <2>1 DEF AdminKickSession, KeysOf
  <2>2. CASE \E k \in Key : AdminKickSession(k)
    <3>1. PICK k \in Key : AdminKickSession(k) BY <2>2
    <3>2. admin' = [pc |-> "session", user |-> k[1], left |-> {k}, n |-> 0,
                    ops |-> admin.ops + 1] /\ {k} \subseteq KeysOf(k[1])
      BY <2>1, <3>1
    <3> WITNESS k[1], {k}, "session"
    <3> QED BY <3>1, <3>2 DEF AdminKickSession
  <2>3. CASE \E v \in Users : AdminKickUser(v)
    BY <2>3 DEF AdminKickUser
  <2> QED BY <2>2, <2>3 DEF AdminRequest
<1>2. ~AdminOn(u) BY <1>1 DEF AdminOn
<1>3. CASE w # u
  <2>1. ~AdminOn(u)' BY <1>1, <1>3 DEF AdminOn
  <2>2. \A d \in Conns : Busy(d)' <=> Busy(d) BY <1>1 DEF Busy
  <2> QED BY <1>1, <1>2, <2>1, <2>2, FrameAccount
<1>4. CASE w = u
  <2>1. AdminOn(u)' BY <1>1, <1>4 DEF AdminOn
  <2>2. BusyOn(u)' = BusyOn(u) BY <1>1 DEF BusyOn, Busy, UserOf
  <2>3. BusyOn(u) = {} /\ Exact(u)
    BY <1>2, <2>1, <2>2 DEF Solo, Account, Quiet
  <2>4. Present(u)' = Present(u) /\ IsFiniteSet(Present(u))
        /\ Cardinality(Present(u)) <= MaxSessions /\ Cardinality(Present(u)) \in Nat
    BY <1>1, FS_CardinalityType DEF Present, KeysOf, Account
  <2>5. StatsBut(u, {})' BY <1>1, <2>3 DEF Exact, StatsBut, KeysOf
  <2>6. counts'[u] = Cardinality(Present(u)')
    BY <1>1, <2>3, <2>4 DEF Exact
  <2>7. AdminAccount(u)'
    <3>1. admin'.pc = p /\ admin'.left = l /\ admin'.n = 0 BY <1>1
    <3>2. l \subseteq KeysOf(u) /\ (p = "retain" => l = KeysOf(u))
      BY <1>1, <1>4
    <3>3. \A k \in KeysOf(u) : stats'[k] = users'[k] BY <2>5 DEF StatsBut
    <3>4. counts'[u] = Cardinality(Present(u)') + 0 BY <2>4, <2>6
    <3>5. p # "stats" /\ p # "count" BY <1>1
    <3> QED BY <2>5, <3>1, <3>2, <3>3, <3>4, <3>5 DEF AdminAccount, KeysOf
  <2> QED BY <1>1, <2>1, <2>3, <2>4, <2>7, AdminAccountNext
<1> QED BY <1>3, <1>4

\* The calls of a running command keep the accounts of its user.
LEMMA AdminTargetAccount ==
  ASSUME TypeOK, AdminWork, NEW u \in Users, Account(u), Solo(u), AdminOn(u)
  PROVE  Account(u)'
<1>1. /\ BusyOn(u) = {} /\ AdminAccount(u) /\ admin.user = u
      /\ IsFiniteSet(Present(u)) /\ Cardinality(Present(u)) <= MaxSessions
      /\ Cardinality(Present(u)) \in Nat /\ MaxSessions \in Nat
      /\ admin.n \in Nat /\ admin.ops \in Nat /\ admin.left \subseteq KeysOf(u)
  BY FS_CardinalityType, ConstantsOK
  DEF Solo, Account, AdminOn, AdminAccount, TypeOK, AdminStates
<1>2. pc' = pc /\ key' = key BY AdminTouches
<1>3. CASE AdminRemove
  <2>1. PICK k \in admin.left :
          /\ users' = [users EXCEPT ![k] = NoConn]
          /\ admin' = [pc |-> IF admin.pc = "session" THEN "count" ELSE "retain",
                       user |-> admin.user,
                       left |-> IF admin.pc = "session" THEN {k} ELSE admin.left \ {k},
                       n |-> IF users[k] # NoConn THEN admin.n + 1 ELSE admin.n,
                       ops |-> admin.ops]
    BY <1>3 DEF AdminRemove
  <2>2. admin.pc \in {"session", "retain"} /\ counts' = counts /\ stats' = stats
    BY <1>3 DEF AdminRemove
  <2>3. k \in KeysOf(u) /\ k \in Key BY <1>1 DEF KeysOf
  <2>4. Present(u)' = Present(u) \ {k} BY <2>1, <2>3, PresentMoves
  <2>5. k \in Present(u) <=> users[k] # NoConn BY <2>3 DEF Present
  <2>6. /\ IsFiniteSet(Present(u)') /\ Cardinality(Present(u)') \in Nat
        /\ users[k] # NoConn => Cardinality(Present(u)') = Cardinality(Present(u)) - 1
        /\ users[k] = NoConn => Cardinality(Present(u)') = Cardinality(Present(u))
    BY <1>1, <2>4, <2>5, CardOut
  <2>7. counts[u] = Cardinality(Present(u)) + admin.n
    BY <1>1, <2>2 DEF AdminAccount
  <2>8. admin'.pc # "stats" /\ counts'[u] = Cardinality(Present(u)') + admin'.n
    BY <1>1, <2>1, <2>2, <2>6, <2>7
  <2>9. counts'[u] = Cardinality(Present(u)')
                     + IF admin'.pc = "stats" THEN 0 ELSE admin'.n
    BY <2>8
  <2>10. admin.left \subseteq KeysOf(u) BY <1>1
  <2>11. Cardinality(Present(u)') <= MaxSessions BY <1>1, <2>6
  <2>12. admin'.n = 0 => admin.n = 0 /\ users[k] = NoConn BY <1>1, <2>1
  <2>13. \A j \in KeysOf(u) : users'[j] = IF j = k THEN NoConn ELSE users[j]
    BY <2>1, <2>3 DEF TypeOK, KeysOf
  <2>14. admin'.n = 0 => StatsBut(u, {})'
    BY <1>1, <2>2, <2>12, <2>13 DEF AdminAccount, StatsBut, KeysOf
  <2>15. ASSUME admin.pc = "session" PROVE AdminAccount(u)'
    <3>1. admin'.pc = "count" /\ admin'.left = {k} BY <2>1, <2>15
    <3>2. StatsBut(u, {}) BY <1>1, <2>15 DEF AdminAccount
    <3>3. StatsBut(u, admin.left)' /\ \A j \in admin'.left : users'[j] = NoConn
      BY <2>2, <2>3, <2>13, <3>1, <3>2 DEF StatsBut, KeysOf
    <3>4. admin'.left \subseteq KeysOf(u) BY <2>3, <3>1
    <3>5. admin'.pc \notin {"session", "retain"} BY <3>1
    <3> QED BY <2>9, <2>14, <3>3, <3>4, <3>5 DEF AdminAccount, KeysOf
  <2>16. ASSUME admin.pc = "retain" PROVE AdminAccount(u)'
    <3>1. admin'.pc = "retain" /\ admin'.left = admin.left \ {k} BY <2>1, <2>16
    <3>2. /\ \A j \in KeysOf(u) \ admin.left : users[j] = NoConn
          /\ \A j \in admin.left : stats[j] = users[j]
      BY <1>1, <2>16 DEF AdminAccount
    <3>3. \A j \in KeysOf(u) \ admin'.left : users'[j] = NoConn
      BY <2>13, <3>1, <3>2
    <3>4. stats' = stats /\ admin'.left \subseteq KeysOf(u) BY <2>2, <2>10, <3>1
    <3>5. \A j \in admin'.left : stats'[j] = users'[j]
      BY <2>13, <3>1, <3>2, <3>4
    <3>6. admin'.pc \notin {"session", "count", "stats"} BY <3>1
    <3> QED BY <2>9, <2>14, <3>3, <3>4, <3>5, <3>6 DEF AdminAccount, KeysOf
  <2>17. AdminAccount(u)' BY <2>2, <2>15, <2>16
  <2>18. AdminOn(u)' BY <1>1, <2>1, <2>2 DEF AdminOn
  <2> QED BY <1>1, <1>2, <2>6, <2>11, <2>17, <2>18, AdminAccountNext
<1>4. ASSUME users' = users PROVE Present(u)' = Present(u)
  BY <1>4 DEF Present, KeysOf
<1>5. CASE AdminRetained
  <2>1. /\ admin.pc = "retain" /\ admin.left = {} /\ admin'.pc = "count"
        /\ admin'.left = KeysOf(u) /\ admin'.n = admin.n /\ admin'.user = u
        /\ UNCHANGED <<users, counts, stats>>
    BY <1>1, <1>5 DEF AdminRetained, TypeOK, AdminStates
  <2>2. \A k \in KeysOf(u) : users'[k] = NoConn BY <1>1, <2>1 DEF AdminAccount
  <2>3. admin'.n = 0 => StatsBut(u, {})'
    BY <1>1, <2>1 DEF AdminAccount, StatsBut, KeysOf
  <2>4. StatsBut(u, KeysOf(u))' BY DEF StatsBut, KeysOf
  <2>5. AdminAccount(u)'
    <3>1. counts[u] = Cardinality(Present(u)) + admin.n
      BY <1>1, <2>1 DEF AdminAccount
    <3>2. counts'[u] = Cardinality(Present(u)') + admin'.n
      BY <1>4, <2>1, <3>1
    <3> QED BY <2>1, <2>2, <2>3, <2>4, <3>2 DEF AdminAccount, KeysOf
  <2>6. AdminOn(u)' BY <2>1 DEF AdminOn
  <2> QED BY <1>1, <1>2, <1>4, <2>1, <2>5, <2>6, AdminAccountNext
<1>6. CASE AdminCount
  <2>1. admin.pc = "count" /\ UNCHANGED <<users, stats>>
    BY <1>6 DEF AdminCount
  <2>2. /\ counts[u] = Cardinality(Present(u)) + admin.n
        /\ admin.n = 0 => StatsBut(u, {})
        /\ StatsBut(u, admin.left) /\ \A k \in admin.left : users[k] = NoConn
    BY <1>1, <2>1 DEF AdminAccount
  <2>3. CASE admin.n = 0
    <3>1. counts' = counts /\ admin'.pc = "idle"
      BY <1>6, <2>3 DEF AdminCount, AdminIdle
    <3>2. ~AdminOn(u)' BY <3>1 DEF AdminOn
    <3>3. StatsBut(u, {})' BY <2>1, <2>2, <2>3 DEF StatsBut, KeysOf
    <3>4. counts[u] = Cardinality(Present(u)) BY <1>1, <2>2, <2>3
    <3>5. Exact(u)' BY <1>4, <2>1, <3>1, <3>3, <3>4 DEF Exact
    <3> QED BY <1>1, <1>2, <1>4, <2>1, <3>2, <3>5, AdminAccountNext
  <2>4. CASE admin.n # 0
    <3>1. /\ counts'[u] = SaturatingSub(counts[u], admin.n)
          /\ admin'.pc = "stats" /\ admin'.left = admin.left /\ admin'.n = admin.n
          /\ admin'.user = u
      BY <1>1, <1>6, <2>4 DEF AdminCount, TypeOK, AdminStates
    <3>2. counts'[u] = Cardinality(Present(u)) + 0
      BY <1>1, <2>2, <3>1 DEF SaturatingSub
    <3>3. StatsBut(u, admin.left)' BY <2>1, <2>2, <3>1 DEF StatsBut, KeysOf
    <3>4. AdminAccount(u)'
      <4>1. counts'[u] = Cardinality(Present(u)')
                           + IF admin'.pc = "stats" THEN 0 ELSE admin'.n
        BY <1>4, <2>1, <3>1, <3>2
      <4>2. admin'.left \subseteq KeysOf(u) BY <1>1, <3>1
      <4>3. \A k \in admin'.left : users'[k] = NoConn BY <2>1, <2>2, <3>1
      <4>4. admin'.n # 0 /\ admin'.pc \notin {"session", "retain"} BY <2>4, <3>1
      <4> QED BY <3>3, <4>1, <4>2, <4>3, <4>4 DEF AdminAccount, KeysOf
    <3>5. AdminOn(u)' BY <3>1 DEF AdminOn
    <3> QED BY <1>1, <1>2, <1>4, <2>1, <3>4, <3>5, AdminAccountNext
  <2> QED BY <2>3, <2>4
<1>7. CASE AdminStats
  <2>1. /\ admin.pc = "stats" /\ UNCHANGED <<users, counts>> /\ admin'.pc = "idle"
        /\ stats' = [k \in Key |-> IF k \in admin.left THEN NoConn ELSE stats[k]]
    BY <1>7 DEF AdminStats, AdminIdle
  <2>2. /\ counts[u] = Cardinality(Present(u)) + 0
        /\ StatsBut(u, admin.left) /\ \A k \in admin.left : users[k] = NoConn
    BY <1>1, <2>1 DEF AdminAccount
  <2>3. StatsBut(u, {})' BY <2>1, <2>2 DEF StatsBut, KeysOf
  <2>4. Exact(u)' BY <1>1, <1>4, <2>1, <2>2, <2>3 DEF Exact
  <2>5. ~AdminOn(u)' BY <2>1 DEF AdminOn
  <2> QED BY <1>1, <1>2, <1>4, <2>1, <2>4, <2>5, AdminAccountNext
<1> QED BY <1>3, <1>5, <1>6, <1>7 DEF AdminWork

\* A running command leaves the accounts of the other users alone.
LEMMA AdminOtherAccount ==
  ASSUME TypeOK, AdminWork, NEW u \in Users, Account(u), ~AdminOn(u), AdminOn(admin.user),
         AdminAccount(admin.user)
  PROVE  Account(u)'
<1>1. pc' = pc /\ key' = key /\ iter' = iter BY AdminTouches
<1>2. admin.user # u /\ admin.left \subseteq KeysOf(admin.user)
  BY DEF AdminOn, AdminAccount
<1>3. \A k \in KeysOf(u) : k \notin admin.left BY <1>2 DEF KeysOf
<1>4. /\ \A k \in KeysOf(u) : users'[k] = users[k] /\ stats'[k] = stats[k]
      /\ counts'[u] = counts[u]
      /\ ~AdminOn(u)'
  <2> USE DEF AdminOn, KeysOf, TypeOK, AdminStates
  <2>1. CASE AdminRemove BY <1>2, <1>3, <2>1 DEF AdminRemove
  <2>2. CASE AdminRetained BY <1>2, <2>2 DEF AdminRetained
  <2>3. CASE AdminCount BY <1>2, <2>3 DEF AdminCount, AdminIdle
  <2>4. CASE AdminStats BY <1>3, <2>4 DEF AdminStats, AdminIdle
  <2> QED BY <2>1, <2>2, <2>3, <2>4 DEF AdminWork
<1>5. \A d \in Conns : Busy(d)' <=> Busy(d) BY <1>1 DEF Busy
<1> QED BY <1>1, <1>4, <1>5, FrameAccount

\* A step of a task keeps the accounts of every user.
LEMMA TaskAccount ==
  ASSUME TypeOK, NEW c \in Conns, Handshake(c) \/ Loop(c) \/ Cleanup(c),
         NEW u \in Users, Account(u), Solo(u), Solo(u)'
  PROVE  Account(u)'
<1>1. /\ key' = key /\ admin' = admin
      /\ \A d \in Conns : d # c => pc'[d] = pc[d] /\ iter'[d] = iter[d]
      /\ \A k \in Key : k # key[c] => users'[k] = users[k] /\ stats'[k] = stats[k]
      /\ u # UserOf(c) => counts'[u] = counts[u]
  BY TaskTouches
<1>2. \A d \in Conns : d # c => (Busy(d)' <=> Busy(d)) BY <1>1 DEF Busy
<1>3. AdminOn(u)' <=> AdminOn(u) BY <1>1 DEF AdminOn
<1>4. CASE u # UserOf(c)
  <2>1. \A k \in KeysOf(u) : k # key[c] /\ k \in Key
    BY <1>4 DEF KeysOf, UserOf
  <2>2. \A d \in Conns : UserOf(d) = u => d # c BY <1>4
  <2> QED BY <1>1, <1>2, <1>3, <2>1, <2>2, FrameAccount
<1>5. CASE u = UserOf(c) /\ (Busy(c) \/ Busy(c)')
  <2>1. Lone(c)
    <3>1. CASE Busy(c)
      BY <1>5, <3>1 DEF Solo, BusyOn, Lone
    <3>2. CASE Busy(c)'
      <4>1. c \in BusyOn(u)' BY <1>1, <1>5, <3>2 DEF BusyOn, UserOf
      <4>2. ~AdminOn(u) BY <1>3, <4>1 DEF Solo
      <4>3. \A d \in Conns : Busy(d) /\ UserOf(d) = u /\ d # c => d \in BusyOn(u)'
        BY <1>1, <1>2 DEF BusyOn, UserOf
      <4>4. \A d \in BusyOn(u)' : d = c BY <4>1 DEF Solo
      <4> QED BY <1>5, <4>2, <4>3, <4>4 DEF Lone
    <3> QED BY <1>5, <3>1, <3>2
  <2>2. CASE AddUser(c) BY <1>5, <2>1, <2>2, AddUserAccount
  <2>3. CASE RegisterStats(c) BY <1>5, <2>1, <2>3, RegisterAccount
  <2>4. CASE Loop(c) \/ Cleanup(c) BY <1>5, <2>1, <2>4, ServiceAccount
  <2>5. ~(SendChallenge(c) \/ RejectHandshake(c) \/ Authenticate(c) \/ LoadUser(c)
          \/ SaveUser(c) \/ FlushInbox(c) \/ GreetClient(c))
    BY <1>5 DEF SendChallenge, RejectHandshake, Authenticate, LoadUser, SaveUser,
       FlushInbox, GreetClient, At, Goto, Busy, TypeOK
  <2> QED BY <2>2, <2>3, <2>4, <2>5 DEF Handshake
<1>6. CASE u = UserOf(c) /\ ~Busy(c) /\ ~Busy(c)'
  <2>1. users' = users /\ stats' = stats /\ counts' = counts
    <3>1. CASE Handshake(c)
      BY <1>6, <3>1 DEF Handshake, AddUser, SendChallenge, RejectHandshake,
         Authenticate, CheckReconnect, CheckLimit, EvictOld, InsertSession,
         RecountVisit, RecountDone, SetCount, RegisterStats, LoadUser, SaveUser,
         FlushInbox, GreetClient, At, Busy
    <3>2. CASE Loop(c)
      BY <1>6, <3>2 DEF Loop, NoticeDisconnect, LeaveLoop, RelaySucceeds,
         RelayFails, KickSelf, KickCount, KickStats, At, Busy
    <3>3. CASE Cleanup(c)
      BY <1>6, <3>3 DEF Cleanup, RemoveIfCurrent, Decrement, DropStats,
         LastSessionCheck, RetireUser, At, Goto, Busy, TypeOK
    <3> QED BY <3>1, <3>2, <3>3
  <2> QED BY <1>1, <1>2, <1>3, <1>6, <2>1, FrameAccount
<1> QED BY <1>4, <1>5, <1>6

----------------------------------------------------------------------------
\* Nothing is registered and nobody is busy in the initial state.
LEMMA InitLedger == MCInit => TypeOK /\ Ledger
<1> SUFFICES ASSUME MCInit PROVE TypeOK /\ Ledger OBVIOUS
<1>1. TypeOK BY InitTypeOK DEF MCInit
<1>2. ASSUME NEW u \in Users
      PROVE  BusyOn(u) = {} /\ Present(u) = {} /\ ~AdminOn(u) /\ counts[u] = 0
             /\ \A k \in KeysOf(u) : stats[k] = users[k]
  BY DEF MCInit, Init, BusyOn, Busy, Present, AdminOn, AdminIdle, KeysOf
<1>3. ASSUME NEW u \in Users PROVE IsFiniteSet(BusyOn(u)) /\ Solo(u) /\ Account(u)
  <2>1. Cardinality({}) = 0 /\ IsFiniteSet({}) BY FS_EmptySet
  <2>2. Exact(u) BY <1>2, <1>3, <2>1 DEF Exact, StatsBut
  <2>3. Cardinality(Present(u)) <= MaxSessions BY <1>2, <1>3, <2>1, ConstantsOK
  <2> QED BY <1>2, <1>3, <2>1, <2>2, <2>3 DEF Solo, Account
<1> QED BY <1>1, <1>3 DEF Ledger

\* Every step keeps the accounts of every user, until an overlap is recorded.
LEMMA NextLedger ==
  TypeOK /\ Ledger /\ [MCNext]_<<vars, overlapped>> => TypeOK' /\ Ledger'
<1> SUFFICES ASSUME TypeOK, Ledger, [MCNext]_<<vars, overlapped>>
             PROVE  TypeOK' /\ Ledger'
  OBVIOUS
<1>1. [Next]_vars BY DEF MCNext
<1>2. TypeOK' BY <1>1, NextTypeOK
<1>3. ASSUME NEW u \in Users PROVE IsFiniteSet(BusyOn(u)')
  BY <1>1, <1>3, BusyStaysFinite DEF Ledger
<1>4. ASSUME ~overlapped', NEW u \in Users PROVE Solo(u)' /\ Account(u)'
  <2>1. \A w \in Users : ~overlapped /\ Solo(w)'
    BY <1>4, SoloNext DEF Ledger
  <2>2. ~overlapped /\ Solo(u) /\ Account(u) /\ Solo(u)' BY <1>4, <2>1 DEF Ledger
  <2>3. CASE UNCHANGED vars
    <3>1. /\ users' = users /\ stats' = stats /\ counts' = counts /\ pc' = pc
          /\ key' = key /\ iter' = iter /\ admin' = admin
      BY <2>3 DEF vars
    <3>2. (AdminOn(u)' <=> AdminOn(u)) /\ \A d \in Conns : Busy(d)' <=> Busy(d)
      BY <3>1 DEF AdminOn, Busy
    <3>3. Account(u)' BY <1>4, <2>2, <3>1, <3>2, FrameAccount
    <3> QED BY <2>2, <3>3
  <2>4. CASE \E c \in Conns : Handshake(c) \/ Loop(c) \/ Cleanup(c)
    BY <1>4, <2>2, <2>4, TaskAccount
  <2>5. CASE AdminRequest BY <1>4, <2>2, <2>5, AdminRequestAccount
  <2>6. CASE AdminWork
    <3>1. CASE AdminOn(u) BY <1>4, <2>2, <2>6, <3>1, AdminTargetAccount
    <3>2. CASE ~AdminOn(u)
      <4>1. admin.user \in Users BY DEF TypeOK, AdminStates
      <4>2. AdminOn(admin.user)
        BY <2>6 DEF AdminWork, AdminRemove, AdminRetained, AdminCount, AdminStats,
           AdminOn
      <4>3. AdminAccount(admin.user) BY <2>2, <4>1, <4>2 DEF Ledger, Account
      <4> QED BY <1>4, <2>2, <2>6, <3>2, <4>2, <4>3, AdminOtherAccount
    <3> QED BY <3>1, <3>2
  <2> QED BY <1>1, <2>3, <2>4, <2>5, <2>6 DEF Next
<1> QED BY <1>2, <1>3, <1>4 DEF Ledger

\* Until two operations on one user overlap, user_session_counts counts the
\* registered sessions, max_sessions_per_user bounds them, and TrafficStats has
\* an entry for each of them and none for a dead session: for any number of
\* users, sessions and connections, whatever the order of replacements, kicks,
\* aborted greetings and late cleanups.
THEOREM ExactUntilOverlapHolds == MCSpec => []ExactUntilOverlap
<1>1. TypeOK /\ Ledger => ExactUntilOverlap
  BY DEF Ledger, Account, Exact, StatsBut, ExactUntilOverlap, CountsExact,
         SessionLimit, StatsFollowSessions
<1> QED BY <1>1, InitLedger, NextLedger, PTL DEF MCSpec
=============================================================================
