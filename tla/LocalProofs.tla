------------------------------ MODULE LocalProofs ------------------------------
(***************************************************************************)
(* Proofs about what the client keeps in the browser and exchanges:        *)
(* RecordScans, StorageSpaces, CredentialExchange and TrafficLog, and about*)
(* these parts together with those of UserProofs (MCLocal).                *)
(***************************************************************************)
EXTENDS MCLocal, UserProofs, SequenceTheorems, FiniteSetTheorems, TLAPS

------------------------------------------------------------------------------
(* RecordScans: for every set of records, filter and limit.                *)

(* The scans by pages have returned exactly the records up to the cursor,  *)
(* of those that were there all along; the iterator, if it was never slow, *)
(* exactly the rows its cursor has passed.                                 *)
PiecesInv ==
  kind # "iterate" =>
    /\ \A i \in Records : got[i] = 0 \/ (got[i] = 1 /\ i <= cursor)
    /\ \A i \in Shown(kept) : i <= cursor \/ reader = "done" => got[i] = 1
CursorOpened == event \/ cursor # 0 \/ reader = "done"
IterateInv ==
  kind = "iterate" =>
    /\ \A i \in Records : got[i] = 0 \/ (got[i] = 1 /\ i \notin ahead)
    /\ cursor = 0 => \A i \in Records : got[i] = 0
    /\ ~slow /\ CursorOpened => \A i \in Shown(kept) : i \in ahead \/ got[i] = 1
    /\ ~slow /\ reader = "done" => ahead = {}
ScanInv == TypeOK /\ PiecesInv /\ IterateInv /\ kept \subseteq table

LEMMA InitScanInv == Init => ScanInv
<1> SUFFICES ASSUME Init PROVE ScanInv
  OBVIOUS
<1>1. TypeOK /\ kept \subseteq table
  BY DEF Init, TypeOK
<1>2. /\ cursor = 0 /\ reader # "done" /\ \A i \in Records : got[i] = 0
      /\ \A i \in Records : ~(i <= 0)
  BY RecordsAssumption DEF Init
<1>3. PiecesInv
  BY <1>1, <1>2 DEF PiecesInv, Shown, TypeOK
<1>4. IterateInv
  BY <1>1, <1>2 DEF IterateInv, CursorOpened, Init
<1> QED BY <1>1, <1>3, <1>4 DEF ScanInv

(* Writers touch neither the scan nor what it owes.                        *)
LEMMA WritersKeepScanInv ==
  ASSUME ScanInv, NEW i \in Records, Put(i) \/ Delete(i)
  PROVE  ScanInv'
<1>1. /\ UNCHANGED <<kind, reader, cursor, ahead, event, got, slow>> /\ kept' \subseteq kept
      /\ kept' \subseteq table' /\ table' \in SUBSET Records
  BY DEF ScanInv, TypeOK, Put, Delete, scan
<1>2. TypeOK'
  BY <1>1 DEF ScanInv, TypeOK
<1>3. PiecesInv' /\ IterateInv'
  BY <1>1 DEF ScanInv, PiecesInv, IterateInv, CursorOpened, Shown
<1> QED BY <1>1, <1>2, <1>3 DEF ScanInv

(* A piece returns records behind the cursor, and moves the cursor to the  *)
(* last of them; what it leaves out lies behind the new cursor.            *)
LEMMA PieceKeepsScanInv ==
  ASSUME ScanInv, Piece
  PROVE  ScanInv'
<1> DEFINE R == {i \in Shown(table) : Behind(i)}
<1>1. PICK S \in SUBSET R : IsFirst(S, R) /\ Return(S) /\ Turn(S)
                            /\ reader' = IF More(S, R) THEN "calls" ELSE "done"
  BY DEF Piece
<1>2. /\ kind # "iterate" /\ reader = "calls" /\ TypeOK /\ PiecesInv /\ kept \subseteq table
      /\ UNCHANGED <<table, kept, kind, ahead, event, slow>>
  BY DEF Piece, ScanInv
<1>3. R \subseteq Records /\ \A i \in R : i > cursor /\ i \in Nat
  BY <1>2, RecordsAssumption DEF Behind, Shown, TypeOK
<1>4. cursor \in Nat /\ cursor' \in Records \cup {0} /\ cursor' >= cursor /\ \A i \in S : i <= cursor'
  <2>1. CASE S = {}
    BY <1>1, <1>2, <2>1, RecordsAssumption DEF Turn, TypeOK
  <2>2. CASE S # {}
    <3>1. cursor' \in S /\ \A i \in S : i <= cursor'
      BY <1>1, <2>2 DEF Turn
    <3> QED BY <1>2, <1>3, <3>1, RecordsAssumption DEF TypeOK
  <2> QED BY <2>1, <2>2
<1>5. got' \in [Records -> Nat]
  BY <1>1, <1>2 DEF Return, TypeOK
<1>6. TypeOK'
  BY <1>1, <1>2, <1>4, <1>5 DEF TypeOK
<1>7. ASSUME NEW i \in Records
      PROVE  got'[i] = 0 \/ (got'[i] = 1 /\ i <= cursor')
  <2>1. got[i] = 0 \/ (got[i] = 1 /\ i <= cursor)
    BY <1>2 DEF PiecesInv
  <2>2. got'[i] = IF i \in S THEN got[i] + 1 ELSE got[i]
    BY <1>1 DEF Return
  <2>3. i \in S => i > cursor /\ i <= cursor'
    BY <1>1, <1>3, <1>4
  <2> QED BY <2>1, <2>2, <2>3, <1>4, RecordsAssumption
<1>8. ASSUME NEW i \in Shown(kept), i <= cursor' \/ reader' = "done"
      PROVE  got'[i] = 1
  <2>1. i \in Records /\ i \in Nat /\ i \in Shown(table)
    BY <1>2, RecordsAssumption DEF Shown, TypeOK
  <2>2. got'[i] = IF i \in S THEN got[i] + 1 ELSE got[i]
    BY <1>1, <2>1 DEF Return
  <2>3. CASE i <= cursor
    <3>1. got[i] = 1
      BY <1>2, <2>3 DEF PiecesInv
    <3>2. i \notin S
      BY <1>1, <1>3, <1>4, <2>1, <2>3
    <3> QED BY <2>2, <3>1, <3>2
  <2>4. CASE i > cursor
    <3>1. i \in R
      BY <2>1, <2>4 DEF Behind
    <3>2. i \in S
      <4>1. SUFFICES ASSUME i \notin S PROVE FALSE
        OBVIOUS
      <4>2. S # R /\ Cardinality(S) = Limit
        BY <1>1, <3>1, <4>1 DEF IsFirst
      <4>3. reader' = "calls"
        BY <1>1, <4>2 DEF More
      <4>4. S # {}
        <5>1. CASE S = {}
          <6>1. cursor' = cursor
            BY <1>1, <5>1 DEF Turn
          <6> QED BY <1>8, <1>4, <2>1, <2>4, <4>3, <6>1
        <5> QED BY <5>1
      <4>5. cursor' \in S
        BY <1>1, <4>4 DEF Turn
      <4>6. cursor' < i
        BY <1>1, <3>1, <4>1, <4>5 DEF IsFirst
      <4> QED BY <1>8, <1>4, <2>1, <4>3, <4>6
    <3>3. got[i] = 0
      BY <1>2, <2>1, <2>4, <1>4 DEF PiecesInv
    <3> QED BY <2>2, <3>2, <3>3
  <2> QED BY <1>4, <2>1, <2>3, <2>4
<1>9. Shown(kept)' = Shown(kept)
  BY <1>2 DEF Shown
<1> QED BY <1>2, <1>6, <1>7, <1>8, <1>9 DEF ScanInv, PiecesInv, IterateInv

(* The first call opens the cursor on the records of that moment.          *)
LEMMA NextKeepsScanInv ==
  ASSUME ScanInv, IteratorNext
  PROVE  ScanInv'
<1>1. TypeOK'
  BY DEF ScanInv, TypeOK, IteratorNext
<1>2. IterateInv'
  <2> USE DEF ScanInv, IterateInv, IteratorNext, CursorOpened, Shown
  <2>1. CASE cursor = 0 /\ ~event
    BY <2>1 DEF TypeOK
  <2>2. CASE ~(cursor = 0 /\ ~event)
    BY <2>2
  <2> QED BY <2>1, <2>2
<1> QED BY <1>1, <1>2 DEF ScanInv, IteratorNext, PiecesInv

LEMMA RowKeepsScanInv ==
  ASSUME ScanInv, NEW i \in Records, Row(i)
  PROVE  ScanInv'
<1>1. /\ kind = "iterate" /\ event /\ i \in ahead /\ ahead' = ahead \ {i} /\ cursor' = i
      /\ slow' = (slow \/ reader # "awaits")
      /\ UNCHANGED <<table, kept, kind, event>>
      /\ TypeOK /\ IterateInv /\ kept \subseteq table
  BY DEF Row, ScanInv
<1>2. i # 0 /\ got[i] = 0
  BY <1>1, RecordsAssumption DEF IterateInv
<1>3. \A j \in Records \ {i} : got'[j] = got[j]
  BY DEF Row, Return, Shown
<1>4. got' \in [Records -> Nat] /\ got'[i] = (IF reader = "awaits" /\ i \notin Hidden THEN 1 ELSE 0)
  BY <1>1, <1>2 DEF Row, Return, Shown, TypeOK
<1>5. TypeOK'
  BY <1>1, <1>4 DEF TypeOK, Row
<1>6. \A j \in Records : got'[j] = 0 \/ (got'[j] = 1 /\ j \notin ahead')
  BY <1>1, <1>3, <1>4 DEF IterateInv
<1>7. ASSUME ~slow', NEW j \in Shown(kept)
      PROVE  j \in ahead' \/ got'[j] = 1
  <2>1. ~slow /\ reader = "awaits" /\ j \in Records /\ j \notin Hidden
    BY <1>1, <1>7 DEF Shown, TypeOK
  <2>2. CASE j = i
    BY <1>4, <2>1, <2>2
  <2>3. CASE j # i
    BY <1>1, <1>3, <1>7, <2>1, <2>3 DEF IterateInv, CursorOpened
  <2> QED BY <2>2, <2>3
<1>8. Shown(kept)' = Shown(kept)
  BY <1>1 DEF Shown
<1>9. ~slow' => reader' # "done"
  BY <1>1 DEF Row
<1> QED BY <1>1, <1>2, <1>5, <1>6, <1>7, <1>8, <1>9 DEF ScanInv, PiecesInv, IterateInv

LEMMA LastRowKeepsScanInv ==
  ASSUME ScanInv, LastRow
  PROVE  ScanInv'
<1>1. TypeOK'
  BY DEF ScanInv, TypeOK, LastRow
<1>2. IterateInv'
  BY DEF ScanInv, IterateInv, LastRow, CursorOpened, Shown
<1> QED BY <1>1, <1>2 DEF ScanInv, LastRow, PiecesInv

LEMMA StepKeepsScanInv == ScanInv /\ [Next]_scanVars => ScanInv'
<1> SUFFICES ASSUME ScanInv, [Next]_scanVars PROVE ScanInv'
  OBVIOUS
<1>1. CASE UNCHANGED scanVars
  BY <1>1 DEF ScanInv, TypeOK, PiecesInv, IterateInv, CursorOpened, Shown, scanVars, scan
<1>2. ASSUME NEW i \in Records, Put(i) \/ Delete(i) PROVE ScanInv'
  BY <1>2, WritersKeepScanInv
<1>3. ASSUME NEW i \in Records, Row(i) PROVE ScanInv'
  BY <1>3, RowKeepsScanInv
<1>4. CASE Piece BY <1>4, PieceKeepsScanInv
<1>5. CASE IteratorNext BY <1>5, NextKeepsScanInv
<1>6. CASE LastRow BY <1>6, LastRowKeepsScanInv
<1> QED BY <1>1, <1>2, <1>3, <1>4, <1>5, <1>6 DEF Next

LEMMA ScanInvScanComplete == ScanInv => ScanComplete
<1> SUFFICES ASSUME ScanInv PROVE ScanComplete
  OBVIOUS
<1>1. CASE kind # "iterate"
  BY <1>1 DEF ScanInv, PiecesInv, ScanComplete
<1>2. CASE kind = "iterate"
  BY <1>2 DEF ScanInv, IterateInv, ScanComplete, CursorOpened
<1> QED BY <1>1, <1>2

LEMMA RecordScansTyped == Spec => []TypeOK
<1>1. ScanInv => TypeOK
  BY DEF ScanInv
<1> QED BY InitScanInv, StepKeepsScanInv, <1>1, PTL DEF Spec

(* Paging and iterating return every lasting record exactly once: the      *)
(* keyset cursors of getCertsPage and of a storage's batches, and          *)
(* iterateCerts as long as its caller keeps up (db.js:348, :456,           *)
(* storage/main.js:488).                                                   *)
THEOREM ScansAreComplete == Spec => []ScanComplete
<1>1. Spec => []ScanInv
  BY InitScanInv, StepKeepsScanInv, PTL DEF Spec
<1> QED BY <1>1, ScanInvScanComplete, PTL

------------------------------------------------------------------------------
(* StorageSpaces implements KeyValueStore, for any instances, connections, *)
(* calls and values: connecting, closing and retrying change nothing a     *)
(* caller sees.                                                            *)

LEMMA InitRefines == StorageInit => KV!Init
BY DEF StorageInit, KV!Init

LEMMA StepRefines ==
  ASSUME [StorageNext]_storageVars
  PROVE  [KV!Next]_(KV!kvVars)
<1> USE DEF KV!kvVars
<1>1. ASSUME NEW i \in Instances, NEW o \in Calls, NEW w \in Values \cup {Null, "read"}, CallItem(o, i, w)
      PROVE  KV!Next
  <2>1. KV!Call(o, w)
    BY <1>1 DEF CallItem, KV!Call
  <2> QED BY <2>1 DEF KV!Next
<1>2. ASSUME NEW o \in Calls, Transact(o) PROVE KV!Next
  <2>1. KV!Apply(o)
    BY <1>2 DEF Transact, Waiting, KV!Apply
  <2> QED BY <2>1 DEF KV!Next
<1>3. ASSUME NEW o \in Calls, CallFails(o) PROVE KV!Next
  <2>1. KV!Fail(o)
    BY <1>3 DEF CallFails, Waiting, KV!Fail
  <2> QED BY <2>1 DEF KV!Next
<1>4. CASE Deleted
  BY <1>4 DEF Deleted, calls, KV!Forget, KV!Next
<1>5. ASSUME NEW o \in Calls, Reopen(o) PROVE UNCHANGED KV!kvVars
  BY <1>5 DEF Reopen, AsBefore
<1>6. ASSUME NEW i \in Instances, Construct(i) \/ Close(i) \/ Ended(i) PROVE UNCHANGED KV!kvVars
  BY <1>6 DEF Construct, Close, Ended, calls
<1>7. ASSUME NEW c \in Conns, Closes(c) \/ Collect(c) PROVE UNCHANGED KV!kvVars
  BY <1>7 DEF Closes, Collect, calls
<1>8. CASE Opened \/ DeleteStorage \/ AskDelete
  BY <1>8 DEF Opened, DeleteStorage, AskDelete, calls
<1>9. CASE UNCHANGED storageVars
  BY <1>9 DEF storageVars, calls
<1> QED BY <1>1, <1>2, <1>3, <1>4, <1>5, <1>6, <1>7, <1>8, <1>9 DEF StorageNext

(* Every call of a storage takes effect once, at one moment, or not at     *)
(* all, however many connections are closed under it.                      *)
THEOREM StorageIsAStore == StorageSpec => CallsApplyOnce
BY InitRefines, StepRefines, PTL DEF StorageSpec, CallsApplyOnce, KV!Spec

-----------------------------------------------------------------------------
(* A connection is pending while it can still hold up a deletion that does *)
(* not expect it.  It belongs to a live instance, then to those the        *)
(* deletion waits for, and in the end it queues behind the deletion.       *)
Blocking(c) == conn[c] \in {"queued", "open"} /\ c \notin reopened
Before(k) == \A j \in 1..(k - 1) : requests[j] \in reopened

StorageShaped ==
  /\ conn \in [Conns -> {"unused", "queued", "open", "closed", "refused"}]
  /\ idb \in [Instances -> Conns \cup {Null}]
  /\ requests \in Seq(Conns \cup {Deletion})
  /\ status \in [Calls -> {"none", "called", "applied", "failed"}]
  /\ of \in [Calls -> Instances \cup {Null}] /\ awaits \in [Calls -> Conns \cup {Null}]
  /\ reopened \subseteq Conns
OnceQueued ==
  \A j \in 1..Len(requests) : requests[j] \in Conns =>
    /\ conn[requests[j]] = "queued"
    /\ \A k \in 1..Len(requests) : requests[k] = requests[j] => k = j
OwnConnection ==
  \A o \in Calls : status[o] = "called" =>
    /\ of[o] \in Instances /\ awaits[o] \in Conns
    /\ idb[of[o]] = awaits[o] \/ idb[of[o]] \in reopened
WhenIdle == deleting = "idle" => \A c \in Conns : Blocking(c) => \E i \in live : idb[i] = c
WhenClosing == deleting = "closing" => \A c \in Conns : Blocking(c) => c \in awaited
NotAskedYet == deleting \in {"idle", "closing"} => \A j \in 1..Len(requests) : requests[j] # Deletion
WhenAsked ==
  deleting = "asked" =>
    /\ \A c \in Conns : conn[c] = "open" => c \in reopened
    /\ \E k \in 1..Len(requests) : requests[k] = Deletion /\ Before(k)
StorageInv == StorageShaped /\ OnceQueued /\ OwnConnection /\ WhenIdle /\ WhenClosing /\ NotAskedYet /\ WhenAsked

LEMMA AppendIs ==
  ASSUME NEW S, NEW s \in Seq(S), NEW x \in S
  PROVE  /\ Append(s, x) \in Seq(S) /\ Len(Append(s, x)) = Len(s) + 1 /\ Len(s) \in Nat
         /\ \A i \in 1..Len(s) : Append(s, x)[i] = s[i]
         /\ Append(s, x)[Len(s) + 1] = x
OBVIOUS

LEMMA TailIs ==
  ASSUME NEW S, NEW s \in Seq(S), s # <<>>
  PROVE  /\ Tail(s) \in Seq(S) /\ Len(Tail(s)) = Len(s) - 1 /\ Len(s) \in Nat \ {0}
         /\ \A i \in 1..Len(Tail(s)) : i + 1 \in 1..Len(s) /\ Tail(s)[i] = s[i + 1]
         /\ Head(s) = s[1]
OBVIOUS

LEMMA FreshIs == Fresh # {} => New \in Conns /\ conn[New] = "unused"
BY DEF Fresh, New

(* What opening a connection does to the queue of IndexedDB.               *)
LEMMA OpenKeeps ==
  ASSUME Deletion \notin Conns, StorageShaped, OnceQueued, NEW i \in Instances, OpenDB(i)
  PROVE  /\ New \in Conns /\ conn[New] = "unused"
         /\ idb' = [idb EXCEPT ![i] = New] /\ conn' = [conn EXCEPT ![New] = "queued"]
         /\ requests' \in Seq(Conns \cup {Deletion}) /\ Len(requests') = Len(requests) + 1
         /\ Len(requests) \in Nat
         /\ requests'[Len(requests) + 1] = New
         /\ \A j \in 1..Len(requests) : requests'[j] = requests[j]
         /\ OnceQueued'
<1>1. New \in Conns /\ conn[New] = "unused"
  BY FreshIs DEF OpenDB
<1>2. idb' = [idb EXCEPT ![i] = New] /\ conn' = [conn EXCEPT ![New] = "queued"]
  BY DEF OpenDB
<1>3. /\ requests' \in Seq(Conns \cup {Deletion}) /\ Len(requests') = Len(requests) + 1
      /\ requests'[Len(requests) + 1] = New /\ Len(requests) \in Nat
      /\ \A j \in 1..Len(requests) : requests'[j] = requests[j]
  BY <1>1, AppendIs, LenProperties DEF OpenDB, StorageShaped
<1>4. \A j \in 1..Len(requests) : requests[j] # New
  BY <1>1 DEF OnceQueued
<1>5. OnceQueued'
  <2> SUFFICES ASSUME NEW j \in 1..Len(requests'), requests'[j] \in Conns
               PROVE  /\ conn'[requests'[j]] = "queued"
                      /\ \A k \in 1..Len(requests') : requests'[k] = requests'[j] => k = j
    BY DEF OnceQueued
  <2>1. CASE j = Len(requests) + 1
    BY <1>1, <1>2, <1>3, <1>4, <2>1 DEF StorageShaped
  <2>2. CASE j \in 1..Len(requests)
    <3>1. requests[j] \in Conns /\ requests[j] # New /\ requests'[j] = requests[j]
      BY <1>3, <1>4, <2>2
    <3>2. conn[requests[j]] = "queued" /\ \A k \in 1..Len(requests) : requests[k] = requests[j] => k = j
      BY <2>2, <3>1 DEF OnceQueued
    <3>3. conn'[requests[j]] = "queued"
      BY <1>2, <3>1, <3>2 DEF StorageShaped
    <3>4. ASSUME NEW k \in 1..Len(requests'), requests'[k] = requests'[j] PROVE k = j
      <4>1. k # Len(requests) + 1
        BY <1>3, <3>1, <3>4
      <4> QED BY <1>3, <3>1, <3>2, <3>4, <4>1
    <3> QED BY <3>1, <3>3, <3>4
  <2> QED BY <1>3, <2>1, <2>2
<1> QED BY <1>1, <1>2, <1>3, <1>5

(* The head of the queue goes, and what it names changes.                  *)
LEMMA TailKeeps ==
  ASSUME StorageShaped, OnceQueued, requests # <<>>, requests' = Tail(requests),
         NEW s \in {"unused", "queued", "open", "closed", "refused"},
         conn' = conn \/ conn' = [conn EXCEPT ![Head(requests)] = s]
  PROVE  /\ requests' \in Seq(Conns \cup {Deletion}) /\ OnceQueued'
         /\ Len(requests) \in Nat \ {0} /\ Head(requests) = requests[1]
         /\ Len(requests') = Len(requests) - 1
         /\ \A j \in 1..Len(requests') : requests'[j] = requests[j + 1]
<1>1. /\ requests' \in Seq(Conns \cup {Deletion}) /\ Len(requests') = Len(requests) - 1
      /\ Len(requests) \in Nat \ {0} /\ Head(requests) = requests[1]
      /\ \A j \in 1..Len(requests') : requests'[j] = requests[j + 1]
  BY TailIs DEF StorageShaped
<1>2. OnceQueued'
  <2> SUFFICES ASSUME NEW j \in 1..Len(requests'), requests'[j] \in Conns
               PROVE  /\ conn'[requests'[j]] = "queued"
                      /\ \A k \in 1..Len(requests') : requests'[k] = requests'[j] => k = j
    BY DEF OnceQueued
  <2>1. j + 1 \in 1..Len(requests) /\ 1 \in 1..Len(requests) /\ requests'[j] = requests[j + 1]
    BY <1>1
  <2>2. conn[requests[j + 1]] = "queued" /\ requests[1] # requests[j + 1]
        /\ \A k \in 1..Len(requests) : requests[k] = requests[j + 1] => k = j + 1
    BY <2>1 DEF OnceQueued
  <2>3. conn'[requests[j + 1]] = "queued"
    BY <1>1, <2>1, <2>2 DEF StorageShaped
  <2>4. ASSUME NEW k \in 1..Len(requests'), requests'[k] = requests'[j] PROVE k = j
    <3>1. k + 1 \in 1..Len(requests) /\ requests'[k] = requests[k + 1]
      BY <1>1
    <3>2. k + 1 = j + 1
      BY <2>1, <2>2, <2>4, <3>1
    <3> QED BY <3>2, <1>1
  <2> QED BY <2>1, <2>3, <2>4
<1> QED BY <1>1, <1>2

(* Steps that only close connections, or none.                             *)
LEMMA ClosingKeeps ==
  ASSUME StorageShaped, OnceQueued, UNCHANGED <<requests, idb, reopened>>,
         conn' \in [Conns -> {"unused", "queued", "open", "closed", "refused"}],
         \A c \in Conns : conn'[c] = conn[c] \/ (conn[c] = "open" /\ conn'[c] = "closed")
  PROVE  OnceQueued' /\ \A c \in Conns : Blocking(c)' => Blocking(c)
<1>1. \A c \in Conns : conn[c] = "queued" => conn'[c] = "queued"
  OBVIOUS
<1>2. OnceQueued'
  BY <1>1 DEF OnceQueued
<1> QED BY <1>2 DEF Blocking

LEMMA InitStorageInv == StorageInit => StorageInv
<1> SUFFICES ASSUME StorageInit PROVE StorageInv
  OBVIOUS
<1>1. StorageShaped
  BY EmptySeq DEF StorageInit, StorageShaped
<1>2. Len(requests) = 0
  BY EmptySeq DEF StorageInit
<1> QED BY <1>1, <1>2 DEF StorageInit, StorageInv, OnceQueued, OwnConnection, WhenIdle, WhenClosing, NotAskedYet,
                          WhenAsked, Blocking

(* Opening one more connection: for a new instance, or again.              *)
LEMMA ConstructKeepsStorageInv ==
  ASSUME Deletion \notin Conns, Null \notin Conns, StorageInv, NEW i \in Instances, Construct(i)
  PROVE  StorageInv'
<1>1. /\ idb[i] = Null /\ OpenDB(i) /\ live' = live \cup {i}
      /\ UNCHANGED <<status, of, awaits, deleting, awaited>>
      /\ reopened' = IF deleting = "closing" THEN reopened \cup {New} ELSE reopened
  BY DEF Construct, calls, deletion
<1>2. /\ New \in Conns /\ conn[New] = "unused"
      /\ idb' = [idb EXCEPT ![i] = New] /\ conn' = [conn EXCEPT ![New] = "queued"]
      /\ requests' \in Seq(Conns \cup {Deletion}) /\ Len(requests') = Len(requests) + 1
      /\ Len(requests) \in Nat /\ requests'[Len(requests) + 1] = New
      /\ \A j \in 1..Len(requests) : requests'[j] = requests[j]
      /\ OnceQueued'
  BY <1>1, OpenKeeps DEF StorageInv
<1>3. StorageShaped'
  BY <1>1, <1>2 DEF StorageInv, StorageShaped
<1>4. OwnConnection'
  <2> SUFFICES ASSUME NEW o \in Calls, status[o] = "called"
               PROVE  /\ of[o] \in Instances /\ awaits[o] \in Conns
                      /\ idb'[of[o]] = awaits[o] \/ idb'[of[o]] \in reopened'
    BY <1>1 DEF OwnConnection
  <2>1. /\ of[o] \in Instances /\ awaits[o] \in Conns
        /\ idb[of[o]] = awaits[o] \/ idb[of[o]] \in reopened
    BY DEF StorageInv, OwnConnection
  <2>2. of[o] # i
    BY <1>1, <2>1 DEF StorageInv, StorageShaped
  <2> QED BY <1>1, <1>2, <2>1, <2>2 DEF StorageInv, StorageShaped
<1>5. WhenIdle'
  <2> SUFFICES ASSUME deleting = "idle", NEW c \in Conns, Blocking(c)' PROVE \E j \in live' : idb'[j] = c
    BY <1>1 DEF WhenIdle
  <2>1. CASE c = New
    BY <1>1, <1>2, <2>1 DEF StorageInv, StorageShaped
  <2>2. CASE c # New
    <3>1. Blocking(c)
      BY <1>1, <1>2, <2>2 DEF Blocking, StorageInv, StorageShaped
    <3>2. PICK j \in live : idb[j] = c
      BY <3>1 DEF StorageInv, WhenIdle
    <3> QED BY <1>1, <1>2, <3>2 DEF StorageInv, StorageShaped
  <2> QED BY <2>1, <2>2
<1>6. WhenClosing'
  BY <1>1, <1>2 DEF WhenClosing, Blocking, StorageInv, StorageShaped
<1>7. NotAskedYet'
  BY <1>1, <1>2 DEF NotAskedYet, StorageInv
<1>8. WhenAsked'
  <2> SUFFICES ASSUME deleting = "asked" PROVE WhenAsked'
    BY <1>1 DEF WhenAsked
  <2>1. \A c \in Conns : conn'[c] = "open" => c \in reopened'
    BY <1>1, <1>2 DEF WhenAsked, StorageInv, StorageShaped
  <2>2. PICK k \in 1..Len(requests) : requests[k] = Deletion /\ Before(k)
    BY DEF WhenAsked, StorageInv
  <2>3. k \in 1..Len(requests') /\ requests'[k] = Deletion
    BY <1>2, <2>2
  <2>4. \A j \in 1..(k - 1) : requests'[j] \in reopened'
    BY <1>1, <1>2, <2>2 DEF Before
  <2> QED BY <2>1, <2>3, <2>4 DEF WhenAsked, Before
<1> QED BY <1>2, <1>3, <1>4, <1>5, <1>6, <1>7, <1>8 DEF StorageInv

LEMMA ReopenKeepsStorageInv ==
  ASSUME Deletion \notin Conns, Null \notin Conns, StorageInv, NEW o \in Calls, Reopen(o)
  PROVE  StorageInv'
<1>1. /\ status[o] = "called" /\ conn[awaits[o]] = "closed" /\ OpenDB(of[o])
      /\ awaits' = [awaits EXCEPT ![o] = New] /\ reopened' = reopened \cup {New}
      /\ UNCHANGED <<live, status, of, deleting, awaited>>
  BY DEF Reopen, Waiting, maps, deletion
<1>2. of[o] \in Instances /\ awaits[o] \in Conns /\ (idb[of[o]] = awaits[o] \/ idb[of[o]] \in reopened)
  BY <1>1 DEF StorageInv, OwnConnection
<1>3. /\ New \in Conns /\ conn[New] = "unused"
      /\ idb' = [idb EXCEPT ![of[o]] = New] /\ conn' = [conn EXCEPT ![New] = "queued"]
      /\ requests' \in Seq(Conns \cup {Deletion}) /\ Len(requests') = Len(requests) + 1
      /\ Len(requests) \in Nat /\ requests'[Len(requests) + 1] = New
      /\ \A j \in 1..Len(requests) : requests'[j] = requests[j]
      /\ OnceQueued'
  BY <1>1, <1>2, OpenKeeps DEF StorageInv
<1>4. StorageShaped'
  BY <1>1, <1>2, <1>3 DEF StorageInv, StorageShaped
<1>5. OwnConnection'
  BY <1>1, <1>2, <1>3 DEF StorageInv, StorageShaped, OwnConnection
<1>6. \A c \in Conns : Blocking(c)' => Blocking(c) /\ c # New /\ idb[of[o]] # c
  BY <1>1, <1>2, <1>3 DEF Blocking, StorageInv, StorageShaped
<1>7. WhenIdle'
  <2> SUFFICES ASSUME deleting = "idle", NEW c \in Conns, Blocking(c)' PROVE \E j \in live : idb'[j] = c
    BY <1>1 DEF WhenIdle
  <2>1. PICK j \in live : idb[j] = c
    BY <1>6 DEF StorageInv, WhenIdle
  <2>2. j # of[o]
    BY <1>6, <2>1
  <2> QED BY <1>3, <2>1, <2>2 DEF StorageInv, StorageShaped
<1>8. WhenClosing'
  BY <1>1, <1>6 DEF WhenClosing, StorageInv
<1>9. NotAskedYet'
  BY <1>1, <1>3 DEF NotAskedYet, StorageInv
<1>10. WhenAsked'
  <2> SUFFICES ASSUME deleting = "asked" PROVE WhenAsked'
    BY <1>1 DEF WhenAsked
  <2>1. \A c \in Conns : conn'[c] = "open" => c \in reopened'
    BY <1>1, <1>3 DEF WhenAsked, StorageInv, StorageShaped
  <2>2. PICK k \in 1..Len(requests) : requests[k] = Deletion /\ Before(k)
    BY DEF WhenAsked, StorageInv
  <2>3. k \in 1..Len(requests') /\ requests'[k] = Deletion
    BY <1>3, <2>2
  <2>4. \A j \in 1..(k - 1) : requests'[j] \in reopened'
    BY <1>1, <1>3, <2>2 DEF Before
  <2> QED BY <2>1, <2>3, <2>4 DEF WhenAsked, Before
<1> QED BY <1>3, <1>4, <1>5, <1>7, <1>8, <1>9, <1>10 DEF StorageInv

LEMMA EndedKeepsStorageInv ==
  ASSUME Deletion \notin Conns, StorageInv, NEW i \in Instances, Ended(i), Null \notin Conns
  PROVE  StorageInv'
<1> DEFINE d == idb[i]
<1>1. /\ d \in Conns /\ conn[d] = "open" /\ New \in Conns /\ conn[New] = "unused"
      /\ idb' = [idb EXCEPT ![i] = New] /\ reopened' = reopened \cup {New}
      /\ conn' = [conn EXCEPT ![d] = "closed", ![New] = "queued"]
      /\ requests' = Append(requests, New)
      /\ UNCHANGED <<live, status, of, awaits, deleting, awaited>>
  BY FreshIs DEF Ended, maps, calls, deletion, StorageInv, StorageShaped
<1>2. /\ requests' \in Seq(Conns \cup {Deletion}) /\ Len(requests') = Len(requests) + 1
      /\ Len(requests) \in Nat /\ requests'[Len(requests) + 1] = New
      /\ \A j \in 1..Len(requests) : requests'[j] = requests[j]
  BY <1>1, AppendIs, LenProperties DEF StorageInv, StorageShaped
<1>3. StorageShaped'
  BY <1>1, <1>2 DEF StorageInv, StorageShaped
<1>4. OnceQueued'
  <2> SUFFICES ASSUME NEW j \in 1..Len(requests'), requests'[j] \in Conns
               PROVE  /\ conn'[requests'[j]] = "queued"
                      /\ \A k \in 1..Len(requests') : requests'[k] = requests'[j] => k = j
    BY DEF OnceQueued
  <2>1. \A k \in 1..Len(requests) : requests[k] # New
    BY <1>1 DEF StorageInv, OnceQueued
  <2>2. CASE j = Len(requests) + 1
    BY <1>1, <1>2, <2>1, <2>2 DEF StorageInv, StorageShaped
  <2>3. CASE j \in 1..Len(requests)
    <3>1. /\ requests[j] \in Conns /\ requests'[j] = requests[j] /\ conn[requests[j]] = "queued"
          /\ \A k \in 1..Len(requests) : requests[k] = requests[j] => k = j
      BY <1>2, <2>3 DEF StorageInv, OnceQueued
    <3>2. conn'[requests[j]] = "queued"
      BY <1>1, <3>1 DEF StorageInv, StorageShaped
    <3>3. ASSUME NEW k \in 1..Len(requests'), requests'[k] = requests'[j] PROVE k = j
      <4>1. k # Len(requests) + 1
        BY <1>2, <2>1, <2>3, <3>1, <3>3
      <4> QED BY <1>2, <3>1, <3>3, <4>1
    <3> QED BY <3>1, <3>2, <3>3
  <2> QED BY <1>2, <2>2, <2>3
<1>5. OwnConnection'
  BY <1>1 DEF StorageInv, StorageShaped, OwnConnection
<1>6. \A c \in Conns : Blocking(c)' => Blocking(c) /\ idb[i] # c
  BY <1>1 DEF Blocking, StorageInv, StorageShaped
<1>7. WhenIdle'
  <2> SUFFICES ASSUME deleting = "idle", NEW c \in Conns, Blocking(c)' PROVE \E j \in live : idb'[j] = c
    BY <1>1 DEF WhenIdle
  <2>1. PICK j \in live : idb[j] = c
    BY <1>6 DEF StorageInv, WhenIdle
  <2>2. j # i
    BY <1>6, <2>1
  <2> QED BY <1>1, <2>1, <2>2 DEF StorageInv, StorageShaped
<1>8. WhenClosing'
  BY <1>1, <1>6 DEF WhenClosing, StorageInv
<1>9. NotAskedYet'
  BY <1>1, <1>2 DEF NotAskedYet, StorageInv
<1>10. WhenAsked'
  <2> SUFFICES ASSUME deleting = "asked" PROVE WhenAsked'
    BY <1>1 DEF WhenAsked
  <2>1. \A c \in Conns : conn'[c] = "open" => c \in reopened'
    BY <1>1 DEF WhenAsked, StorageInv, StorageShaped
  <2>2. PICK k \in 1..Len(requests) : requests[k] = Deletion /\ Before(k)
    BY DEF WhenAsked, StorageInv
  <2>3. k \in 1..Len(requests') /\ requests'[k] = Deletion
    BY <1>2, <2>2
  <2>4. \A j \in 1..(k - 1) : requests'[j] \in reopened'
    BY <1>1, <1>2, <2>2 DEF Before
  <2> QED BY <2>1, <2>3, <2>4 DEF WhenAsked, Before
<1> QED BY <1>3, <1>4, <1>5, <1>7, <1>8, <1>9, <1>10 DEF StorageInv

(* IndexedDB takes the next request.                                       *)
LEMMA OpenedKeepsStorageInv ==
  ASSUME Deletion \notin Conns, StorageInv, Opened
  PROVE  StorageInv'
<1> DEFINE h == Head(requests)
<1>1. PICK s \in {"open", "refused"} : conn' = [conn EXCEPT ![h] = s]
  BY DEF Opened
<1>2. /\ requests # <<>> /\ h \in Conns /\ requests' = Tail(requests)
      /\ UNCHANGED <<idb, live, status, of, awaits, deleting, awaited, reopened>>
  BY DEF Opened, maps, calls, deletion
<1>3. /\ requests' \in Seq(Conns \cup {Deletion}) /\ OnceQueued'
      /\ Len(requests) \in Nat \ {0} /\ h = requests[1]
      /\ Len(requests') = Len(requests) - 1
      /\ \A j \in 1..Len(requests') : requests'[j] = requests[j + 1]
  BY <1>1, <1>2, TailKeeps DEF StorageInv
<1>4. StorageShaped'
  BY <1>1, <1>2, <1>3 DEF StorageInv, StorageShaped
<1>5. conn[h] = "queued"
  BY <1>2, <1>3 DEF StorageInv, OnceQueued
<1>6. \A c \in Conns : Blocking(c)' => Blocking(c)
  BY <1>1, <1>2, <1>5 DEF Blocking, StorageInv, StorageShaped
<1>7. OwnConnection' /\ WhenIdle' /\ WhenClosing' /\ NotAskedYet'
  BY <1>2, <1>3, <1>6 DEF StorageInv, OwnConnection, WhenIdle, WhenClosing, NotAskedYet
<1>8. WhenAsked'
  <2> SUFFICES ASSUME deleting = "asked" PROVE WhenAsked'
    BY <1>2 DEF WhenAsked
  <2>1. PICK k \in 1..Len(requests) : requests[k] = Deletion /\ Before(k)
    BY DEF WhenAsked, StorageInv
  <2>2. k # 1 /\ h \in reopened
    BY <1>2, <1>3, <2>1 DEF Before
  <2>3. k - 1 \in 1..Len(requests') /\ requests'[k - 1] = Deletion
    BY <1>3, <2>1, <2>2
  <2>4. \A j \in 1..((k - 1) - 1) : requests'[j] \in reopened'
    BY <1>2, <1>3, <2>1 DEF Before
  <2>5. \A c \in Conns : conn'[c] = "open" => c \in reopened'
    BY <1>1, <1>2, <2>2 DEF WhenAsked, StorageInv, StorageShaped
  <2> QED BY <2>3, <2>4, <2>5 DEF WhenAsked, Before
<1> QED BY <1>3, <1>4, <1>7, <1>8 DEF StorageInv

LEMMA DeletionKeepsStorageInv ==
  ASSUME Deletion \notin Conns, StorageInv, DeleteStorage \/ AskDelete \/ Deleted
  PROVE  StorageInv'
<1>1. CASE DeleteStorage
  <2>1. /\ deleting = "idle" /\ deleting' = "closing" /\ awaited' = {idb[i] : i \in live}
        /\ UNCHANGED <<idb, conn, requests, live, status, of, awaits, reopened>>
    BY <1>1 DEF DeleteStorage, AllLive, calls
  <2> QED BY <2>1 DEF StorageInv, StorageShaped, OnceQueued, OwnConnection, WhenIdle, WhenClosing, NotAskedYet,
                      WhenAsked, Blocking
<1>2. CASE AskDelete
  <2>1. /\ deleting = "closing" /\ awaited = {} /\ deleting' = "asked"
        /\ requests' = Append(requests, Deletion)
        /\ UNCHANGED <<idb, conn, status, of, awaits, reopened>>
    BY <1>2 DEF AskDelete, calls
  <2>2. /\ requests' \in Seq(Conns \cup {Deletion}) /\ Len(requests') = Len(requests) + 1
        /\ Len(requests) \in Nat /\ requests'[Len(requests) + 1] = Deletion
        /\ \A j \in 1..Len(requests) : requests'[j] = requests[j]
    BY <2>1, AppendIs, LenProperties DEF StorageInv, StorageShaped
  <2>3. \A j \in 1..Len(requests) : requests[j] \in Conns /\ conn[requests[j]] = "queued"
    <3> SUFFICES ASSUME NEW j \in 1..Len(requests) PROVE requests[j] \in Conns /\ conn[requests[j]] = "queued"
      OBVIOUS
    <3>1. requests[j] \in Conns \cup {Deletion} /\ requests[j] # Deletion
      BY <2>1, ElementOfSeq DEF StorageInv, StorageShaped, NotAskedYet
    <3> QED BY <3>1 DEF StorageInv, OnceQueued
  <2>4. \A c \in Conns : ~Blocking(c)
    BY <2>1 DEF StorageInv, WhenClosing
  <2>5. OnceQueued'
    <3> SUFFICES ASSUME NEW j \in 1..Len(requests'), requests'[j] \in Conns
                 PROVE  /\ conn[requests'[j]] = "queued"
                        /\ \A k \in 1..Len(requests') : requests'[k] = requests'[j] => k = j
      BY <2>1 DEF OnceQueued
    <3>1. j \in 1..Len(requests) /\ requests'[j] = requests[j]
      BY <2>2
    <3>2. \A k \in 1..Len(requests') : requests'[k] = requests'[j] => k \in 1..Len(requests)
      BY <2>2
    <3> QED BY <2>2, <3>1, <3>2 DEF StorageInv, OnceQueued
  <2>6. WhenAsked'
    <3>1. \A c \in Conns : conn[c] = "open" => c \in reopened
      BY <2>4 DEF Blocking
    <3>2. \A j \in 1..Len(requests) : requests'[j] \in reopened
      BY <2>2, <2>3, <2>4 DEF Blocking
    <3> QED BY <2>1, <2>2, <3>1, <3>2 DEF WhenAsked, Before
  <2> QED BY <2>1, <2>2, <2>5, <2>6 DEF StorageInv, StorageShaped, OwnConnection, WhenIdle, WhenClosing, NotAskedYet
<1>3. CASE Deleted
  <2>1. /\ requests # <<>> /\ requests' = Tail(requests) /\ deleting' = "done"
        /\ UNCHANGED <<idb, conn, status, of, awaits, reopened>>
    BY <1>3 DEF Deleted, calls
  <2>2. requests' \in Seq(Conns \cup {Deletion}) /\ OnceQueued'
    BY <2>1, TailKeeps DEF StorageInv
  <2> QED BY <2>1, <2>2 DEF StorageInv, StorageShaped, OwnConnection, WhenIdle, WhenClosing, NotAskedYet, WhenAsked
<1> QED BY <1>1, <1>2, <1>3

(* A connection closes; the deletion no longer waits for it.               *)
LEMMA ClosesKeepsStorageInv ==
  ASSUME StorageInv, NEW c \in Conns, Closes(c) \/ Collect(c)
  PROVE  StorageInv'
<1>1. /\ UNCHANGED <<idb, requests, live, status, of, awaits, reopened>>
      /\ conn[c] # "queued"
      /\ conn' = conn \/ conn' = [conn EXCEPT ![c] = "closed"]
      /\ conn[c] = "open" => conn' = [conn EXCEPT ![c] = "closed"]
      /\ conn[c] # "open" => conn' = conn
      /\ awaited' = awaited \/ awaited' = awaited \ {c}
      /\ deleting' = deleting \/ deleting' = "failed"
  BY DEF Closes, Collect, maps, calls, deletion
<1>2. /\ conn' \in [Conns -> {"unused", "queued", "open", "closed", "refused"}]
      /\ \A d \in Conns : conn'[d] = conn[d] \/ (conn[d] = "open" /\ conn'[d] = "closed")
  BY <1>1 DEF StorageInv, StorageShaped
<1>3. OnceQueued' /\ \A d \in Conns : Blocking(d)' => Blocking(d)
  BY <1>1, <1>2, ClosingKeeps DEF StorageInv
<1>4. ~Blocking(c)'
  BY <1>1 DEF Blocking, StorageInv, StorageShaped
<1>5. StorageShaped'
  BY <1>1, <1>2 DEF StorageInv, StorageShaped
<1>6. OwnConnection' /\ NotAskedYet'
  BY <1>1 DEF StorageInv, OwnConnection, NotAskedYet
<1>7. WhenIdle' /\ WhenClosing'
  BY <1>1, <1>3, <1>4 DEF StorageInv, WhenIdle, WhenClosing
<1>8. WhenAsked'
  BY <1>1, <1>2 DEF StorageInv, WhenAsked, Before
<1> QED BY <1>3, <1>5, <1>6, <1>7, <1>8 DEF StorageInv

(* Steps of calls that move no connection.                                 *)
LEMMA CallKeepsStorageInv ==
  ASSUME Null \notin Conns, StorageInv, NEW o \in Calls,
         \/ Transact(o) \/ CallFails(o)
         \/ \E i \in Instances, w \in Values \cup {Null, "read"} : CallItem(o, i, w)
  PROVE  StorageInv'
<1>1. UNCHANGED <<idb, conn, requests, live, deleting, awaited, reopened>>
  BY DEF Transact, CallFails, CallItem, maps, deletion
<1>2. StorageShaped' /\ OwnConnection'
  <2>1. CASE Transact(o) \/ CallFails(o)
    <3>1. /\ UNCHANGED <<of, awaits>>
          /\ \E s \in {"applied", "failed"} : status' = [status EXCEPT ![o] = s]
      BY <2>1 DEF Transact, CallFails
    <3> QED BY <1>1, <3>1 DEF StorageInv, StorageShaped, OwnConnection
  <2>2. ASSUME NEW i \in Instances, NEW w \in Values \cup {Null, "read"}, CallItem(o, i, w)
        PROVE  StorageShaped' /\ OwnConnection'
    <3>1. /\ idb[i] \in Conns /\ status' = [status EXCEPT ![o] = "called"]
          /\ of' = [of EXCEPT ![o] = i] /\ awaits' = [awaits EXCEPT ![o] = idb[i]]
      BY <2>2 DEF CallItem, StorageInv, StorageShaped
    <3> QED BY <1>1, <3>1 DEF StorageInv, StorageShaped, OwnConnection
  <2> QED BY <2>1, <2>2
<1> QED BY <1>1, <1>2 DEF StorageInv, OnceQueued, WhenIdle, WhenClosing, NotAskedYet, WhenAsked, Blocking, Before

LEMMA StepKeepsStorageInv ==
  ASSUME Deletion \notin Conns, Null \notin Conns, StorageInv, [StorageNext]_storageVars
  PROVE  StorageInv'
<1>1. ASSUME NEW i \in Instances, Close(i) PROVE StorageInv'
  BY <1>1 DEF Close, maps, calls, deletion, StorageInv, StorageShaped, OnceQueued, OwnConnection, WhenIdle,
              WhenClosing, NotAskedYet, WhenAsked, Blocking, Before
<1>2. CASE UNCHANGED storageVars
  BY <1>2 DEF storageVars, maps, calls, deletion, StorageInv, StorageShaped, OnceQueued, OwnConnection, WhenIdle,
              WhenClosing, NotAskedYet, WhenAsked, Blocking, Before
<1> QED BY <1>1, <1>2, ConstructKeepsStorageInv, ReopenKeepsStorageInv, EndedKeepsStorageInv, OpenedKeepsStorageInv,
           DeletionKeepsStorageInv, ClosesKeepsStorageInv, CallKeepsStorageInv DEF StorageNext

(* A deletion waits only for connections that were opened again because    *)
(* another had closed, or by an instance made while it closes the others.  *)
THEOREM DeletionIsUnhindered == StorageSpec => []DeleteUnhindered
<1>1. StorageInv /\ [StorageNext]_storageVars => StorageInv'
  BY StepKeepsStorageInv, StorageAssumption
<1>2. StorageInv => DeleteUnhindered
  BY DEF StorageInv, WhenAsked, DeleteUnhindered
<1> QED BY InitStorageInv, <1>1, <1>2, PTL DEF StorageSpec

(* Types.  The connection of a live instance exists.                       *)
LiveConnected == \A i \in live : idb[i] \in Conns
StorageTyped == StorageTypeOK /\ LiveConnected

LEMMA OpenKeepsTypes ==
  ASSUME Null \notin Conns, StorageTyped, NEW i, OpenDB(i)
  PROVE  /\ New \in Conns /\ idb' \in [Instances -> Conns \cup {Null}]
         /\ conn' \in [Conns -> {"unused", "queued", "open", "closed", "refused"}]
         /\ requests' \in Seq(Conns \cup {Deletion})
         /\ \A j \in live : idb'[j] \in Conns
<1>1. New \in Conns
  BY FreshIs DEF OpenDB
<1>2. idb' = [idb EXCEPT ![i] = New] /\ conn' = [conn EXCEPT ![New] = "queued"] /\ requests' = Append(requests, New)
  BY DEF OpenDB
<1>3. idb \in [Instances -> Conns \cup {Null}] /\ live \subseteq Instances /\ \A j \in live : idb[j] \in Conns
  BY DEF StorageTyped, StorageTypeOK, LiveConnected
<1>4. conn' \in [Conns -> {"unused", "queued", "open", "closed", "refused"}]
  BY <1>1, <1>2 DEF StorageTyped, StorageTypeOK
<1>5. requests' \in Seq(Conns \cup {Deletion})
  BY <1>1, <1>2 DEF StorageTyped, StorageTypeOK
<1> QED BY <1>1, <1>2, <1>3, <1>4, <1>5

LEMMA StepKeepsStorageTyped ==
  ASSUME Null \notin Conns, StorageTyped, [StorageNext]_storageVars
  PROVE  StorageTyped'
<1> DEFINE Idb == [Instances -> Conns \cup {Null}]
           Conn == [Conns -> {"unused", "queued", "open", "closed", "refused"}]
           Status == [Calls -> {"none", "called", "applied", "failed"}]
<1>0. /\ value \in Values \cup {Null} /\ idb \in Idb /\ conn \in Conn
      /\ requests \in Seq(Conns \cup {Deletion}) /\ instance \in Instances \cup {Null}
      /\ live \subseteq Instances /\ want \in [Calls -> Values \cup {Null, "read"}] /\ status \in Status
      /\ result \in [Calls -> Values \cup {Null}] /\ of \in [Calls -> Instances \cup {Null}]
      /\ awaits \in [Calls -> Conns \cup {Null}] /\ retried \subseteq Calls
      /\ closing \subseteq Conns /\ awaited \subseteq Conns /\ reopened \subseteq Conns
      /\ deleting \in {"idle", "closing", "asked", "done", "failed"}
      /\ \A i \in live : idb[i] \in Conns
  BY DEF StorageTyped, StorageTypeOK, LiveConnected
<1>1. ASSUME NEW i \in Instances, Construct(i) PROVE StorageTyped'
  <2>1. /\ New \in Conns /\ idb' \in Idb /\ conn' \in Conn /\ requests' \in Seq(Conns \cup {Deletion})
        /\ \A j \in live : idb'[j] \in Conns
    BY <1>1, OpenKeepsTypes DEF Construct
  <2>2. live' = live \cup {i} /\ idb'[i] = New
    BY <1>0, <1>1 DEF Construct, OpenDB
  <2>3. reopened' \subseteq Conns /\ instance' \in Instances \cup {Null}
    BY <1>0, <1>1, <2>1 DEF Construct
  <2>4. UNCHANGED <<value, calls, closing, deletion>>
    BY <1>1 DEF Construct
  <2> QED BY <1>0, <2>1, <2>2, <2>3, <2>4 DEF StorageTyped, StorageTypeOK, LiveConnected, calls, deletion
<1>2. ASSUME NEW o \in Calls, Reopen(o) PROVE StorageTyped'
  <2>1. /\ New \in Conns /\ idb' \in Idb /\ conn' \in Conn /\ requests' \in Seq(Conns \cup {Deletion})
        /\ \A j \in live : idb'[j] \in Conns
    BY <1>2, OpenKeepsTypes DEF Reopen
  <2>2. awaits' = [awaits EXCEPT ![o] = New] /\ retried' = retried \cup {o} /\ reopened' = reopened \cup {New}
        /\ value' = value
    BY <1>2 DEF Reopen, AsBefore
  <2>3. UNCHANGED <<maps, want, status, result, of, closing, deletion>>
    BY <1>2 DEF Reopen
  <2> QED BY <1>0, <2>1, <2>2, <2>3 DEF StorageTyped, StorageTypeOK, LiveConnected, maps, deletion
<1>3. ASSUME NEW i \in Instances, Ended(i) PROVE StorageTyped'
  <2>1. New \in Conns /\ idb' = [idb EXCEPT ![i] = New] /\ requests' = Append(requests, New)
        /\ conn' = [conn EXCEPT ![idb[i]] = "closed", ![New] = "queued"] /\ reopened' = reopened \cup {New}
    BY <1>3, FreshIs DEF Ended
  <2>2. idb' \in Idb /\ conn' \in Conn /\ requests' \in Seq(Conns \cup {Deletion})
    BY <1>0, <2>1
  <2>3. \A j \in live : idb'[j] \in Conns
    BY <1>0, <2>1
  <2>4. UNCHANGED <<value, maps, calls, closing, deletion>>
    BY <1>3 DEF Ended
  <2> QED BY <1>0, <2>1, <2>2, <2>3, <2>4 DEF StorageTyped, StorageTypeOK, LiveConnected, maps, calls, deletion
<1>4. ASSUME Opened PROVE StorageTyped'
  <2>1. requests # <<>> /\ requests' = Tail(requests) /\ conn' \in Conn
    BY <1>0, <1>4 DEF Opened
  <2>2. requests' \in Seq(Conns \cup {Deletion})
    BY <1>0, <2>1
  <2> QED BY <1>0, <1>4, <2>1, <2>2 DEF Opened, StorageTyped, StorageTypeOK, LiveConnected, maps, calls, deletion
<1>5. ASSUME NEW i \in Instances, NEW o \in Calls, NEW w \in Values \cup {Null, "read"}, CallItem(o, i, w)
      PROVE  StorageTyped'
  <2>1. /\ status' = [status EXCEPT ![o] = "called"] /\ want' = [want EXCEPT ![o] = w]
        /\ of' = [of EXCEPT ![o] = i] /\ awaits' = [awaits EXCEPT ![o] = idb[i]]
        /\ UNCHANGED <<value, idb, conn, requests, maps, result, retried, closing, deletion, reopened>>
    BY <1>5 DEF CallItem
  <2> QED BY <1>0, <2>1 DEF StorageTyped, StorageTypeOK, LiveConnected, maps, deletion
<1>6. ASSUME NEW o \in Calls, Transact(o) PROVE StorageTyped'
  <2>1. status' = [status EXCEPT ![o] = "applied"]
        /\ UNCHANGED <<idb, conn, requests, maps, want, of, awaits, retried, closing, deletion, reopened>>
    BY <1>6 DEF Transact
  <2>2. CASE want[o] = "read"
    <3>1. result' = [result EXCEPT ![o] = value] /\ UNCHANGED value
      BY <1>6, <2>2 DEF Transact
    <3> QED BY <1>0, <2>1, <3>1 DEF StorageTyped, StorageTypeOK, LiveConnected, maps, deletion
  <2>3. CASE want[o] # "read"
    <3>1. value' \in Values \cup {Null} /\ UNCHANGED result
      BY <1>0, <1>6, <2>3 DEF Transact
    <3> QED BY <1>0, <2>1, <3>1 DEF StorageTyped, StorageTypeOK, LiveConnected, maps, deletion
  <2> QED BY <2>2, <2>3
<1>7. ASSUME NEW o \in Calls, CallFails(o) PROVE StorageTyped'
  <2>1. status' = [status EXCEPT ![o] = "failed"]
        /\ UNCHANGED <<value, idb, conn, requests, maps, want, result, of, awaits, retried, closing,
                       deletion, reopened>>
    BY <1>7 DEF CallFails
  <2> QED BY <1>0, <2>1 DEF StorageTyped, StorageTypeOK, LiveConnected, maps, deletion
<1>8. ASSUME NEW i \in Instances, Close(i) PROVE StorageTyped'
  BY <1>0, <1>8 DEF Close, StorageTyped, StorageTypeOK, LiveConnected, maps, calls, deletion
<1>9. ASSUME NEW c \in Conns, Closes(c) PROVE StorageTyped'
  BY <1>0, <1>9 DEF Closes, StorageTyped, StorageTypeOK, LiveConnected, maps, calls
<1>10. ASSUME NEW c \in Conns, Collect(c) PROVE StorageTyped'
  BY <1>0, <1>10 DEF Collect, StorageTyped, StorageTypeOK, LiveConnected, maps, calls, deletion
<1>11. ASSUME DeleteStorage PROVE StorageTyped'
  <2>1. awaited' \subseteq Conns
    BY <1>0, <1>11 DEF DeleteStorage, AllLive
  <2> QED BY <1>0, <1>11, <2>1 DEF DeleteStorage, StorageTyped, StorageTypeOK, LiveConnected, calls
<1>12. ASSUME AskDelete PROVE StorageTyped'
  <2>1. requests' \in Seq(Conns \cup {Deletion})
    BY <1>0, <1>12 DEF AskDelete
  <2> QED BY <1>0, <1>12, <2>1 DEF AskDelete, StorageTyped, StorageTypeOK, LiveConnected, calls
<1>13. ASSUME Deleted PROVE StorageTyped'
  <2>1. requests' \in Seq(Conns \cup {Deletion})
    BY <1>0, <1>13 DEF Deleted
  <2> QED BY <1>0, <1>13, <2>1 DEF Deleted, StorageTyped, StorageTypeOK, LiveConnected, maps, calls
<1>14. CASE UNCHANGED storageVars
  BY <1>0, <1>14 DEF storageVars, StorageTyped, StorageTypeOK, LiveConnected, maps, calls, deletion
<1> QED BY <1>1, <1>2, <1>3, <1>4, <1>5, <1>6, <1>7, <1>8, <1>9, <1>10, <1>11, <1>12, <1>13, <1>14 DEF StorageNext

(* The state of a storage stays well typed; deleteStorage finds a          *)
(* connection to close at every live instance (main.js:653).               *)
THEOREM StorageTypedHolds == StorageSpec => []StorageTypeOK
<1>1. StorageInit => StorageTyped
  BY DEF StorageInit, StorageTyped, StorageTypeOK, LiveConnected
<1>2. StorageTyped /\ [StorageNext]_storageVars => StorageTyped'
  BY StepKeepsStorageTyped, StorageAssumption
<1>3. StorageTyped => StorageTypeOK
  BY DEF StorageTyped
<1> QED BY <1>1, <1>2, <1>3, PTL DEF StorageSpec

------------------------------------------------------------------------------
(* CredentialExchange: for any requests, imports, signTimes and attempts.  *)

Stages == {"timeout", "after timeout", "after send"}
CredentialShaped ==
  /\ entry \in Reqs \cup {None}
  /\ state \in [Reqs -> {"none", "waiting", "resolved", "rejected"}]
  /\ timer \in [Reqs -> (Reqs \X Int \X Stages) \cup {None}]
  /\ attempts \in [Reqs -> Int]
  /\ timers \subseteq Reqs \X Int \X Stages
  /\ sends \subseteq Reqs \X Int

(* While no request was crossed by another, the request in the map is the  *)
(* only one that waits, and its timer and all other work are its own.      *)
OneAtATime ==
  ~crossed =>
    /\ \A r \in Reqs : state[r] = "waiting" => entry = r /\ timer[r] \in timers
    /\ entry # None => \A t \in sends \cup timers : t[1] = entry
CredentialInv == CredentialShaped /\ OneAtATime

LEMMA TimerShape ==
  ASSUME NEW r \in Reqs, NEW n \in Int
  PROVE  /\ <<r, n>> \in Reqs \X Int /\ <<r, n, "timeout">> \in Reqs \X Int \X Stages
BY DEF Stages

LEMMA AttemptKeepsCredentialInv ==
  ASSUME None \notin Reqs, CredentialInv, NEW r \in Reqs, NEW running \in SUBSET timers,
         entry = r, Attempt(r, running), UNCHANGED <<entry, state, crossed>>
  PROVE  CredentialInv'
<1> DEFINE n == attempts[r] + 1
           t == <<r, n, "timeout">>
<1>1. n \in Int /\ t \in Reqs \X Int \X Stages /\ <<r, n>> \in Reqs \X Int
  <2>1. attempts[r] \in Int
    BY DEF CredentialInv, CredentialShaped
  <2>2. n \in Int
    BY <2>1
  <2> HIDE DEF n
  <2> QED BY <2>2, TimerShape DEF t
<1>2. /\ attempts' = [attempts EXCEPT ![r] = n] /\ timer' = [timer EXCEPT ![r] = t]
      /\ timers' = running \cup {t} /\ sends' = sends \cup {<<r, n>>}
  BY DEF Attempt
<1>3. CredentialShaped'
  BY <1>1, <1>2 DEF CredentialInv, CredentialShaped
<1>4. OneAtATime'
  <2> SUFFICES ASSUME ~crossed PROVE OneAtATime'
    BY DEF OneAtATime
  <2>1. timer'[r] \in timers'
    BY <1>1, <1>2 DEF CredentialInv, CredentialShaped
  <2>2. \A q \in Reqs : state[q] = "waiting" => q = r
    BY DEF CredentialInv, OneAtATime
  <2>3. \A u \in sends' \cup timers' : u[1] = r
    BY <1>2 DEF CredentialInv, OneAtATime
  <2> QED BY <2>1, <2>2, <2>3 DEF OneAtATime
<1> QED BY <1>3, <1>4 DEF CredentialInv

LEMMA FailKeepsCredentialInv ==
  ASSUME None \notin Reqs, CredentialInv, NEW r \in Reqs, NEW n \in Int, NEW stage \in Stages,
         NEW running \in SUBSET timers, ~crossed /\ entry # None => r = entry,
         Fails(r, n, stage, running), sends' \subseteq sends, UNCHANGED <<attempts, crossed>>
  PROVE  CredentialInv'
<1> USE DEF Fails, Fail
<1>1. CASE attempts[r] >= MaxAttempts
  <2>1. /\ timers' = running \ {timer[r]} /\ entry' = None /\ UNCHANGED timer
        /\ state' = [state EXCEPT ![r] = IF @ = "waiting" THEN "rejected" ELSE @]
    BY <1>1
  <2>2. CredentialShaped'
    BY <2>1 DEF CredentialInv, CredentialShaped
  <2>3. ~crossed => \A q \in Reqs : state'[q] # "waiting"
    BY <2>1 DEF CredentialInv, CredentialShaped, OneAtATime
  <2> QED BY <2>1, <2>2, <2>3 DEF CredentialInv, OneAtATime
<1>2. CASE ~(attempts[r] >= MaxAttempts)
  <2> DEFINE t == <<r, n, stage>>
  <2>1. /\ timers' = (running \ {timer[r]}) \cup {t}
        /\ timer' = [timer EXCEPT ![r] = t] /\ UNCHANGED <<entry, state>>
    BY <1>2
  <2>2. CredentialShaped'
    BY <2>1 DEF CredentialInv, CredentialShaped
  <2>3. OneAtATime'
    <3> SUFFICES ASSUME ~crossed PROVE OneAtATime'
      BY DEF OneAtATime
    <3>1. timer'[r] \in timers'
      BY <2>1 DEF CredentialInv, CredentialShaped
    <3>2. \A q \in Reqs : state[q] = "waiting" => q = entry /\ q = r
      BY DEF CredentialInv, OneAtATime
    <3>3. entry # None => \A u \in sends' \cup timers' : u[1] = entry
      BY <2>1 DEF CredentialInv, OneAtATime
    <3> QED BY <2>1, <3>1, <3>2, <3>3 DEF OneAtATime
  <2> QED BY <2>2, <2>3 DEF CredentialInv
<1> QED BY <1>1, <1>2

(* An answer settles the request in the map, whichever that is.            *)
LEMMA SettleKeepsCredentialInv ==
  ASSUME None \notin Reqs, CredentialInv, NEW how \in {"resolved", "rejected"}, Settle(how),
         UNCHANGED <<attempts, timer, sends, crossed>>
  PROVE  CredentialInv'
<1>1. CASE entry = None
  BY <1>1 DEF Settle, CredentialInv, CredentialShaped, OneAtATime
<1>2. CASE entry # None
  <2>1. /\ entry' = None /\ state' = [state EXCEPT ![entry] = how]
        /\ timers' = timers \ {timer[entry]}
    BY <1>2 DEF Settle
  <2>2. CredentialShaped'
    BY <2>1, <1>2 DEF CredentialInv, CredentialShaped
  <2>3. ~crossed => \A q \in Reqs : state'[q] # "waiting"
    BY <2>1, <1>2 DEF CredentialInv, CredentialShaped, OneAtATime
  <2> QED BY <2>1, <2>2, <2>3 DEF CredentialInv, OneAtATime
<1> QED BY <1>1, <1>2

LEMMA InitCredentialInv == None \notin Reqs /\ CredentialInit => CredentialInv
<1> SUFFICES ASSUME None \notin Reqs, CredentialInit PROVE CredentialInv
  OBVIOUS
<1>1. CredentialShaped
  BY DEF CredentialInit, CredentialShaped
<1>2. OneAtATime
  BY DEF CredentialInit, OneAtATime
<1> QED BY <1>1, <1>2 DEF CredentialInv

LEMMA StepKeepsCredentialInv ==
  ASSUME None \notin Reqs, CredentialInv, [CredentialNext]_credentialVars
  PROVE  CredentialInv'
<1>1. ASSUME NEW r \in Reqs, RequestRecord(r) PROVE CredentialInv'
  <2> DEFINE n == attempts[r] + 1
             t == <<r, n, "timeout">>
  <2>1. n \in Int /\ t \in Reqs \X Int \X Stages /\ <<r, n>> \in Reqs \X Int
    <3>1. attempts[r] \in Int
      BY DEF CredentialInv, CredentialShaped
    <3>2. n \in Int
      BY <3>1
    <3> HIDE DEF n
    <3> QED BY <3>2, TimerShape DEF t
  <2>2. /\ entry = None /\ entry' = r /\ state' = [state EXCEPT ![r] = "waiting"]
        /\ attempts' = [attempts EXCEPT ![r] = n] /\ timer' = [timer EXCEPT ![r] = t]
        /\ timers' = timers \cup {t} /\ sends' = sends \cup {<<r, n>>}
        /\ crossed' = (crossed \/ sends # {} \/ timers # {})
    BY <1>1 DEF RequestRecord, Attempt
  <2>3. CredentialShaped'
    BY <2>1, <2>2 DEF CredentialInv, CredentialShaped
  <2>4. OneAtATime'
    <3> SUFFICES ASSUME ~crossed' PROVE OneAtATime'
      BY DEF OneAtATime
    <3>1. ~crossed /\ sends = {} /\ timers = {}
      BY <2>2
    <3>2. timer'[r] \in timers'
      BY <2>1, <2>2 DEF CredentialInv, CredentialShaped
    <3>3. \A q \in Reqs : state'[q] = "waiting" => q = r
      BY <2>2, <3>1 DEF CredentialInv, CredentialShaped, OneAtATime
    <3>4. \A u \in sends' \cup timers' : u[1] = r
      BY <2>2, <3>1
    <3> QED BY <2>2, <3>2, <3>3, <3>4 DEF OneAtATime
  <2> QED BY <2>3, <2>4 DEF CredentialInv
<1>2. ASSUME NEW r \in Reqs, NEW n \in 1..attempts[r], TimedOut(r, n) PROVE CredentialInv'
  <2>1. n \in Int /\ <<r, n, "timeout">> \in timers
    BY <1>2 DEF CredentialInv, CredentialShaped, TimedOut
  <2>2. ~crossed /\ entry # None => r = entry
    BY <2>1 DEF CredentialInv, OneAtATime
  <2>3. /\ Fails(r, n, "after timeout", timers \ {<<r, n, "timeout">>}) /\ sends' \subseteq sends
        /\ UNCHANGED <<attempts, crossed>>
    BY <1>2 DEF TimedOut
  <2>4. timers \ {<<r, n, "timeout">>} \in SUBSET timers /\ "after timeout" \in Stages
    BY DEF Stages
  <2> QED BY <2>1, <2>2, <2>3, <2>4, FailKeepsCredentialInv
<1>3. ASSUME NEW t \in timers, Retry(t) PROVE CredentialInv'
  <2>1. CASE entry = None
    BY <1>3, <2>1 DEF Retry, CredentialInv, CredentialShaped, OneAtATime
  <2>2. CASE entry # None
    <3>1. entry \in Reqs
      BY <2>2 DEF CredentialInv, CredentialShaped
    <3> QED BY <1>3, <2>2, <3>1, AttemptKeepsCredentialInv DEF Retry
  <2> QED BY <2>1, <2>2
<1>4. ASSUME NEW s \in sends, Sent(s) PROVE CredentialInv'
  BY <1>4 DEF Sent, CredentialInv, CredentialShaped, OneAtATime
<1>5. ASSUME NEW s \in sends, SendFailed(s) PROVE CredentialInv'
  <2>1. s[1] \in Reqs /\ s[2] \in Int
    BY DEF CredentialInv, CredentialShaped
  <2>2. ~crossed /\ entry # None => s[1] = entry
    BY DEF CredentialInv, OneAtATime
  <2>3. /\ Fails(s[1], s[2], "after send", timers) /\ sends' \subseteq sends
        /\ UNCHANGED <<attempts, crossed>>
    BY <1>5 DEF SendFailed
  <2>4. timers \in SUBSET timers /\ "after send" \in Stages
    BY DEF Stages
  <2> QED BY <2>1, <2>2, <2>3, <2>4, FailKeepsCredentialInv
<1>6. ASSUME NEW s \in asked, HandleCredRequest(s) PROVE CredentialInv'
  BY <1>6 DEF HandleCredRequest, requestVars, CredentialInv, CredentialShaped, OneAtATime
<1>7. ASSUME NEW a \in answers, HandleCredResponse(a) PROVE CredentialInv'
  <2>1. UNCHANGED <<attempts, timer, sends, crossed>>
        /\ (Settle("resolved") \/ UNCHANGED <<entry, state, timers>>)
    BY <1>7 DEF HandleCredResponse
  <2> QED BY <2>1, SettleKeepsCredentialInv DEF CredentialInv, CredentialShaped, OneAtATime
<1>8. ASSUME NEW i \in Imports, NEW v \in Signs, Import(i, v) PROVE CredentialInv'
  BY <1>8 DEF Import, requestVars, CredentialInv, CredentialShaped, OneAtATime
<1>9. ASSUME NEW m \in imports, Check(m) \/ SaveCertIfNewer(m) PROVE CredentialInv'
  <2>1. /\ UNCHANGED <<attempts, timer, sends, crossed>>
        /\ \/ Settle("resolved") \/ Settle("rejected")
           \/ UNCHANGED <<entry, state, timers>>
    BY <1>9 DEF Check, SaveCertIfNewer, Finish
  <2> QED BY <2>1, SettleKeepsCredentialInv DEF CredentialInv, CredentialShaped, OneAtATime
<1>10. CASE DeleteRecord \/ \E v \in Signs : PeerSigns(v)
  BY <1>10 DEF DeleteRecord, PeerSigns, requestVars, CredentialInv, CredentialShaped, OneAtATime
<1>11. CASE UNCHANGED credentialVars
  BY <1>11 DEF credentialVars, requestVars, CredentialInv, CredentialShaped, OneAtATime
<1> QED BY <1>1, <1>2, <1>3, <1>4, <1>5, <1>6, <1>7, <1>8, <1>9, <1>10, <1>11 DEF CredentialNext

(* A request that waits keeps its entry and a running timer until another  *)
(* request for the key crosses it, whatever is sent, lost and answered.    *)
THEOREM WaitingRequestsSettle == CredentialSpec => []SettlesIfAlone
<1>1. CredentialInit => CredentialInv
  BY InitCredentialInv, CredentialAssumption
<1>2. CredentialInv /\ [CredentialNext]_credentialVars => CredentialInv'
  BY StepKeepsCredentialInv, CredentialAssumption
<1>3. CredentialInv => SettlesIfAlone
  BY DEF CredentialInv, OneAtATime, SettlesIfAlone
<1> QED BY <1>1, <1>2, <1>3, PTL DEF CredentialSpec

(* Types: the number of attempts has no bound of its own, as a retry of one *)
(* request may serve another.                                              *)
LEMMA AttemptKeepsTypes ==
  ASSUME CredentialTypeOK, NEW r \in Reqs, NEW running \in SUBSET timers, Attempt(r, running)
  PROVE  /\ attempts' \in [Reqs -> Nat] /\ timer' \in [Reqs -> Timers \cup {None}]
         /\ timers' \subseteq Timers /\ sends' \subseteq Tries
<1> DEFINE n == attempts[r] + 1
           t == <<r, n, "timeout">>
<1>1. n \in Nat
  BY DEF CredentialTypeOK
<1>2. /\ attempts' = [attempts EXCEPT ![r] = n] /\ timer' = [timer EXCEPT ![r] = t]
      /\ timers' = running \cup {t} /\ sends' = sends \cup {<<r, n>>}
  BY DEF Attempt
<1> HIDE DEF n
<1>3. t \in Timers /\ <<r, n>> \in Tries
  BY <1>1 DEF Timers, Tries
<1> HIDE DEF t
<1>4. /\ attempts \in [Reqs -> Nat] /\ timer \in [Reqs -> Timers \cup {None}]
      /\ timers \subseteq Timers /\ sends \subseteq Tries
  BY DEF CredentialTypeOK
<1> QED BY <1>1, <1>2, <1>3, <1>4

LEMMA FailKeepsTypes ==
  ASSUME CredentialTypeOK, NEW r \in Reqs, NEW n \in Nat, NEW stage \in {"after timeout", "after send"},
         NEW running \in SUBSET timers, Fails(r, n, stage, running)
  PROVE  /\ entry' \in Reqs \cup {None} /\ state' \in [Reqs -> {"none", "waiting", "resolved", "rejected"}]
         /\ timer' \in [Reqs -> Timers \cup {None}] /\ timers' \subseteq Timers
<1> DEFINE t == <<r, n, stage>>
<1>1. t \in Timers
  BY DEF Timers
<1>2. /\ entry \in Reqs \cup {None} /\ state \in [Reqs -> {"none", "waiting", "resolved", "rejected"}]
      /\ timer \in [Reqs -> Timers \cup {None}] /\ timers \subseteq Timers
  BY DEF CredentialTypeOK
<1>3. \/ /\ timers' = running \ {timer[r]} /\ entry' = None /\ UNCHANGED timer
         /\ state' = [state EXCEPT ![r] = IF @ = "waiting" THEN "rejected" ELSE @]
      \/ /\ timers' = (running \ {timer[r]}) \cup {t} /\ timer' = [timer EXCEPT ![r] = t]
         /\ UNCHANGED <<entry, state>>
  BY DEF Fails, Fail
<1> HIDE DEF t
<1> QED BY <1>1, <1>2, <1>3

LEMMA AnswerKeepsTypes ==
  ASSUME CredentialTypeOK,
         \/ \E how \in {"resolved", "rejected"} : Settle(how)
         \/ UNCHANGED <<entry, state, timers>>
  PROVE  /\ entry' \in Reqs \cup {None} /\ state' \in [Reqs -> {"none", "waiting", "resolved", "rejected"}]
         /\ timers' \subseteq Timers
<1>1. /\ entry \in Reqs \cup {None} /\ state \in [Reqs -> {"none", "waiting", "resolved", "rejected"}]
      /\ timers \subseteq Timers
  BY DEF CredentialTypeOK
<1>2. CASE UNCHANGED <<entry, state, timers>>
  BY <1>1, <1>2
<1>3. ASSUME NEW how \in {"resolved", "rejected"}, Settle(how), entry # None
      PROVE  /\ entry' = None /\ state' \in [Reqs -> {"none", "waiting", "resolved", "rejected"}]
             /\ timers' \subseteq Timers
  <2>1. entry' = None /\ state' = [state EXCEPT ![entry] = how] /\ timers' = timers \ {timer[entry]}
    BY <1>3 DEF Settle
  <2> QED BY <1>1, <2>1
<1>4. ASSUME NEW how \in {"resolved", "rejected"}, Settle(how), entry = None
      PROVE  UNCHANGED <<entry, state, timers>>
  BY <1>4 DEF Settle
<1> QED BY <1>1, <1>2, <1>3, <1>4

LEMMA StepKeepsCredentialTypes ==
  ASSUME MaxSign \in Nat, CredentialTypeOK, [CredentialNext]_credentialVars
  PROVE  CredentialTypeOK'
<1> DEFINE Promise == [Reqs -> {"none", "waiting", "resolved", "rejected"}]
           Work == (Tries \cup Imports) \X (Refused..MaxSign) \X {"check", "write"}
<1>0. /\ local \in Signs \cup {Nothing} /\ held \in Refused..MaxSign /\ entry \in Reqs \cup {None}
      /\ state \in Promise /\ attempts \in [Reqs -> Nat] /\ timer \in [Reqs -> Timers \cup {None}]
      /\ timers \subseteq Timers /\ sends \subseteq Tries /\ asked \subseteq Tries
      /\ answers \subseteq Tries \X (Refused..MaxSign) /\ imports \subseteq Work
      /\ imported \subseteq Imports /\ crossed \in BOOLEAN
  BY DEF CredentialTypeOK
<1>00. Signs \subseteq Refused..MaxSign
  BY DEF Signs, Refused
<1>1. ASSUME NEW r \in Reqs, RequestRecord(r) PROVE CredentialTypeOK'
  <2>1. /\ attempts' \in [Reqs -> Nat] /\ timer' \in [Reqs -> Timers \cup {None}]
        /\ timers' \subseteq Timers /\ sends' \subseteq Tries
    BY <1>1, AttemptKeepsTypes DEF RequestRecord
  <2>2. entry' = r /\ state' \in Promise /\ crossed' \in BOOLEAN /\ UNCHANGED <<store, net>>
    BY <1>0, <1>1 DEF RequestRecord
  <2> QED BY <1>0, <2>1, <2>2 DEF CredentialTypeOK, store, net
<1>2. ASSUME NEW r \in Reqs, NEW n \in 1..attempts[r], TimedOut(r, n) PROVE CredentialTypeOK'
  <2>1. n \in Nat
    BY <1>0
  <2>2. timers \ {<<r, n, "timeout">>} \in SUBSET timers
    OBVIOUS
  <2>3. /\ entry' \in Reqs \cup {None} /\ state' \in Promise
        /\ timer' \in [Reqs -> Timers \cup {None}] /\ timers' \subseteq Timers
    BY <1>2, <2>1, <2>2, FailKeepsTypes DEF TimedOut
  <2>4. UNCHANGED <<store, net, attempts, sends, crossed>>
    BY <1>2 DEF TimedOut
  <2> QED BY <1>0, <2>3, <2>4 DEF CredentialTypeOK, store, net
<1>3. ASSUME NEW t \in timers, Retry(t) PROVE CredentialTypeOK'
  <2>1. UNCHANGED <<store, net, entry, state, crossed>>
    BY <1>3 DEF Retry
  <2>2. CASE entry = None
    BY <1>0, <1>3, <2>1, <2>2 DEF Retry, CredentialTypeOK, store, net
  <2>3. CASE entry # None
    <3>1. entry \in Reqs /\ timers \ {t} \in SUBSET timers /\ Attempt(entry, timers \ {t})
      BY <1>0, <1>3, <2>3 DEF Retry
    <3>2. /\ attempts' \in [Reqs -> Nat] /\ timer' \in [Reqs -> Timers \cup {None}]
          /\ timers' \subseteq Timers /\ sends' \subseteq Tries
      BY <3>1, AttemptKeepsTypes
    <3> QED BY <1>0, <2>1, <3>2 DEF CredentialTypeOK, store, net
  <2> QED BY <2>2, <2>3
<1>4. ASSUME NEW s \in sends, Sent(s) PROVE CredentialTypeOK'
  BY <1>0, <1>4 DEF Sent, CredentialTypeOK, store
<1>5. ASSUME NEW s \in sends, SendFailed(s) PROVE CredentialTypeOK'
  <2>1. s[1] \in Reqs /\ s[2] \in Nat
    BY <1>0 DEF Tries
  <2>2. timers \in SUBSET timers
    OBVIOUS
  <2>3. Fails(s[1], s[2], "after send", timers)
    BY <1>5 DEF SendFailed
  <2>4. /\ entry' \in Reqs \cup {None} /\ state' \in Promise
        /\ timer' \in [Reqs -> Timers \cup {None}] /\ timers' \subseteq Timers
    BY <2>1, <2>2, <2>3, FailKeepsTypes
  <2>5. sends' = sends \ {s} /\ UNCHANGED <<store, net, attempts, crossed>>
    BY <1>5 DEF SendFailed
  <2> QED BY <1>0, <2>4, <2>5 DEF CredentialTypeOK, store, net
<1>6. ASSUME NEW s \in asked, HandleCredRequest(s) PROVE CredentialTypeOK'
  <2>1. /\ asked' = asked \ {s} /\ answers' = answers \cup {<<s, held>>} /\ UNCHANGED <<store, requestVars>>
    BY <1>6 DEF HandleCredRequest
  <2>2. answers' \subseteq Tries \X (Refused..MaxSign)
    BY <1>0, <2>1
  <2> QED BY <1>0, <2>1, <2>2 DEF CredentialTypeOK, store, requestVars
<1>7. ASSUME NEW a \in answers, HandleCredResponse(a) PROVE CredentialTypeOK'
  <2>1. /\ entry' \in Reqs \cup {None} /\ state' \in Promise /\ timers' \subseteq Timers
    <3>1. Settle("resolved") \/ UNCHANGED <<entry, state, timers>>
      BY <1>7 DEF HandleCredResponse
    <3> QED BY <3>1, AnswerKeepsTypes
  <2>2. imports' \subseteq Work
    <3>1. a[1] \in Tries /\ a[2] \in Refused..MaxSign
      BY <1>0
    <3>2. <<a[1], a[2], "check">> \in Work
      BY <3>1
    <3>3. imports' = imports \/ imports' = imports \cup {<<a[1], a[2], "check">>}
      BY <1>7 DEF HandleCredResponse
    <3> HIDE DEF Work
    <3> QED BY <1>0, <3>2, <3>3
  <2>3. answers' = answers \ {a} /\ UNCHANGED <<local, held, imported, attempts, timer, sends, crossed, asked>>
    BY <1>7 DEF HandleCredResponse
  <2> QED BY <1>0, <2>1, <2>2, <2>3 DEF CredentialTypeOK
<1>8. ASSUME NEW i \in Imports, NEW v \in Signs, Import(i, v) PROVE CredentialTypeOK'
  <2>1. imported' = imported \cup {i} /\ imports' = imports \cup {<<i, v, "check">>}
        /\ UNCHANGED <<local, held, requestVars, net>>
    BY <1>8 DEF Import
  <2>2. <<i, v, "check">> \in Work
    BY <1>00
  <2>3. imports' \subseteq Work
    <3> HIDE DEF Work
    <3> QED BY <1>0, <2>1, <2>2
  <2> QED BY <1>0, <2>1, <2>3 DEF CredentialTypeOK, requestVars, net
<1>9. ASSUME NEW m \in imports, Check(m) PROVE CredentialTypeOK'
  <2>1. /\ entry' \in Reqs \cup {None} /\ state' \in Promise /\ timers' \subseteq Timers
    <3>1. Settle("resolved") \/ Settle("rejected") \/ UNCHANGED <<entry, state, timers>>
      BY <1>9 DEF Check, Finish
    <3> QED BY <3>1, AnswerKeepsTypes
  <2>2. imports' \subseteq Work
    <3>1. m[1] \in Tries \cup Imports /\ m[2] \in Refused..MaxSign
      BY <1>0
    <3>2. <<m[1], m[2], "write">> \in Work
      BY <3>1
    <3>3. imports' = imports \ {m} \/ imports' = (imports \ {m}) \cup {<<m[1], m[2], "write">>}
      BY <1>9 DEF Check, Finish
    <3> HIDE DEF Work
    <3> QED BY <1>0, <3>2, <3>3
  <2>3. UNCHANGED <<local, held, imported, attempts, timer, sends, crossed, net>>
    BY <1>9 DEF Check
  <2> QED BY <1>0, <2>1, <2>2, <2>3 DEF CredentialTypeOK, net
<1>10. ASSUME NEW m \in imports, SaveCertIfNewer(m) PROVE CredentialTypeOK'
  <2>1. /\ entry' \in Reqs \cup {None} /\ state' \in Promise /\ timers' \subseteq Timers
    <3>1. Settle("resolved") \/ UNCHANGED <<entry, state, timers>>
      BY <1>10 DEF SaveCertIfNewer, Finish
    <3> QED BY <3>1, AnswerKeepsTypes
  <2>2. local' \in Signs \cup {Nothing}
    <3>1. m[2] \in Refused..MaxSign
      BY <1>0
    <3>2. local' = IF m[2] > local THEN m[2] ELSE local
      BY <1>10 DEF SaveCertIfNewer, StillNewer
    <3> QED BY <1>0, <3>1, <3>2 DEF Signs, Nothing, Refused
  <2>3. imports' = imports \ {m} /\ UNCHANGED <<held, imported, attempts, timer, sends, crossed, net>>
    BY <1>10 DEF SaveCertIfNewer, Finish
  <2> QED BY <1>0, <2>1, <2>2, <2>3 DEF CredentialTypeOK, net
<1>11. CASE DeleteRecord
  BY <1>0, <1>11 DEF DeleteRecord, CredentialTypeOK, requestVars, net
<1>12. ASSUME NEW v \in Signs, PeerSigns(v) PROVE CredentialTypeOK'
  BY <1>0, <1>00, <1>12 DEF PeerSigns, CredentialTypeOK, requestVars, net
<1>13. CASE UNCHANGED credentialVars
  BY <1>0, <1>13 DEF credentialVars, CredentialTypeOK, store, requestVars, net
<1> QED BY <1>1, <1>2, <1>3, <1>4, <1>5, <1>6, <1>7, <1>8, <1>9, <1>10, <1>11, <1>12, <1>13 DEF CredentialNext

(* Requests, attempts and records on their way stay well typed: the record *)
(* that is written is one of the peer or of the application, never the     *)
(* refused one.                                                            *)
THEOREM CredentialExchangeTyped == CredentialSpec => []CredentialTypeOK
<1>1. CredentialInit => CredentialTypeOK
  <2> SUFFICES ASSUME CredentialInit PROVE CredentialTypeOK
    OBVIOUS
  <2>1. held \in Refused..MaxSign
    BY CredentialAssumption DEF CredentialInit, Signs, Nothing, Refused
  <2> QED BY <2>1 DEF CredentialInit, CredentialTypeOK
<1>2. CredentialTypeOK /\ [CredentialNext]_credentialVars => CredentialTypeOK'
  BY StepKeepsCredentialTypes, CredentialAssumption
<1> QED BY <1>1, <1>2, PTL DEF CredentialSpec

----------------------------------------------------------------------------
(* Records are numbers, at rest and on their way.                          *)
Numbered ==
  /\ local \in Int /\ held \in Int
  /\ \A a \in answers : a[2] \in Int
  /\ \A m \in imports : m[2] \in Int

LEMMA StepKeepsNumbered ==
  ASSUME MaxSign \in Nat, Numbered, [CredentialNext]_credentialVars
  PROVE  Numbered'
<1>1. Signs \subseteq Int
  BY DEF Signs
<1>2. ASSUME NEW r \in Reqs, RequestRecord(r) \/ \E n \in 1..attempts[r] : TimedOut(r, n) PROVE Numbered'
  BY <1>2 DEF RequestRecord, TimedOut, store, net, Numbered
<1>3. ASSUME NEW t \in timers, Retry(t) PROVE Numbered'
  BY <1>3 DEF Retry, store, net, Numbered
<1>4. ASSUME NEW s \in sends, Sent(s) \/ SendFailed(s) PROVE Numbered'
  BY <1>4 DEF Sent, SendFailed, store, net, Numbered
<1>5. ASSUME NEW s \in asked, HandleCredRequest(s) PROVE Numbered'
  BY <1>5 DEF HandleCredRequest, store, Numbered
<1>6. ASSUME NEW a \in answers, HandleCredResponse(a) PROVE Numbered'
  BY <1>6 DEF HandleCredResponse, Numbered
<1>7. ASSUME NEW m \in imports, Check(m) PROVE Numbered'
  BY <1>7 DEF Check, Finish, net, Numbered
<1>8. ASSUME NEW m \in imports, SaveCertIfNewer(m) PROVE Numbered'
  BY <1>8 DEF SaveCertIfNewer, Finish, net, Numbered
<1>9. ASSUME NEW i \in Imports, NEW v \in Signs, Import(i, v) PROVE Numbered'
  BY <1>1, <1>9 DEF Import, net, Numbered
<1>10. ASSUME NEW v \in Signs, PeerSigns(v) PROVE Numbered'
  BY <1>1, <1>10 DEF PeerSigns, net, Numbered
<1>11. CASE DeleteRecord
  BY <1>11 DEF DeleteRecord, net, Numbered, Nothing
<1>12. CASE UNCHANGED credentialVars
  BY <1>12 DEF credentialVars, store, net, Numbered
<1> QED BY <1>2, <1>3, <1>4, <1>5, <1>6, <1>7, <1>8, <1>9, <1>10, <1>11, <1>12 DEF CredentialNext

LEMMA InitNumbered == MaxSign \in Nat /\ CredentialInit => Numbered
BY DEF CredentialInit, Numbered, Nothing, Refused, Signs

LEMMA StepNeverOlder ==
  ASSUME Numbered, [CredentialNext]_credentialVars
  PROVE  local' = Nothing \/ local' >= local
<1>1. CASE UNCHANGED local
  BY <1>1 DEF Numbered
<1>2. ASSUME NEW m \in imports, SaveCertIfNewer(m) PROVE local' >= local
  <2>1. m[2] \in Int /\ local' = IF m[2] > local THEN m[2] ELSE local
    BY <1>2 DEF SaveCertIfNewer, StillNewer, Numbered
  <2> QED BY <2>1 DEF Numbered
<1>3. CASE DeleteRecord
  BY <1>3 DEF DeleteRecord
<1>4. CredentialNext => UNCHANGED local \/ DeleteRecord \/ \E m \in imports : SaveCertIfNewer(m)
  BY DEF CredentialNext, RequestRecord, TimedOut, Retry, Sent, SendFailed, HandleCredRequest, HandleCredResponse,
         Import, Check, PeerSigns, store
<1> QED BY <1>1, <1>2, <1>3, <1>4 DEF credentialVars, store

(* However many imports of a key overlap, a stored record is replaced only *)
(* by one that was signed later.                                           *)
THEOREM RecordsNeverOlder == CredentialSpec => NeverOlder
<1>1. CredentialSpec => []Numbered
  <2>1. CredentialInit => Numbered
    BY InitNumbered, CredentialAssumption
  <2>2. Numbered /\ [CredentialNext]_credentialVars => Numbered'
    BY StepKeepsNumbered, CredentialAssumption
  <2> QED BY <2>1, <2>2, PTL DEF CredentialSpec
<1>2. Numbered /\ [CredentialNext]_credentialVars => [local' = Nothing \/ local' >= local]_credentialVars
  BY StepNeverOlder
<1> QED BY <1>1, <1>2, PTL DEF CredentialSpec, NeverOlder

------------------------------------------------------------------------------
(* TrafficLog: for any records, kinds, operations, times and length of a   *)
(* minute.  Minutes and counts first.                                      *)

LEMMA MinuteIs == ASSUME NEW t \in Nat PROVE MinuteOf(t) \in Int
BY TrafficAssumption DEF MinuteOf

LEMMA MinutesInOrder ==
  ASSUME NEW s \in Nat, NEW t \in Nat, s <= t
  PROVE  MinuteOf(s) <= MinuteOf(t)
BY TrafficAssumption, SMTT(30) DEF MinuteOf

(* What comes before a time that begins a minute is of an earlier minute.  *)
LEMMA MinuteBegins ==
  ASSUME NEW s \in Nat, NEW t \in Nat, t % PerMinute = 0, MinuteOf(s) = MinuteOf(t)
  PROVE  s >= t
BY TrafficAssumption, SMTT(30) DEF MinuteOf

LEMMA MinuteEnds ==
  ASSUME NEW s \in Nat, NEW t \in Nat, (t + 1) % PerMinute = 0, s > t
  PROVE  MinuteOf(s) > MinuteOf(t)
<1>1. MinuteOf(t + 1) > MinuteOf(t)
  BY TrafficAssumption, SMTT(30) DEF MinuteOf
<1>2. MinuteOf(t + 1) <= MinuteOf(s)
  BY MinutesInOrder
<1> QED BY <1>1, <1>2, MinuteIs

InBucket(r, b) == MinuteOf(ts[r]) = b[1] /\ msgKind[r] = b[2]
Counted(recs, b) == {r \in recs : InBucket(r, b)}

LEMMA CountIs ==
  ASSUME NEW recs \in SUBSET Recs, NEW b
  PROVE  /\ CountOf(recs, b) = Cardinality(Counted(recs, b)) /\ CountOf(recs, b) \in Nat
         /\ IsFiniteSet(Counted(recs, b)) /\ CountOf(recs, b) <= Cardinality(recs)
<1>1. CountOf(recs, b) = Cardinality(Counted(recs, b))
  BY DEF CountOf, Counted, InBucket
<1>2. Counted(recs, b) \subseteq recs /\ IsFiniteSet(recs)
  BY FS_Subset, TrafficAssumption DEF Counted
<1>3. IsFiniteSet(Counted(recs, b)) /\ Cardinality(Counted(recs, b)) <= Cardinality(recs)
  BY <1>2, FS_Subset
<1> QED BY <1>1, <1>3, FS_CardinalityType

LEMMA CountOfBoth ==
  ASSUME NEW A \in SUBSET Recs, NEW B \in SUBSET Recs, A \cap B = {}, NEW b
  PROVE  CountOf(A \cup B, b) = CountOf(A, b) + CountOf(B, b)
<1>1. /\ Counted(A \cup B, b) = Counted(A, b) \cup Counted(B, b)
      /\ Counted(A, b) \cap Counted(B, b) = {}
  BY DEF Counted
<1>2. Cardinality(Counted(A, b) \cap Counted(B, b)) = 0
  BY <1>1, FS_EmptySet
<1>3. /\ CountOf(A, b) = Cardinality(Counted(A, b)) /\ IsFiniteSet(Counted(A, b))
      /\ CountOf(A, b) \in Nat
  BY CountIs
<1>4. /\ CountOf(B, b) = Cardinality(Counted(B, b)) /\ IsFiniteSet(Counted(B, b))
      /\ CountOf(B, b) \in Nat
  BY CountIs
<1>5. CountOf(A \cup B, b) = Cardinality(Counted(A \cup B, b))
  BY CountIs
<1>6. Cardinality(Counted(A, b) \cup Counted(B, b))
        = Cardinality(Counted(A, b)) + Cardinality(Counted(B, b))
          - Cardinality(Counted(A, b) \cap Counted(B, b))
  BY <1>3, <1>4, FS_Union
<1>7. Cardinality(Counted(A \cup B, b)) = Cardinality(Counted(A, b)) + Cardinality(Counted(B, b)) - 0
  BY <1>1, <1>2, <1>6
<1>8. CountOf(A \cup B, b) = CountOf(A, b) + CountOf(B, b) - 0
  BY <1>3, <1>4, <1>5, <1>7
<1> QED BY <1>3, <1>4, <1>8

LEMMA CountOfNone == ASSUME NEW b PROVE CountOf({}, b) = 0
<1>1. Counted({}, b) = {}
  BY DEF Counted
<1> QED BY <1>1, CountIs, FS_EmptySet

------------------------------------------------------------------------------
(* Counts and entries.  A record is queued, in the batch or an entry, or   *)
(* gone, and is counted once it was written.                               *)
Stores ==
  /\ ts \in [Recs -> Times] /\ msgKind \in [Recs -> Kinds]
  /\ recorded \subseteq Recs /\ queue \subseteq recorded /\ batch \subseteq recorded
  /\ entries \subseteq recorded
  /\ aggMinute \in [Buckets -> Nat] /\ cut \subseteq Minutes
Apart == queue \cap batch = {} /\ queue \cap entries = {} /\ batch \cap entries = {}
Written == recorded \ (queue \cup batch)
Bounded == \A b \in Buckets : aggMinute[b] <= Cardinality(Written)
CountInv == Stores /\ Apart /\ Bounded /\ AggregatesAgree

LEMMA SizeIs ==
  ASSUME NEW A \in SUBSET Recs, NEW B \in SUBSET A
  PROVE  Cardinality(A) \in Nat /\ Cardinality(B) \in Nat /\ Cardinality(B) <= Cardinality(A)
<1>1. IsFiniteSet(A)
  BY FS_Subset, TrafficAssumption
<1>2. IsFiniteSet(B) /\ Cardinality(B) <= Cardinality(A)
  BY <1>1, FS_Subset
<1> QED BY <1>1, <1>2, FS_CardinalityType

LEMMA BoundedKeeps ==
  ASSUME Stores, Stores', Bounded, Written \subseteq Written',
         \A b \in Buckets : aggMinute'[b] = aggMinute[b] \/ aggMinute'[b] = 0
  PROVE  Bounded'
<1> PICK W : W = Written
  OBVIOUS
<1> PICK V : V = Written'
  OBVIOUS
<1>1. W = Written /\ V = Written' /\ W \subseteq V /\ V \subseteq Recs
  BY DEF Written, Stores
<1>2. Cardinality(V) \in Nat /\ Cardinality(W) \in Nat /\ Cardinality(W) <= Cardinality(V)
  BY <1>1, SizeIs
<1>3. ASSUME NEW b \in Buckets PROVE aggMinute'[b] <= Cardinality(V)
  <2>1. aggMinute[b] \in Nat /\ aggMinute[b] <= Cardinality(W)
    BY <1>1 DEF Stores, Bounded
  <2> QED BY <1>2, <2>1
<1> QED BY <1>1, <1>3 DEF Bounded

(* A record moves from the queue to the batch, or is dropped.              *)
LEMMA MovesKeep ==
  ASSUME CountInv, UNCHANGED <<made, stores>>, queue' \cup batch' \subseteq queue \cup batch,
         queue' \cap batch' = {}
  PROVE  CountInv'
<1>1. /\ ts' = ts /\ msgKind' = msgKind /\ recorded' = recorded
      /\ entries' = entries /\ aggMinute' = aggMinute /\ cut' = cut
  BY DEF made, stores
<1>2. Stores' /\ Apart'
  BY <1>1 DEF CountInv, Stores, Apart
<1>3. Bounded'
  <2>1. Written \subseteq Written'
    BY <1>1 DEF Written
  <2> QED BY <1>1, <1>2, <2>1, BoundedKeeps DEF CountInv
<1>4. AggregatesAgree'
  BY <1>1 DEF CountInv, AggregatesAgree, CountOf
<1> QED BY <1>2, <1>3, <1>4 DEF CountInv

LEMMA RecordCounts ==
  ASSUME CountInv, NEW r \in Recs, NEW t \in Times, NEW k \in Kinds, Record(r, t, k)
  PROVE  CountInv'
<1>1. /\ r \notin recorded /\ recorded' = recorded \cup {r}
      /\ ts' = [ts EXCEPT ![r] = t] /\ msgKind' = [msgKind EXCEPT ![r] = k]
      /\ queue' = queue \cup {r} /\ batch' = batch
      /\ entries' = entries /\ aggMinute' = aggMinute /\ cut' = cut
  BY DEF Record, stores
<1>2. Stores' /\ Apart'
  BY <1>1 DEF CountInv, Stores, Apart
<1>3. Bounded'
  <2>1. Written \subseteq Written'
    BY <1>1 DEF Written
  <2> QED BY <1>1, <1>2, <2>1, BoundedKeeps DEF CountInv
<1>4. ASSUME NEW b PROVE CountOf(entries, b)' = CountOf(entries, b)
  <2>1. \A q \in entries : ts'[q] = ts[q] /\ msgKind'[q] = msgKind[q]
    BY <1>1 DEF CountInv, Stores
  <2>2. {q \in entries' : MinuteOf(ts'[q]) = b[1] /\ msgKind'[q] = b[2]}
          = {q \in entries : MinuteOf(ts[q]) = b[1] /\ msgKind[q] = b[2]}
    BY <1>1, <2>1
  <2> QED BY <2>2 DEF CountOf
<1>5. AggregatesAgree'
  BY <1>1, <1>4 DEF CountInv, AggregatesAgree
<1> QED BY <1>2, <1>3, <1>5 DEF CountInv

(* The end of a batch.                                                     *)
LEMMA BatchIs ==
  ASSUME BatchEnds
  PROVE  /\ ts' = ts /\ msgKind' = msgKind /\ recorded' = recorded /\ call' = call /\ earlier' = earlier
         /\ queue' \subseteq queue /\ batch' = {} /\ (flushTimer' = flushTimer \/ flushTimer' = FALSE)
         /\ progress' = [o \in Ops |-> IF progress[o] = "flushing" THEN AfterFlush(call[o]) ELSE progress[o]]
         /\ \A o \in Ops : progress[o] = "flushing" /\ call[o] = Clear => queue' = {}
BY DEF BatchEnds, DropQueue, made

LEMMA WriteEndsCounts ==
  ASSUME CountInv, NEW ok \in BOOLEAN, WriteEnds(ok)
  PROVE  CountInv'
<1>1. /\ ts' = ts /\ msgKind' = msgKind /\ recorded' = recorded /\ queue' \subseteq queue /\ batch' = {}
      /\ cut' = cut
  BY BatchIs DEF WriteEnds
<1>2. CASE ~ok
  <2>1. entries' = entries /\ aggMinute' = aggMinute
    BY <1>2 DEF WriteEnds
  <2> QED BY <1>1, <2>1, MovesKeep DEF made, stores, CountInv, Apart
<1>3. CASE ok
  <2>1. /\ entries' = entries \cup batch
        /\ aggMinute' = [b \in Buckets |-> aggMinute[b] + CountOf(batch, b)]
    BY <1>3 DEF WriteEnds, Merged
  <2>2. batch \in SUBSET Recs /\ entries \in SUBSET Recs /\ entries \cap batch = {}
    BY DEF CountInv, Stores, Apart
  <2>3. \A b \in Buckets : CountOf(batch, b) \in Nat
    BY <2>2, CountIs
  <2>4. \A b \in Buckets : aggMinute[b] \in Nat /\ aggMinute'[b] = aggMinute[b] + CountOf(batch, b)
    BY <2>1 DEF CountInv, Stores
  <2>5. aggMinute' \in [Buckets -> Nat]
    BY <2>1, <2>3, <2>4
  <2>6. Stores' /\ Apart'
    BY <1>1, <2>1, <2>5 DEF CountInv, Stores, Apart
  <2>7. Bounded'
    <3> PICK W : W = Written
      OBVIOUS
    <3> PICK V : V = Written'
      OBVIOUS
    <3> PICK U : U = W \cup batch
      OBVIOUS
    <3>1. W = Written /\ V = Written' /\ U \subseteq V /\ U = W \cup batch /\ W \cap batch = {}
      BY <1>1, <2>2 DEF Written, CountInv, Stores, Apart
    <3>2. W \in SUBSET Recs /\ IsFiniteSet(W) /\ IsFiniteSet(batch)
      <4>1. W \in SUBSET Recs
        BY <3>1 DEF Written, CountInv, Stores
      <4> QED BY <2>2, <4>1, FS_Subset, TrafficAssumption
    <3>3. Cardinality(U) = Cardinality(W) + Cardinality(batch) - Cardinality(W \cap batch)
      BY <3>1, <3>2, FS_Union
    <3>4. Cardinality(W \cap batch) = 0
      BY <3>1, FS_EmptySet
    <3>5. Cardinality(W) \in Nat /\ Cardinality(batch) \in Nat
      BY <3>2, FS_CardinalityType
    <3>a. V \in SUBSET Recs
      BY <3>1, <2>6 DEF Written, Stores
    <3>b. Cardinality(U) \in Nat /\ Cardinality(V) \in Nat /\ Cardinality(U) <= Cardinality(V)
      BY <3>1, <3>a, SizeIs
    <3>6. ASSUME NEW b \in Buckets PROVE aggMinute'[b] <= Cardinality(V)
      <4>1. aggMinute[b] \in Nat /\ aggMinute[b] <= Cardinality(W)
        BY <3>1 DEF CountInv, Stores, Bounded
      <4>2. CountOf(batch, b) <= Cardinality(batch) /\ CountOf(batch, b) \in Nat
        BY <2>2, CountIs
      <4>3. aggMinute'[b] = aggMinute[b] + CountOf(batch, b)
        BY <2>4
      <4> QED BY <3>3, <3>4, <3>5, <3>b, <4>1, <4>2, <4>3
    <3> QED BY <3>1, <3>6 DEF Bounded
  <2>8. AggregatesAgree'
    <3> SUFFICES ASSUME NEW b \in Buckets, b[1] \notin cut PROVE aggMinute'[b] = CountOf(entries, b)'
      BY <1>1 DEF AggregatesAgree
    <3>1. CountOf(entries, b)' = CountOf(entries \cup batch, b)
      BY <1>1, <2>1 DEF CountOf
    <3>2. CountOf(entries \cup batch, b) = CountOf(entries, b) + CountOf(batch, b)
      BY <2>2, CountOfBoth
    <3>3. aggMinute[b] = CountOf(entries, b)
      BY DEF CountInv, AggregatesAgree
    <3> QED BY <2>4, <3>1, <3>2, <3>3
  <2> QED BY <2>6, <2>7, <2>8 DEF CountInv
<1> QED BY <1>2, <1>3

(* A deletion that empties the right buckets, but for a minute it cuts.    *)
LEMMA WithoutCounts ==
  ASSUME CountInv, NEW R, NEW B, NEW parts \in SUBSET Minutes, Without(R, B, parts),
         UNCHANGED made, queue' = queue, batch' = batch, cut \subseteq parts,
         \A b \in Buckets : b \in B /\ b[1] \notin parts =>
            \A r \in entries \ R : ~InBucket(r, b),
         \A b \in Buckets : b \notin B /\ b[1] \notin parts =>
            \A r \in entries \cap R : ~InBucket(r, b)
  PROVE  CountInv'
<1>1. /\ ts' = ts /\ msgKind' = msgKind /\ recorded' = recorded /\ cut' = parts
      /\ entries' = entries \ R
      /\ aggMinute' = [b \in Buckets |-> IF b \in B THEN 0 ELSE aggMinute[b]]
  BY DEF Without, made
<1>2. /\ aggMinute' \in [Buckets -> Nat]
      /\ \A b \in Buckets : aggMinute'[b] = IF b \in B THEN 0 ELSE aggMinute[b]
  BY <1>1 DEF CountInv, Stores
<1>3. Stores' /\ Apart'
  BY <1>1, <1>2 DEF CountInv, Stores, Apart
<1>4. Bounded'
  <2>1. Written \subseteq Written'
    BY <1>1 DEF Written
  <2> QED BY <1>2, <1>3, <2>1, BoundedKeeps DEF CountInv
<1>5. AggregatesAgree'
  <2> SUFFICES ASSUME NEW b \in Buckets, b[1] \notin parts PROVE aggMinute'[b] = CountOf(entries, b)'
    BY <1>1 DEF AggregatesAgree
  <2>1. CountOf(entries, b)' = CountOf(entries \ R, b)
    BY <1>1 DEF CountOf
  <2>2. entries \in SUBSET Recs /\ entries \ R \in SUBSET Recs
    BY DEF CountInv, Stores
  <2>3. CountOf(entries \ R, b) = Cardinality(Counted(entries \ R, b))
    BY <2>2, CountIs
  <2>4. CASE b \in B
    <3>1. Counted(entries \ R, b) = {}
      BY <2>4 DEF Counted
    <3> QED BY <1>2, <2>1, <2>3, <2>4, <3>1, FS_EmptySet
  <2>5. CASE b \notin B
    <3>1. Counted(entries \ R, b) = Counted(entries, b)
      BY <2>5 DEF Counted
    <3>2. CountOf(entries, b) = Cardinality(Counted(entries, b))
      BY <2>2, CountIs
    <3>3. aggMinute[b] = CountOf(entries, b)
      BY <1>1 DEF CountInv, AggregatesAgree
    <3> QED BY <1>2, <2>1, <2>3, <2>5, <3>1, <3>2, <3>3
  <2> QED BY <2>4, <2>5
<1> QED BY <1>3, <1>4, <1>5 DEF CountInv

LEMMA MinutesOf ==
  /\ \A t \in Times \cup Limits : t \in Nat /\ MinuteOf(t) \in Minutes /\ MinuteOf(t) \in Int
  /\ \A b \in Buckets : b[1] \in Int /\ b[1] \in Minutes
<1>1. \A t \in Times \cup Limits : t \in Nat /\ MinuteOf(t) \in Minutes /\ MinuteOf(t) \in Int
  BY TrafficAssumption, MinuteIs DEF Minutes
<1>2. Minutes \subseteq Int
  BY <1>1 DEF Minutes
<1> QED BY <1>1, <1>2 DEF Buckets

LEMMA DeleteBeforeCounts ==
  ASSUME CountInv, NEW o \in Ops, DeleteBefore(o)
  PROVE  CountInv'
<1>1. PICK t \in Limits :
        Without({r \in entries : ts[r] < t}, {b \in Buckets : b[1] < MinuteOf(t)},
                IF t % PerMinute = 0 THEN cut ELSE cut \cup {MinuteOf(t)})
  BY DEF DeleteBefore
<1> DEFINE R == {r \in entries : ts[r] < t}
           B == {b \in Buckets : b[1] < MinuteOf(t)}
           parts == IF t % PerMinute = 0 THEN cut ELSE cut \cup {MinuteOf(t)}
<1>2. UNCHANGED made /\ queue' = queue /\ batch' = batch
  BY DEF DeleteBefore, Ends
<1>3. /\ t \in Nat /\ MinuteOf(t) \in Minutes /\ MinuteOf(t) \in Int
      /\ \A b \in Buckets : b[1] \in Int /\ b[1] \in Minutes
  BY MinutesOf
<1>4. \A r \in entries : ts[r] \in Times /\ ts[r] \in Nat /\ MinuteOf(ts[r]) \in Int
  BY MinutesOf DEF CountInv, Stores
<1>5. parts \in SUBSET Minutes /\ cut \subseteq parts
  BY <1>3 DEF CountInv, Stores
<1>6. ASSUME NEW b \in Buckets, b \in B, NEW r \in entries \ R PROVE ~InBucket(r, b)
  <2>1. ts[r] >= t
    BY <1>3, <1>4
  <2>2. MinuteOf(ts[r]) >= MinuteOf(t)
    BY <1>3, <1>4, <2>1, MinutesInOrder
  <2>3. b[1] < MinuteOf(t) /\ b[1] \in Int /\ MinuteOf(ts[r]) \in Int
    BY <1>3, <1>4, <1>6
  <2> QED BY <1>3, <2>2, <2>3 DEF InBucket
<1>7. ASSUME NEW b \in Buckets, b \notin B, b[1] \notin parts, NEW r \in entries \cap R
      PROVE  ~InBucket(r, b)
  <2>1. ts[r] < t /\ ts[r] \in Nat
    BY <1>4
  <2>2. MinuteOf(ts[r]) <= MinuteOf(t) /\ MinuteOf(ts[r]) \in Int
    BY <1>3, <1>4, <2>1, MinutesInOrder
  <2>3. b[1] \in Int /\ b[1] >= MinuteOf(t)
    BY <1>3, <1>7
  <2> SUFFICES ASSUME MinuteOf(ts[r]) = b[1] PROVE FALSE
    BY DEF InBucket
  <2>4. MinuteOf(ts[r]) = MinuteOf(t) /\ b[1] = MinuteOf(t)
    BY <1>3, <2>2, <2>3
  <2>5. t % PerMinute # 0
    BY <1>3, <2>1, <2>4, MinuteBegins
  <2> QED BY <1>7, <2>4, <2>5
<1>8. /\ \A b \in Buckets : b \in B /\ b[1] \notin parts =>
            \A r \in entries \ R : ~InBucket(r, b)
      /\ \A b \in Buckets : b \notin B /\ b[1] \notin parts =>
            \A r \in entries \cap R : ~InBucket(r, b)
  BY <1>6, <1>7
<1>9. Without(R, B, parts)
  BY <1>1
<1> HIDE DEF R, B, parts
<1> QED BY <1>2, <1>5, <1>8, <1>9, WithoutCounts

LEMMA DeleteWhereCounts ==
  ASSUME CountInv, NEW o \in Ops, DeleteWhere(o)
  PROVE  CountInv'
<1>1. PICK t \in Limits, k \in Kinds :
        Without({r \in entries : ts[r] <= t /\ msgKind[r] = k},
                {b \in Buckets : b[1] <= MinuteOf(t) /\ b[2] = k},
                IF (t + 1) % PerMinute = 0 THEN cut ELSE cut \cup {MinuteOf(t)})
  BY DEF DeleteWhere
<1> DEFINE R == {r \in entries : ts[r] <= t /\ msgKind[r] = k}
           B == {b \in Buckets : b[1] <= MinuteOf(t) /\ b[2] = k}
           parts == IF (t + 1) % PerMinute = 0 THEN cut ELSE cut \cup {MinuteOf(t)}
<1>2. UNCHANGED made /\ queue' = queue /\ batch' = batch
  BY DEF DeleteWhere, Ends
<1>3. /\ t \in Nat /\ MinuteOf(t) \in Minutes /\ MinuteOf(t) \in Int
      /\ \A b \in Buckets : b[1] \in Int /\ b[1] \in Minutes
  BY MinutesOf
<1>4. \A r \in entries : ts[r] \in Times /\ ts[r] \in Nat /\ MinuteOf(ts[r]) \in Int
  BY MinutesOf DEF CountInv, Stores
<1>5. parts \in SUBSET Minutes /\ cut \subseteq parts
  BY <1>3 DEF CountInv, Stores
<1>6. ASSUME NEW b \in Buckets, b \in B, b[1] \notin parts, NEW r \in entries \ R
      PROVE  ~InBucket(r, b)
  <2>1. b[1] <= MinuteOf(t) /\ b[2] = k /\ b[1] \in Int /\ MinuteOf(ts[r]) \in Int /\ ts[r] \in Nat
    BY <1>3, <1>4, <1>6
  <2> SUFFICES ASSUME MinuteOf(ts[r]) = b[1], msgKind[r] = b[2] PROVE FALSE
    BY DEF InBucket
  <2>2. ts[r] > t
    BY <1>3, <2>1
  <2>3. MinuteOf(ts[r]) >= MinuteOf(t)
    BY <1>3, <2>1, <2>2, MinutesInOrder
  <2>4. b[1] = MinuteOf(t)
    BY <1>3, <2>1, <2>3
  <2>5. (t + 1) % PerMinute = 0
    BY <1>6, <2>4
  <2>6. MinuteOf(ts[r]) > MinuteOf(t)
    BY <1>3, <2>1, <2>2, <2>5, MinuteEnds
  <2> QED BY <1>3, <2>1, <2>4, <2>6
<1>7. ASSUME NEW b \in Buckets, b \notin B, NEW r \in entries \cap R PROVE ~InBucket(r, b)
  <2>1. ts[r] <= t /\ ts[r] \in Nat /\ msgKind[r] = k /\ b[1] \in Int /\ MinuteOf(ts[r]) \in Int
    BY <1>3, <1>4
  <2>2. MinuteOf(ts[r]) <= MinuteOf(t)
    BY <1>3, <2>1, MinutesInOrder
  <2> QED BY <1>3, <1>7, <2>1, <2>2 DEF InBucket
<1>8. /\ \A b \in Buckets : b \in B /\ b[1] \notin parts =>
            \A r \in entries \ R : ~InBucket(r, b)
      /\ \A b \in Buckets : b \notin B /\ b[1] \notin parts =>
            \A r \in entries \cap R : ~InBucket(r, b)
  BY <1>6, <1>7
<1>9. Without(R, B, parts)
  BY <1>1
<1> HIDE DEF R, B, parts
<1> QED BY <1>2, <1>5, <1>8, <1>9, WithoutCounts

LEMMA ClearAllCounts ==
  ASSUME CountInv, NEW o \in Ops, ClearAll(o)
  PROVE  CountInv'
<1>1. /\ ts' = ts /\ msgKind' = msgKind /\ recorded' = recorded /\ queue' = queue /\ batch' = batch
      /\ cut' = {} /\ entries' = {} /\ aggMinute' = [b \in Buckets |-> 0]
  BY DEF ClearAll, Ends, made
<1>2. Stores' /\ Apart'
  BY <1>1 DEF CountInv, Stores, Apart
<1>3. Bounded'
  <2>1. Written \subseteq Written' /\ \A b \in Buckets : aggMinute'[b] = 0
    BY <1>1 DEF Written
  <2> QED BY <1>2, <2>1, BoundedKeeps DEF CountInv
<1>4. AggregatesAgree'
  <2> SUFFICES ASSUME NEW b \in Buckets PROVE aggMinute'[b] = CountOf(entries, b)'
    BY DEF AggregatesAgree
  <2>1. CountOf(entries, b)' = CountOf({}, b)
    BY <1>1 DEF CountOf
  <2> QED BY <1>1, <2>1, CountOfNone
<1> QED BY <1>2, <1>3, <1>4 DEF CountInv

------------------------------------------------------------------------------
(* Operations and their transactions.                                      *)
Operations ==
  /\ flushTimer \in BOOLEAN
  /\ call \in [Ops -> Arguments \cup {<<>>}] /\ earlier \in [Ops -> SUBSET recorded]
  /\ progress \in [Ops -> {"none", "flushing", "flushed", "transaction", "done", "failed"}]

(* Only who has gone on to its transaction has one in line.                *)
Begun == {o \in Ops : progress[o] \in {"transaction", "done", "failed"}}
InOrder == txs \in Seq(Begun \cup {Write})

(* Once a clearAll has waited for the batch under way, what it is to clear *)
(* has left the queue and is in no batch: it may be in the entries still.  *)
Past == {"flushed", "transaction", "done", "failed"}
Left ==
  \A o \in Ops : call[o] = Clear /\ progress[o] \in Past => earlier[o] \cap (queue \cup batch) = {}
ClearInv == InOrder /\ Left /\ ClearedStaysCleared
TrafficInv == CountInv /\ Operations /\ ClearInv

LEMMA OrderKept ==
  ASSUME InOrder, Begun \subseteq Begun',
         \/ txs' = txs
         \/ (txs # <<>> /\ txs' = Tail(txs))
         \/ \E x \in Begun' \cup {Write} : txs' = Append(txs, x)
  PROVE  InOrder'
<1> DEFINE A == Begun \cup {Write}
           B == Begun' \cup {Write}
<1>1. txs \in Seq(A) /\ A \subseteq B
  BY DEF InOrder
<1> HIDE DEF A, B
<1>2. txs \in Seq(B)
  BY <1>1
<1>3. txs' \in Seq(B)
  BY <1>2 DEF B
<1> QED BY <1>3 DEF InOrder, B

(* A step after which a clearAll is past the batch only if it was, or if   *)
(* what it is to clear is neither queued nor under way.                    *)
LEMMA ClearKept ==
  ASSUME Left, ClearedStaysCleared,
         queue' \cup batch' \subseteq queue \cup batch, entries' \subseteq entries \cup batch,
         \A p \in Ops : call'[p] = Clear /\ progress'[p] \in Past =>
            \/ /\ call[p] = Clear /\ progress[p] \in Past /\ earlier'[p] = earlier[p]
               /\ progress'[p] = "done" => progress[p] = "done" \/ entries' = {}
            \/ progress'[p] # "done" /\ earlier'[p] \cap (queue' \cup batch') = {}
  PROVE  Left' /\ ClearedStaysCleared'
<1>1. Left'
  BY DEF Left
<1>2. ASSUME NEW p \in Ops, call'[p] = Clear, progress'[p] = "done"
      PROVE  earlier'[p] \cap (entries' \cup queue' \cup batch') = {}
  <2>1. /\ call[p] = Clear /\ progress[p] \in Past /\ earlier'[p] = earlier[p]
        /\ progress[p] = "done" \/ entries' = {}
    BY <1>2 DEF Past
  <2>2. earlier[p] \cap (queue \cup batch) = {}
    BY <2>1 DEF Left
  <2>3. progress[p] = "done" => earlier[p] \cap entries = {}
    BY <2>1 DEF ClearedStaysCleared
  <2> QED BY <2>1, <2>2, <2>3
<1>3. ClearedStaysCleared'
  BY <1>2 DEF ClearedStaysCleared
<1> QED BY <1>1, <1>3

LEMMA RecordKeeps ==
  ASSUME TrafficInv, NEW r \in Recs, NEW t \in Times, NEW k \in Kinds, Record(r, t, k)
  PROVE  TrafficInv'
<1>1. /\ r \notin recorded /\ recorded' = recorded \cup {r} /\ queue' = queue \cup {r}
      /\ flushTimer' = TRUE /\ batch' = batch /\ txs' = txs /\ entries' = entries
      /\ call' = call /\ progress' = progress /\ earlier' = earlier
  BY DEF Record, stores, operations
<1>2. CountInv'
  BY RecordCounts DEF TrafficInv
<1>3. Operations'
  BY <1>1 DEF TrafficInv, Operations
<1>4. InOrder'
  BY <1>1, OrderKept DEF TrafficInv, ClearInv, Begun
<1>5. \A o \in Ops : r \notin earlier[o]
  BY <1>1 DEF TrafficInv, Operations
<1>6. Left' /\ ClearedStaysCleared'
  BY <1>1, <1>5 DEF TrafficInv, ClearInv, Left, ClearedStaysCleared
<1> QED BY <1>2, <1>3, <1>4, <1>6 DEF TrafficInv, ClearInv

LEMMA FlushMoves ==
  ASSUME DoFlush, queue \cap batch = {}
  PROVE  queue' \cup batch' \subseteq queue \cup batch /\ queue' \cap batch' = {}
BY DEF DoFlush

LEMMA TimerFiresKeeps == TrafficInv /\ TimerFires => TrafficInv'
<1> SUFFICES ASSUME TrafficInv, TimerFires PROVE TrafficInv'
  OBVIOUS
<1>1. /\ recorded' = recorded /\ flushTimer' = FALSE /\ txs' = txs /\ entries' = entries
      /\ call' = call /\ progress' = progress /\ earlier' = earlier /\ UNCHANGED <<made, stores>>
      /\ DoFlush
  BY DEF TimerFires, made, stores, operations
<1>2. queue' \cup batch' \subseteq queue \cup batch /\ queue' \cap batch' = {}
  BY <1>1, FlushMoves DEF TrafficInv, CountInv, Apart
<1>3. CountInv'
  BY <1>1, <1>2, MovesKeep DEF TrafficInv
<1>4. Operations'
  BY <1>1 DEF TrafficInv, Operations
<1>5. InOrder'
  BY <1>1, OrderKept DEF TrafficInv, ClearInv, Begun
<1>6. Left' /\ ClearedStaysCleared'
  BY <1>1, <1>2, ClearKept DEF TrafficInv, ClearInv
<1> QED BY <1>3, <1>4, <1>5, <1>6 DEF TrafficInv, ClearInv

(* Calls.                                                                  *)
LEMMA CalledIs ==
  ASSUME Operations, NEW o \in Ops, NEW what \in Arguments, NEW how \in {"flushing", "flushed", "done"},
         Called(o, what), progress' = [progress EXCEPT ![o] = how]
  PROVE  /\ progress[o] = "none" /\ recorded' = recorded /\ txs' = txs /\ entries' = entries
         /\ UNCHANGED <<made, stores>>
         /\ call' \in [Ops -> Arguments \cup {<<>>}] /\ earlier' \in [Ops -> SUBSET recorded]
         /\ progress' \in [Ops -> {"none", "flushing", "flushed", "transaction", "done", "failed"}]
         /\ call'[o] = what /\ progress'[o] = how
         /\ \A p \in Ops \ {o} : call'[p] = call[p] /\ earlier'[p] = earlier[p] /\ progress'[p] = progress[p]
         /\ Begun \subseteq Begun'
<1>1. /\ progress[o] = "none" /\ recorded' = recorded /\ txs' = txs /\ entries' = entries
      /\ UNCHANGED <<made, stores>>
      /\ call' = [call EXCEPT ![o] = what]
      /\ earlier' = [earlier EXCEPT ![o] = IF what \in {Flush, Clear} THEN recorded ELSE {}]
  BY DEF Called, made, stores
<1>2. call' \in [Ops -> Arguments \cup {<<>>}] /\ call'[o] = what /\ \A p \in Ops \ {o} : call'[p] = call[p]
  BY <1>1 DEF Operations
<1>3. earlier' \in [Ops -> SUBSET recorded] /\ \A p \in Ops \ {o} : earlier'[p] = earlier[p]
  BY <1>1 DEF Operations
<1>4. /\ progress' \in [Ops -> {"none", "flushing", "flushed", "transaction", "done", "failed"}]
      /\ progress'[o] = how /\ \A p \in Ops \ {o} : progress'[p] = progress[p]
  BY DEF Operations
<1>5. Begun \subseteq Begun'
  BY <1>1, <1>4 DEF Begun
<1> QED BY <1>1, <1>2, <1>3, <1>4, <1>5

LEMMA BeginKeeps ==
  ASSUME TrafficInv, NEW o \in Ops, NEW what \in Arguments, Begin(o, what)
  PROVE  TrafficInv'
<1>1. PICK how \in {"flushing", "flushed", "done"} : progress' = [progress EXCEPT ![o] = how]
  BY DEF Begin, AfterFlush
<1>2. what # Clear /\ Called(o, what) /\ flushTimer' = FALSE /\ DoFlush
  BY DEF Begin
<1>3. Operations
  BY DEF TrafficInv
<1>4. /\ progress[o] = "none" /\ recorded' = recorded /\ txs' = txs /\ entries' = entries
      /\ UNCHANGED <<made, stores>>
      /\ call' \in [Ops -> Arguments \cup {<<>>}] /\ earlier' \in [Ops -> SUBSET recorded]
      /\ progress' \in [Ops -> {"none", "flushing", "flushed", "transaction", "done", "failed"}]
      /\ call'[o] = what /\ progress'[o] = how
      /\ \A p \in Ops \ {o} : call'[p] = call[p] /\ earlier'[p] = earlier[p] /\ progress'[p] = progress[p]
      /\ Begun \subseteq Begun'
  BY <1>1, <1>2, <1>3, CalledIs
<1>5. queue' \cup batch' \subseteq queue \cup batch /\ queue' \cap batch' = {}
  BY <1>2, FlushMoves DEF TrafficInv, CountInv, Apart
<1>6. CountInv'
  BY <1>4, <1>5, MovesKeep DEF TrafficInv
<1>7. Operations'
  BY <1>2, <1>4 DEF Operations
<1>8. InOrder'
  BY <1>4, OrderKept DEF TrafficInv, ClearInv
<1>9. Left' /\ ClearedStaysCleared'
  BY <1>2, <1>4, <1>5, ClearKept DEF TrafficInv, ClearInv
<1> QED BY <1>6, <1>7, <1>8, <1>9 DEF TrafficInv, ClearInv

LEMMA BeginClearKeeps ==
  ASSUME TrafficInv, NEW o \in Ops, BeginClear(o)
  PROVE  TrafficInv'
<1>1. PICK how \in {"flushing", "flushed"} :
        /\ progress' = [progress EXCEPT ![o] = how]
        /\ how = "flushed" => batch = {} /\ queue' = {}
  BY DEF BeginClear, NothingUnderWay, DropQueue
<1>2. Called(o, Clear) /\ batch' = batch /\ queue' \subseteq queue /\ (flushTimer' = flushTimer \/ flushTimer' = FALSE)
  BY DEF BeginClear, DropQueue
<1>3. Operations /\ Clear \in Arguments
  BY DEF TrafficInv, Arguments
<1>4. /\ progress[o] = "none" /\ recorded' = recorded /\ txs' = txs /\ entries' = entries
      /\ UNCHANGED <<made, stores>>
      /\ call' \in [Ops -> Arguments \cup {<<>>}] /\ earlier' \in [Ops -> SUBSET recorded]
      /\ progress' \in [Ops -> {"none", "flushing", "flushed", "transaction", "done", "failed"}]
      /\ call'[o] = Clear /\ progress'[o] = how
      /\ \A p \in Ops \ {o} : call'[p] = call[p] /\ earlier'[p] = earlier[p] /\ progress'[p] = progress[p]
      /\ Begun \subseteq Begun'
  BY <1>1, <1>2, <1>3, CalledIs
<1>5. queue' \cup batch' \subseteq queue \cup batch /\ queue' \cap batch' = {}
  BY <1>2 DEF TrafficInv, CountInv, Apart
<1>6. CountInv'
  BY <1>4, <1>5, MovesKeep DEF TrafficInv
<1>7. Operations'
  BY <1>2, <1>3, <1>4 DEF Operations
<1>8. InOrder'
  BY <1>4, OrderKept DEF TrafficInv, ClearInv
<1>9. Left' /\ ClearedStaysCleared'
  <2>1. progress'[o] # "done" /\ (progress'[o] \in Past => earlier'[o] \cap (queue' \cup batch') = {})
    BY <1>1, <1>2, <1>4 DEF Past
  <2> QED BY <1>4, <1>5, <2>1, ClearKept DEF TrafficInv, ClearInv
<1> QED BY <1>6, <1>7, <1>8, <1>9 DEF TrafficInv, ClearInv

(* The batch.                                                              *)
LEMMA WriteBeginsKeeps == TrafficInv /\ WriteBegins => TrafficInv'
<1> SUFFICES ASSUME TrafficInv, WriteBegins PROVE TrafficInv'
  OBVIOUS
<1>1. /\ recorded' = recorded /\ queue' = queue /\ flushTimer' = flushTimer /\ batch' = batch
      /\ txs' = Append(txs, Write) /\ entries' = entries
      /\ call' = call /\ progress' = progress /\ earlier' = earlier /\ UNCHANGED <<made, stores>>
  BY DEF WriteBegins, made, stores, operations
<1>2. CountInv'
  BY <1>1, MovesKeep DEF TrafficInv, CountInv, Apart
<1>3. Operations' /\ Left' /\ ClearedStaysCleared'
  BY <1>1 DEF TrafficInv, Operations, ClearInv, Left, ClearedStaysCleared
<1>4. InOrder'
  <2>1. Begun \subseteq Begun' /\ Write \in Begun' \cup {Write}
    BY <1>1 DEF Begun
  <2> QED BY <1>1, <2>1, OrderKept DEF TrafficInv, ClearInv
<1> QED BY <1>2, <1>3, <1>4 DEF TrafficInv, ClearInv

LEMMA BatchEndsKeeps ==
  ASSUME TrafficInv, BatchEnds, CountInv', entries' \subseteq entries \cup batch,
         txs' = txs \/ (txs # <<>> /\ txs' = Tail(txs))
  PROVE  TrafficInv'
<1>1. /\ recorded' = recorded /\ call' = call /\ earlier' = earlier
      /\ queue' \subseteq queue /\ batch' = {} /\ (flushTimer' = flushTimer \/ flushTimer' = FALSE)
      /\ progress' = [o \in Ops |-> IF progress[o] = "flushing" THEN AfterFlush(call[o]) ELSE progress[o]]
      /\ \A o \in Ops : progress[o] = "flushing" /\ call[o] = Clear => queue' = {}
  BY BatchIs
<1>2. \A o \in Ops : progress'[o] = IF progress[o] = "flushing" THEN AfterFlush(call[o]) ELSE progress[o]
  BY <1>1
<1>3. Operations'
  BY <1>1 DEF TrafficInv, Operations, AfterFlush
<1>4. InOrder'
  <2>1. Begun \subseteq Begun'
    BY <1>2 DEF Begun
  <2> QED BY <2>1, OrderKept DEF TrafficInv, ClearInv
<1>5. Left' /\ ClearedStaysCleared'
  <2>1. ASSUME NEW p \in Ops, call'[p] = Clear, progress'[p] \in Past
        PROVE  \/ /\ call[p] = Clear /\ progress[p] \in Past /\ earlier'[p] = earlier[p]
                  /\ progress'[p] = "done" => progress[p] = "done" \/ entries' = {}
               \/ progress'[p] # "done" /\ earlier'[p] \cap (queue' \cup batch') = {}
    <3>1. CASE progress[p] = "flushing"
      <4>1. progress'[p] = "flushed" /\ queue' = {}
        BY <1>1, <1>2, <2>1, <3>1 DEF AfterFlush, Flush, Clear
      <4> QED BY <1>1, <4>1
    <3>2. CASE progress[p] # "flushing"
      BY <1>1, <1>2, <2>1, <3>2
    <3> QED BY <3>1, <3>2
  <2> QED BY <1>1, <2>1, ClearKept DEF TrafficInv, ClearInv
<1> QED BY <1>3, <1>4, <1>5 DEF TrafficInv, ClearInv

LEMMA BatchKeeps ==
  ASSUME TrafficInv, NoConnection \/ \E ok \in BOOLEAN : WriteEnds(ok)
  PROVE  TrafficInv'
<1>1. CASE NoConnection
  <2>1. BatchEnds /\ UNCHANGED <<made, stores>> /\ entries' = entries /\ txs' = txs
    BY <1>1 DEF NoConnection, BatchEnds, stores
  <2>2. queue' \subseteq queue /\ batch' = {}
    BY <2>1, BatchIs
  <2>3. CountInv'
    BY <2>1, <2>2, MovesKeep DEF TrafficInv
  <2> QED BY <2>1, <2>3, BatchEndsKeeps
<1>2. CASE \E ok \in BOOLEAN : WriteEnds(ok)
  <2>1. PICK ok \in BOOLEAN : WriteEnds(ok)
    BY <1>2
  <2>2. CountInv'
    BY <2>1, WriteEndsCounts DEF TrafficInv
  <2>3. BatchEnds /\ entries' \subseteq entries \cup batch /\ txs # <<>> /\ txs' = Tail(txs)
    BY <2>1 DEF WriteEnds
  <2> QED BY <2>2, <2>3, BatchEndsKeeps
<1> QED BY <1>1, <1>2

(* Transactions.                                                           *)
LEMMA ContinueKeeps ==
  ASSUME TrafficInv, NEW o \in Ops, Continue(o)
  PROVE  TrafficInv'
<1>1. /\ progress[o] = "flushed" /\ recorded' = recorded /\ queue' = queue /\ flushTimer' = flushTimer
      /\ batch' = batch /\ entries' = entries /\ call' = call /\ earlier' = earlier
      /\ UNCHANGED <<made, stores>>
  BY DEF Continue, made, stores
<1>2. PICK how \in {"transaction", "failed"} :
        progress' = [progress EXCEPT ![o] = how] /\ (txs' = txs \/ txs' = Append(txs, o))
  BY DEF Continue
<1>3. /\ progress' \in [Ops -> {"none", "flushing", "flushed", "transaction", "done", "failed"}]
      /\ progress'[o] = how /\ \A p \in Ops \ {o} : progress'[p] = progress[p]
  BY <1>2 DEF TrafficInv, Operations
<1>4. CountInv'
  BY <1>1, MovesKeep DEF TrafficInv, CountInv, Apart
<1>5. Operations'
  BY <1>1, <1>3 DEF TrafficInv, Operations
<1>6. InOrder'
  <2>1. Begun \subseteq Begun' /\ o \in Begun'
    BY <1>3 DEF Begun
  <2> QED BY <1>2, <2>1, OrderKept DEF TrafficInv, ClearInv
<1>7. Left' /\ ClearedStaysCleared'
  BY <1>1, <1>3, ClearKept DEF TrafficInv, ClearInv, Past
<1> QED BY <1>4, <1>5, <1>6, <1>7 DEF TrafficInv, ClearInv

LEMMA EndsKeeps ==
  ASSUME TrafficInv, NEW o \in Ops, NEW how \in {"done", "failed"}, Ends(o, how), CountInv',
         entries' \subseteq entries, call[o] = Clear /\ how = "done" => entries' = {}
  PROVE  TrafficInv'
<1>1. /\ txs # <<>> /\ Head(txs) = o /\ txs' = Tail(txs) /\ recorded' = recorded /\ queue' = queue
      /\ flushTimer' = flushTimer /\ batch' = batch /\ call' = call /\ earlier' = earlier
      /\ progress' = [progress EXCEPT ![o] = how]
  BY DEF Ends, made
<1>2. o # Write
  BY TrafficAssumption
<1>3. o \in Begun
  <2>1. Head(txs) \in Begun \cup {Write}
    BY <1>1 DEF TrafficInv, ClearInv, InOrder
  <2> QED BY <1>1, <1>2, <2>1
<1>4. progress[o] \in Past
  BY <1>3 DEF Begun, Past
<1>5. /\ progress' \in [Ops -> {"none", "flushing", "flushed", "transaction", "done", "failed"}]
      /\ progress'[o] = how /\ \A p \in Ops \ {o} : progress'[p] = progress[p]
  BY <1>1 DEF TrafficInv, Operations
<1>6. Operations'
  BY <1>1, <1>5 DEF TrafficInv, Operations
<1>7. InOrder'
  <2>1. Begun \subseteq Begun'
    BY <1>5 DEF Begun
  <2> QED BY <1>1, <2>1, OrderKept DEF TrafficInv, ClearInv
<1>8. Left' /\ ClearedStaysCleared'
  BY <1>1, <1>4, <1>5, ClearKept DEF TrafficInv, ClearInv
<1> QED BY <1>6, <1>7, <1>8 DEF TrafficInv, ClearInv

LEMMA CallsDiffer ==
  /\ Query # Clear /\ \A t \in Limits : <<"before", t>> # Clear
  /\ \A t \in Limits, k \in Kinds : <<"up to", t, k>> # Clear
BY DEF Query, Clear

LEMMA TransactionKeeps ==
  ASSUME TrafficInv, NEW o \in Ops,
         Aborts(o) \/ Read(o) \/ ClearAll(o) \/ DeleteBefore(o) \/ DeleteWhere(o)
  PROVE  TrafficInv'
<1>1. CASE Aborts(o)
  <2>1. Ends(o, "failed") /\ entries' = entries /\ UNCHANGED <<made, stores>>
        /\ queue' = queue /\ batch' = batch
    BY <1>1 DEF Aborts, Ends, stores
  <2>2. CountInv'
    BY <2>1, MovesKeep DEF TrafficInv, CountInv, Apart
  <2> QED BY <2>1, <2>2, EndsKeeps
<1>2. CASE Read(o)
  <2>1. Ends(o, "done") /\ entries' = entries /\ UNCHANGED <<made, stores>>
        /\ queue' = queue /\ batch' = batch /\ call[o] # Clear
    BY <1>2, CallsDiffer DEF Read, Ends, stores
  <2>2. CountInv'
    BY <2>1, MovesKeep DEF TrafficInv, CountInv, Apart
  <2> QED BY <2>1, <2>2, EndsKeeps
<1>3. CASE ClearAll(o)
  <2>1. Ends(o, "done") /\ entries' = {}
    BY <1>3 DEF ClearAll
  <2> QED BY <1>3, <2>1, ClearAllCounts, EndsKeeps DEF TrafficInv
<1>4. CASE DeleteBefore(o)
  <2>1. Ends(o, "done") /\ entries' \subseteq entries /\ call[o] # Clear
    BY <1>4, CallsDiffer DEF DeleteBefore, Without
  <2> QED BY <1>4, <2>1, DeleteBeforeCounts, EndsKeeps DEF TrafficInv
<1>5. CASE DeleteWhere(o)
  <2>1. Ends(o, "done") /\ entries' \subseteq entries /\ call[o] # Clear
    BY <1>5, CallsDiffer DEF DeleteWhere, Without
  <2> QED BY <1>5, <2>1, DeleteWhereCounts, EndsKeeps DEF TrafficInv
<1> QED BY <1>1, <1>2, <1>3, <1>4, <1>5

------------------------------------------------------------------------------
(* The invariant of the specification.                                     *)

LEMMA InitIInv == TrafficInit => TrafficInv
<1> SUFFICES ASSUME TrafficInit PROVE TrafficInv
  OBVIOUS
<1>1. Stores /\ Apart
  <2>1. (CHOOSE t \in Times : TRUE) \in Times /\ (CHOOSE k \in Kinds : TRUE) \in Kinds
    BY TrafficAssumption
  <2> QED BY <2>1 DEF TrafficInit, Stores, Apart
<1>2. Bounded
  <2>1. Written = {} /\ \A b \in Buckets : aggMinute[b] = 0
    BY DEF TrafficInit, Written
  <2> QED BY <2>1, FS_EmptySet DEF Bounded
<1>3. AggregatesAgree
  <2>1. entries = {} /\ \A b \in Buckets : aggMinute[b] = 0
    BY DEF TrafficInit
  <2> QED BY <2>1, CountOfNone DEF AggregatesAgree
<1>4. Operations
  <2>1. /\ flushTimer = FALSE /\ txs = <<>> /\ call = [o \in Ops |-> <<>>]
        /\ progress = [o \in Ops |-> "none"] /\ earlier = [o \in Ops |-> {}]
    BY DEF TrafficInit
  <2>2. txs \in Seq(Ops \cup {Write})
    BY <2>1
  <2> QED BY <2>1, <2>2 DEF Operations
<1>5. InOrder
  <2>1. txs = <<>>
    BY DEF TrafficInit
  <2> QED BY <2>1 DEF InOrder
<1>6. Left /\ ClearedStaysCleared
  BY DEF TrafficInit, Left, Past, ClearedStaysCleared
<1> QED BY <1>1, <1>2, <1>3, <1>4, <1>5, <1>6 DEF TrafficInv, CountInv, ClearInv

LEMMA StepKeepsIInv == TrafficInv /\ [TrafficNext]_trafficVars => TrafficInv'
<1> SUFFICES ASSUME TrafficInv, [TrafficNext]_trafficVars PROVE TrafficInv'
  OBVIOUS
<1>1. CASE UNCHANGED trafficVars
  <2>1. CountInv'
    BY <1>1, MovesKeep DEF trafficVars, made, stores, TrafficInv, CountInv, Apart
  <2>2. /\ recorded' = recorded /\ queue' = queue /\ flushTimer' = flushTimer /\ batch' = batch
        /\ txs' = txs /\ entries' = entries /\ call' = call /\ progress' = progress /\ earlier' = earlier
    BY <1>1 DEF trafficVars
  <2>3. Operations' /\ Left' /\ ClearedStaysCleared'
    BY <2>2 DEF TrafficInv, Operations, ClearInv, Left, ClearedStaysCleared
  <2>4. InOrder'
    BY <2>2, OrderKept DEF TrafficInv, ClearInv, Begun
  <2> QED BY <2>1, <2>3, <2>4 DEF TrafficInv, ClearInv
<1> QED
  BY <1>1, RecordKeeps, TimerFiresKeeps, BeginKeeps, BeginClearKeeps, WriteBeginsKeeps, BatchKeeps,
     ContinueKeeps, TransactionKeeps
  DEF TrafficNext

LEMMA TrafficInvHolds == TrafficSpec => []TrafficInv
BY InitIInv, StepKeepsIInv, PTL DEF TrafficSpec

(* The queue, the batch, the stores and the operations of TrafficLogger    *)
(* stay well typed (traffic.js:113-131), and no count exceeds the number of*)
(* records.                                                                *)
THEOREM TrafficLogTyped == TrafficSpec => []TrafficTypeOK
<1>1. TrafficInv => TrafficTypeOK
  <2> SUFFICES ASSUME TrafficInv PROVE TrafficTypeOK
    OBVIOUS
  <2>1. \A b \in Buckets : aggMinute[b] \in 0..Cardinality(Recs)
    <3>1. Written \subseteq Recs /\ Recs \in SUBSET Recs
      BY DEF TrafficInv, CountInv, Stores, Written
    <3>2. /\ Cardinality(Written) \in Nat /\ Cardinality(Recs) \in Nat
          /\ Cardinality(Written) <= Cardinality(Recs)
      BY <3>1, SizeIs
    <3> TAKE b \in Buckets
    <3>3. aggMinute[b] \in Nat /\ aggMinute[b] <= Cardinality(Written)
      BY DEF TrafficInv, CountInv, Stores, Bounded
    <3> QED BY <3>2, <3>3
  <2>2. aggMinute \in [Buckets -> 0..Cardinality(Recs)]
    BY <2>1 DEF TrafficInv, CountInv, Stores
  <2>3. txs \in Seq(Ops \cup {Write})
    <3> PICK B : B = Begun
      OBVIOUS
    <3>1. txs \in Seq(B \cup {Write}) /\ B \cup {Write} \subseteq Ops \cup {Write}
      BY DEF TrafficInv, ClearInv, InOrder, Begun
    <3> QED BY <3>1
  <2> QED BY <2>2, <2>3 DEF TrafficTypeOK, TrafficInv, CountInv, Stores, Operations
<1> QED BY <1>1, TrafficInvHolds, PTL

(* The counts of a minute are those of its entries, but for minutes of     *)
(* which a deletion took a part: however batches and deletions interleave, *)
(* the two stores agree (traffic.js:303).                                  *)
THEOREM AggregatesAgreeHolds == TrafficSpec => []AggregatesAgree
<1>1. TrafficInv => AggregatesAgree
  BY DEF TrafficInv, CountInv
<1> QED BY <1>1, TrafficInvHolds, PTL

(* What was recorded before a clearAll is gone when it is done, and cannot *)
(* come back from the queue or from a batch under way (traffic.js:869).    *)
THEOREM ClearedStaysClearedHolds == TrafficSpec => []ClearedStaysCleared
<1>1. TrafficInv => ClearedStaysCleared
  BY DEF TrafficInv, ClearInv
<1> QED BY <1>1, TrafficInvHolds, PTL
------------------------------------------------------------------------------
(* The parts together: a step of one part is a stutter of the others.       *)

LEMMA PartsOfLocal ==
  LocalSpec => Spec /\ PublishSpec /\ DatabaseSpec /\ StorageSpec /\ CredentialSpec /\ TrafficSpec
<1>1. LocalInit => Init /\ PublishInit /\ DatabaseInit /\ StorageInit /\ CredentialInit /\ TrafficInit
  BY DEF LocalInit
<1> DEFINE all == <<focus, scanVars, publishVars, databaseVars, storageVars, credentialVars, trafficVars>>
<1>2. [LocalNext]_all => [Next]_scanVars
  BY DEF LocalNext
<1>3. [LocalNext]_all => [PublishNext]_publishVars
  BY DEF LocalNext
<1>4. [LocalNext]_all => [DatabaseNext]_databaseVars
  BY DEF LocalNext
<1>5. [LocalNext]_all => [StorageNext]_storageVars
  BY DEF LocalNext
<1>6. [LocalNext]_all => [CredentialNext]_credentialVars
  BY DEF LocalNext
<1>7. [LocalNext]_all => [TrafficNext]_trafficVars
  BY DEF LocalNext
<1> QED BY <1>1, <1>2, <1>3, <1>4, <1>5, <1>6, <1>7, PTL
        DEF LocalSpec, Spec, PublishSpec, DatabaseSpec, StorageSpec, CredentialSpec, TrafficSpec

(* Whatever part moves, its state stays well typed.                         *)
THEOREM LocalTyped == LocalSpec => []TypesOK
<1> DEFINE Moves == focus \in {"scans", "publishing", "database", "storage", "credentials", "traffic"}
           all == <<focus, scanVars, publishVars, databaseVars, storageVars, credentialVars, trafficVars>>
           Typed == /\ TypeOK /\ PublishTypeOK /\ DatabaseTypeOK
                    /\ StorageTypeOK /\ CredentialTypeOK /\ TrafficTypeOK
<1>1. LocalInit => Moves
  BY DEF LocalInit
<1>2. Moves /\ [LocalNext]_all => Moves'
  BY DEF LocalNext
<1>3. Moves /\ Typed => TypesOK
  BY DEF TypesOK
<1> QED BY <1>1, <1>2, <1>3, PartsOfLocal, RecordScansTyped, ContentPublishingTyped, UserDatabaseTyped,
           StorageTypedHolds, CredentialExchangeTyped, TrafficLogTyped, PTL DEF LocalSpec
==============================================================================
