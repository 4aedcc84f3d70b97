----------------------------- MODULE RecordScans -----------------------------
(***************************************************************************)
(* Reading a table of the browser's database piece by piece while others   *)
(* change it.  Three scans, one at a time:                                 *)
(*   page     getCertsPage (user/db.js): pages of certificates, a filter,  *)
(*            and a look at the next record to tell whether there are more *)
(*   batch    entries and keys of a storage (storage/main.js)              *)
(*   iterate  iterateCerts (user/db.js): one cursor in one transaction,    *)
(*            whose events are taken by the handler that is set            *)
(* Records are named by their primary keys, all under one index key.       *)
(***************************************************************************)
EXTENDS Integers, FiniteSets

CONSTANTS Records, \* primary keys, positive
          Hidden,  \* records the filter rejects (expired certificates)
          Limit    \* limit, BATCH_SIZE

ASSUME RecordsAssumption == Records \subseteq Nat \ {0} /\ IsFiniteSet(Records) /\ Limit \in Nat \ {0}

VARIABLES
  table,  \* the records there are
  kept,   \* history: those that were there all along
  kind,   \* the scan
  reader, \* of the scan: it calls, awaits the call, or is done
  cursor, \* the last record of the scan's last step, 0 before
  ahead,  \* iterate: the rows its cursor has still to pass
  event,  \* iterate: the request of the cursor is under way
  got,    \* how often a record was returned
  slow    \* history: an event of the cursor came while no call awaited it

scan == <<reader, cursor, ahead, event, got, slow>>
scanVars == <<table, kept, kind, scan>>

TypeOK ==
  /\ table \in SUBSET Records /\ kept \in SUBSET Records
  /\ kind \in {"page", "batch", "iterate"}
  /\ reader \in {"calls", "awaits", "done"}
  /\ cursor \in Records \cup {0} /\ ahead \in SUBSET Records
  /\ event \in BOOLEAN /\ slow \in BOOLEAN
  /\ got \in [Records -> Nat]

(* What a scan returns of the records R.                                   *)
Shown(R) == IF kind = "batch" THEN R ELSE R \ Hidden
Return(S) == got' = [i \in Records |-> IF i \in S THEN got[i] + 1 ELSE got[i]]

(* Others write and delete records, in transactions of their own.          *)
Put(i) == i \notin table /\ table' = table \cup {i} /\ UNCHANGED <<kept, kind, scan>>
Delete(i) == i \in table /\ table' = table \ {i} /\ kept' = kept \ {i} /\ UNCHANGED <<kind, scan>>

(* The first Limit of the records R.                                       *)
IsFirst(S, R) ==
  /\ S \subseteq R /\ \A i \in S, j \in R \ S : i < j
  /\ Cardinality(S) <= Limit /\ (S # R => Cardinality(S) = Limit)

(* The next page starts behind the last record of the last one.            *)
(* Mutant: at that record.                                                 *)
FromLast(i) == i >= cursor
Behind(i) == i > cursor
Turn(S) == IF S = {} THEN UNCHANGED cursor ELSE cursor' \in S /\ \A i \in S : i <= cursor'

More(S, R) == IF kind = "page" THEN S # R ELSE Cardinality(S) = Limit
Piece ==
  /\ kind # "iterate" /\ reader = "calls"
  /\ LET R == {i \in Shown(table) : Behind(i)} IN
     \E S \in SUBSET R :
       /\ IsFirst(S, R)
       /\ Return(S) /\ Turn(S)
       /\ reader' = IF More(S, R) THEN "calls" ELSE "done"
  /\ UNCHANGED <<table, kept, kind, ahead, event, slow>>

(* next() of the iterator opens the cursor with its first call, and sets   *)
(* the handler of the cursor's events.                                     *)
IteratorNext ==
  /\ kind = "iterate" /\ reader = "calls" /\ reader' = "awaits"
  /\ IF cursor = 0 /\ ~event THEN ahead' = table /\ event' = TRUE ELSE UNCHANGED <<ahead, event>>
  /\ UNCHANGED <<table, kept, kind, cursor, got, slow>>

(* An event is a row, and asks for the next, or the end; the handler of a  *)
(* call that has returned takes it in vain.  Hidden rows are skipped by    *)
(* values(), which calls again at once.                                    *)
Row(i) ==
  /\ kind = "iterate" /\ event /\ i \in ahead /\ \A j \in ahead : i <= j
  /\ ahead' = ahead \ {i} /\ cursor' = i
  /\ slow' = (slow \/ reader # "awaits")
  /\ Return(IF reader = "awaits" THEN Shown({i}) ELSE {})
  /\ reader' = IF reader = "awaits" /\ i \notin Hidden THEN "calls" ELSE reader
  /\ UNCHANGED <<table, kept, kind, event>>
LastRow ==
  /\ kind = "iterate" /\ event /\ ahead = {}
  /\ event' = FALSE /\ slow' = (slow \/ reader # "awaits")
  /\ reader' = IF reader = "awaits" THEN "done" ELSE reader
  /\ UNCHANGED <<table, kept, kind, cursor, ahead, got>>

Init ==
  /\ table \in SUBSET Records /\ kept = table
  /\ kind \in {"page", "batch", "iterate"}
  /\ reader = "calls" /\ cursor = 0 /\ ahead = {} /\ event = FALSE
  /\ got = [i \in Records |-> 0] /\ slow = FALSE

Next == \/ \E i \in Records : Put(i) \/ Delete(i) \/ Row(i)
        \/ Piece \/ IteratorNext \/ LastRow

Spec == Init /\ [][Next]_scanVars

(* A scan returns no record twice, and when it is done it has returned     *)
(* every record that was there all along and that it shows: a page resumes *)
(* behind the last record it returned, whatever was written or deleted     *)
(* since (db.js:365, storage/main.js:516).  iterateCerts only if none of   *)
(* its cursor's events came while its caller was busy (db.js:484).         *)
ScanComplete ==
  /\ \A i \in Records : got[i] <= 1
  /\ reader = "done" /\ ~slow => \A i \in Shown(kept) : got[i] = 1

(* The same for every caller: iterateCerts goes through the records        *)
(* (db.js:451), and its calls come to an end.                              *)
IterationComplete ==
  /\ reader = "awaits" => event
  /\ reader = "done" => \A i \in Shown(kept) : got[i] = 1
=============================================================================
