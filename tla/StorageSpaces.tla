---------------------------- MODULE StorageSpaces ----------------------------
(***************************************************************************)
(* NosStorage (storage/main.js): instances for one storage id, each with   *)
(* the promise of a connection to the database of that id, the calls made  *)
(* of them, close, getStorage and deleteStorage.  A call that finds its    *)
(* connection closed opens a new one, once.                                *)
(*                                                                         *)
(* IndexedDB is external, as in UserDatabase; these connections do not     *)
(* listen for versionchange.  A transaction is one step: it reads the old  *)
(* value and writes the new one before anything else touches the key.      *)
(***************************************************************************)
EXTENDS Sequences, FiniteSets

CONSTANTS Instances, Conns, Calls, Values, Null,
          Deletion  \* the request to delete the database

ASSUME StorageAssumption == Deletion \notin Conns /\ Null \notin Conns

VARIABLES
  value,    \* what the database holds under the key, or Null
  idb,      \* this[IDB]: the connection (its promise) of an instance, or Null
  conn,     \* the state of a connection, "refused" if its promise was rejected
  requests, \* of IndexedDB: connections to open, and deletions
  instance, live,            \* instances and liveInstances of the id
  want, status, result,      \* of a call: as in KeyValueStore
  of, awaits, retried,       \* of a call: instance, connection, a second try
  closing,  \* connections a close() waits for
  deleting, \* deleteStorage: "idle", "closing", "asked", "done", "failed"
  awaited,  \* connections whose close deleteStorage waits for
  reopened  \* history: connections opened because another was closed, or by
            \* an instance made while deleteStorage closes the others

calls == <<want, status, result, of, awaits, retried>>
maps == <<instance, live>>
deletion == <<deleting, awaited>>
storageVars == <<value, idb, conn, requests, maps, calls, closing, deletion, reopened>>

StorageTypeOK ==
  /\ value \in Values \cup {Null}
  /\ idb \in [Instances -> Conns \cup {Null}]
  /\ conn \in [Conns -> {"unused", "queued", "open", "closed", "refused"}]
  /\ requests \in Seq(Conns \cup {Deletion})
  /\ instance \in Instances \cup {Null} /\ live \subseteq Instances
  /\ want \in [Calls -> Values \cup {Null, "read"}]
  /\ status \in [Calls -> {"none", "called", "applied", "failed"}]
  /\ result \in [Calls -> Values \cup {Null}]
  /\ of \in [Calls -> Instances \cup {Null}] /\ awaits \in [Calls -> Conns \cup {Null}]
  /\ retried \subseteq Calls
  /\ closing \subseteq Conns /\ awaited \subseteq Conns /\ reopened \subseteq Conns
  /\ deleting \in {"idle", "closing", "asked", "done", "failed"}

(* _openDB: the connection is asked for.                                   *)
Fresh == {c \in Conns : conn[c] = "unused"}
New == CHOOSE c \in Fresh : TRUE
OpenDB(i) ==
  /\ Fresh # {}
  /\ idb' = [idb EXCEPT ![i] = New]
  /\ conn' = [conn EXCEPT ![New] = "queued"]
  /\ requests' = Append(requests, New)

(* new NosStorage, and getStorage if there is no instance.                 *)
Construct(i) ==
  /\ idb[i] = Null /\ i = CHOOSE j \in Instances : idb[j] = Null
  /\ OpenDB(i)
  /\ live' = live \cup {i}
  /\ \/ instance = Null /\ instance' = i
     \/ UNCHANGED instance
  /\ reopened' = IF deleting = "closing" THEN reopened \cup {New} ELSE reopened
  /\ UNCHANGED <<value, calls, closing, deletion>>

Opened ==
  /\ requests # <<>> /\ Head(requests) \in Conns
  /\ \E s \in {"open", "refused"} : conn' = [conn EXCEPT ![Head(requests)] = s]
  /\ requests' = Tail(requests)
  /\ UNCHANGED <<value, idb, maps, calls, closing, deletion, reopened>>

(* setItem, removeItem and clear want a value or Null; getItem, has,       *)
(* length and key read.                                                    *)
CallItem(o, i, w) ==
  /\ status[o] = "none" /\ o = CHOOSE p \in Calls : status[p] = "none"
  /\ idb[i] # Null
  /\ status' = [status EXCEPT ![o] = "called"] /\ want' = [want EXCEPT ![o] = w]
  /\ of' = [of EXCEPT ![o] = i] /\ awaits' = [awaits EXCEPT ![o] = idb[i]]
  /\ UNCHANGED <<value, idb, conn, requests, maps, result, retried, closing,
                 deletion, reopened>>

(* _withStore with an open connection: the transaction.                    *)
Waiting(o, s) == status[o] = "called" /\ conn[awaits[o]] = s
Transact(o) ==
  /\ Waiting(o, "open")
  /\ status' = [status EXCEPT ![o] = "applied"]
  /\ IF want[o] = "read" THEN result' = [result EXCEPT ![o] = value] /\ UNCHANGED value
     ELSE value' = want[o] /\ UNCHANGED result
  /\ UNCHANGED <<idb, conn, requests, maps, want, of, awaits, retried, closing,
                 deletion, reopened>>

(* The connection is closed: once, a new one is opened for the instance.   *)
(* Mutant: the call has been applied before it is tried again.             *)
AppliedTwice(o) == want[o]
AsBefore(o) == value
Reopen(o) ==
  /\ Waiting(o, "closed") /\ o \notin retried
  /\ OpenDB(of[o])
  /\ value' = AsBefore(o)
  /\ awaits' = [awaits EXCEPT ![o] = New] /\ retried' = retried \cup {o}
  /\ reopened' = reopened \cup {New}
  /\ UNCHANGED <<maps, want, status, result, of, closing, deletion>>
CallFails(o) ==
  /\ \/ Waiting(o, "open") \/ Waiting(o, "refused")
     \/ Waiting(o, "closed") /\ o \in retried
  /\ status' = [status EXCEPT ![o] = "failed"]
  /\ UNCHANGED <<value, idb, conn, requests, maps, want, result, of, awaits, retried,
                 closing, deletion, reopened>>

(* close(): waits for the connection the instance has now, and closes it.  *)
Close(i) ==
  /\ idb[i] # Null /\ closing' = closing \cup {idb[i]}
  /\ UNCHANGED <<value, idb, conn, requests, maps, calls, deletion, reopened>>
Closes(c) ==
  /\ c \in closing /\ conn[c] # "queued"
  /\ closing' = closing \ {c}
  /\ conn' = IF conn[c] = "open" THEN [conn EXCEPT ![c] = "closed"] ELSE conn
  /\ awaited' = awaited \ {c}
  /\ IF c \in awaited /\ conn[c] = "refused" THEN deleting' = "failed" ELSE UNCHANGED deleting
  /\ UNCHANGED <<value, idb, requests, maps, calls, reopened>>

(* The browser ends a connection: db.onclose opens the next one.           *)
Ended(i) ==
  /\ idb[i] # Null /\ conn[idb[i]] = "open"
  /\ Fresh # {}
  /\ idb' = [idb EXCEPT ![i] = New]
  /\ conn' = [conn EXCEPT ![idb[i]] = "closed", ![New] = "queued"]
  /\ requests' = Append(requests, New)
  /\ reopened' = reopened \cup {New}
  /\ UNCHANGED <<value, maps, calls, closing, deletion>>

(* deleteStorage: every live instance is closed, then the database asked   *)
(* to go; it goes when no connection is open.                              *)
(* Mutant: only the instance of getStorage is closed.                      *)
CachedOnly == {instance} \cap live
AllLive == live
DeleteStorage ==
  /\ deleting = "idle" /\ deleting' = "closing"
  /\ awaited' = {idb[i] : i \in AllLive} /\ closing' = closing \cup awaited'
  /\ instance' = Null
  /\ UNCHANGED <<value, idb, conn, requests, live, calls, reopened>>
AskDelete ==
  /\ deleting = "closing" /\ awaited = {}
  /\ deleting' = "asked" /\ live' = {}
  /\ requests' = Append(requests, Deletion)
  /\ UNCHANGED <<value, idb, conn, instance, calls, closing, awaited, reopened>>
OpenConns == {c \in Conns : conn[c] = "open"}
Deleted ==
  /\ requests # <<>> /\ Head(requests) = Deletion /\ OpenConns = {}
  /\ value' = Null /\ deleting' = "done"
  /\ requests' = Tail(requests)
  /\ UNCHANGED <<idb, conn, maps, calls, closing, awaited, reopened>>

(* A connection nothing refers to may be collected, which closes it.       *)
Collect(c) ==
  /\ conn[c] = "open" /\ c \notin closing
  /\ \A i \in Instances : idb[i] # c
  /\ \A o \in Calls : status[o] = "called" => awaits[o] # c
  /\ conn' = [conn EXCEPT ![c] = "closed"]
  /\ UNCHANGED <<value, idb, requests, maps, calls, closing, deletion, reopened>>

StorageInit ==
  /\ value = Null
  /\ idb = [i \in Instances |-> Null] /\ conn = [c \in Conns |-> "unused"] /\ requests = <<>>
  /\ instance = Null /\ live = {}
  /\ want = [o \in Calls |-> "read"] /\ status = [o \in Calls |-> "none"] /\ result = [o \in Calls |-> Null]
  /\ of = [o \in Calls |-> Null] /\ awaits = [o \in Calls |-> Null]
  /\ retried = {} /\ closing = {} /\ awaited = {} /\ reopened = {}
  /\ deleting = "idle"

StorageNext ==
  \/ Opened \/ DeleteStorage \/ AskDelete \/ Deleted
  \/ \E i \in Instances : Construct(i) \/ Close(i) \/ Ended(i)
                          \/ \E o \in Calls, w \in Values \cup {Null, "read"} : CallItem(o, i, w)
  \/ \E o \in Calls : Transact(o) \/ Reopen(o) \/ CallFails(o)
  \/ \E c \in Conns : Closes(c) \/ Collect(c)

StorageSpec == StorageInit /\ [][StorageNext]_storageVars

(* Every call takes effect once or not at all, also one that is tried      *)
(* again on a new connection (main.js:330).                                *)
KV == INSTANCE KeyValueStore
CallsApplyOnce == KV!Spec

(* The request of deleteStorage waits only for connections that were       *)
(* opened again, because a closed one was used or had ended, or were made  *)
(* meanwhile: the others are closed before (main.js:653).                  *)
DeleteUnhindered ==
  deleting = "asked" => \A c \in Conns : conn[c] = "open" => c \in reopened
=============================================================================
