-------------------------- MODULE CredentialExchange --------------------------
(***************************************************************************)
(* The records of one key at one user (user/cred.js, saveCertIfNewer in    *)
(* user/db.js): they are imported, by the application or as the answer of  *)
(* a peer, and the one signed last is kept.  A request to the peer is sent *)
(* again after a timeout or a failed send, up to MaxAttempts times.        *)
(*                                                                         *)
(* #requestMap is seen at one key: it holds one request or none.  A record *)
(* is its signTime; signatures and formats are checked as a whole, with a  *)
(* record either sound or refused.                                         *)
(***************************************************************************)
EXTENDS Integers, FiniteSets

CONSTANTS Reqs, None,
          Imports,     \* imports the application makes
          MaxSign,     \* bound: signTimes
          Ahead,       \* signTimes after the local clock, refused unless for a profile
          MaxAttempts  \* 1 + CRED_REQ_RETRIES

ASSUME CredentialAssumption == None \notin Reqs /\ MaxSign \in Nat

Signs == 1..MaxSign
Nothing == 0     \* no record
Refused == -1    \* a record that importRecord throws at: expired, mismatched, badly signed
Tries == Reqs \X Nat

VARIABLES
  local,    \* the signTime of the stored record, or Nothing
  held,     \* the record of the peer
  entry,    \* the request in #requestMap, or None
  state,    \* of a request: its promise
  attempts, \* entry.attempts
  timer,    \* entry.timer: the last timer set
  timers,   \* the timers that run: <<request, attempt, "timeout">>, and the
            \* retries <<request, attempt, the failure they follow>>
  sends,    \* attempts between their start and the relay of the request
  asked,    \* requests on their way to the peer
  answers,  \* <<attempt, record>>: answers on their way back
  imports,  \* <<who, record, stage>>: importRecord under way
  imported, \* imports of the application that were started
  crossed   \* history: a request began while an earlier one still had work

store == <<local, held, imports, imported>>
requestVars == <<entry, state, attempts, timer, timers, sends, crossed>>
net == <<asked, answers>>
credentialVars == <<store, requestVars, net>>

Timers == Reqs \X Nat \X {"timeout", "after timeout", "after send"}
CredentialTypeOK ==
  /\ local \in Signs \cup {Nothing} /\ held \in Refused..MaxSign
  /\ entry \in Reqs \cup {None}
  /\ state \in [Reqs -> {"none", "waiting", "resolved", "rejected"}]
  /\ attempts \in [Reqs -> Nat]
  /\ timer \in [Reqs -> Timers \cup {None}] /\ timers \subseteq Timers
  /\ sends \subseteq Tries /\ asked \subseteq Tries
  /\ answers \subseteq Tries \X (Refused..MaxSign)
  /\ imports \subseteq (Tries \cup Imports) \X (Refused..MaxSign) \X {"check", "write"}
  /\ imported \subseteq Imports /\ crossed \in BOOLEAN

(* #attemptCredRequest: for whatever request the map holds by now.         *)
Attempt(r, running) ==
  LET n == attempts[r] + 1 IN
  /\ attempts' = [attempts EXCEPT ![r] = n]
  /\ timer' = [timer EXCEPT ![r] = <<r, n, "timeout">>]
  /\ timers' = running \cup {<<r, n, "timeout">>}
  /\ sends' = sends \cup {<<r, n>>}

(* requestRecord, also through getRecord and getProfile when nothing is    *)
(* stored; a key that is being asked for shares the promise.               *)
RequestRecord(r) ==
  /\ state[r] = "none" /\ r = CHOOSE q \in Reqs : state[q] = "none"
  /\ entry = None
  /\ entry' = r /\ state' = [state EXCEPT ![r] = "waiting"]
  /\ Attempt(r, timers)
  /\ crossed' = (crossed \/ sends # {} \/ timers # {})
  /\ UNCHANGED <<store, net>>

(* fail(stage, err) of attempt n of r; running: the timers that still run. *)
(* The entry is removed by its key.                                        *)
Fail(r, n, stage, running) ==
  IF attempts[r] >= MaxAttempts
  THEN /\ timers' = running \ {timer[r]} /\ entry' = None
       /\ state' = [state EXCEPT ![r] = IF @ = "waiting" THEN "rejected" ELSE @]
       /\ UNCHANGED timer
  ELSE /\ timers' = (running \ {timer[r]}) \cup {<<r, n, stage>>}
       /\ timer' = [timer EXCEPT ![r] = <<r, n, stage>>]
       /\ UNCHANGED <<entry, state>>
(* Mutant: a failed send ends the waiting, and only a timeout tries again. *)
FailOnce(r, n, stage, running) ==
  IF stage = "after send" /\ attempts[r] < MaxAttempts
  THEN timers' = running \ {timer[r]} /\ UNCHANGED <<entry, state, timer>>
  ELSE Fail(r, n, stage, running)
Fails(r, n, stage, running) == Fail(r, n, stage, running)

TimedOut(r, n) ==
  /\ <<r, n, "timeout">> \in timers
  /\ Fails(r, n, "after timeout", timers \ {<<r, n, "timeout">>})
  /\ UNCHANGED <<store, net, attempts, sends, crossed>>

Retry(t) ==
  /\ t \in timers /\ t[3] # "timeout"
  /\ IF entry = None THEN timers' = timers \ {t} /\ UNCHANGED <<attempts, timer, sends>>
     ELSE Attempt(entry, timers \ {t})
  /\ UNCHANGED <<store, net, entry, state, crossed>>

(* connectUser, #findSessionId and the relay of the request, or the first  *)
(* of them that fails.                                                     *)
Sent(s) ==
  /\ s \in sends /\ sends' = sends \ {s} /\ asked' = asked \cup {s}
  /\ UNCHANGED <<store, entry, state, attempts, timer, timers, crossed, answers>>
SendFailed(s) ==
  /\ s \in sends /\ sends' = sends \ {s}
  /\ Fails(s[1], s[2], "after send", timers)
  /\ UNCHANGED <<store, net, attempts, crossed>>

(* #handleCredRequest at the peer: the record as it is now, if any.  A     *)
(* request or an answer that the relay loses is one never handled.         *)
HandleCredRequest(s) ==
  /\ s \in asked /\ asked' = asked \ {s}
  /\ answers' = answers \cup {<<s, held>>}
  /\ UNCHANGED <<store, requestVars>>

(* #resolveRequest and #rejectRequest: the request the map holds is meant, *)
(* whichever request was answered.                                         *)
Settle(how) ==
  IF entry = None THEN UNCHANGED <<entry, state, timers>>
  ELSE /\ entry' = None /\ state' = [state EXCEPT ![entry] = how]
       /\ timers' = timers \ {timer[entry]}

(* #handleCredResponse: nothing settles at once, a record is imported.     *)
HandleCredResponse(a) ==
  /\ a \in answers /\ answers' = answers \ {a}
  /\ IF a[2] = Nothing THEN Settle("resolved") /\ UNCHANGED imports
     ELSE imports' = imports \cup {<<a[1], a[2], "check">>} /\ UNCHANGED <<entry, state, timers>>
  /\ UNCHANGED <<local, held, imported, attempts, timer, sends, crossed, asked>>

(* issue and import.                                                       *)
Import(i, v) ==
  /\ i \notin imported /\ imported' = imported \cup {i}
  /\ imports' = imports \cup {<<i, v, "check">>}
  /\ UNCHANGED <<local, held, requestVars, net>>

(* The end of an import; an answer settles the request.                    *)
Finish(m, how) ==
  /\ imports' = imports \ {m}
  /\ IF m[1] \in Imports THEN UNCHANGED <<entry, state, timers>> ELSE Settle(how)

(* importRecord verifies, saveIfNewer compares with what is stored now.    *)
Newer(v) == local = Nothing \/ (v > local /\ v \notin Ahead)
Check(m) ==
  /\ m \in imports /\ m[3] = "check"
  /\ \/ m[2] = Refused /\ Finish(m, "rejected")
     \/ m[2] # Refused /\ ~Newer(m[2]) /\ Finish(m, "resolved")
     \/ /\ m[2] # Refused /\ Newer(m[2])
        /\ imports' = (imports \ {m}) \cup {<<m[1], m[2], "write">>}
        /\ UNCHANGED <<entry, state, timers>>
  /\ UNCHANGED <<local, held, imported, attempts, timer, sends, crossed, net>>

(* saveCertIfNewer: compares again, in the transaction that writes.        *)
(* Mutant: the first comparison is trusted.                                *)
Trusted(v) == TRUE
StillNewer(v) == v > local
SaveCertIfNewer(m) ==
  /\ m \in imports /\ m[3] = "write" /\ Finish(m, "resolved")
  /\ local' = IF StillNewer(m[2]) THEN m[2] ELSE local
  /\ UNCHANGED <<held, imported, attempts, timer, sends, crossed, net>>

(* delete, deleteProfile; and the peer signs a later record.               *)
DeleteRecord ==
  /\ local # Nothing /\ local' = Nothing
  /\ UNCHANGED <<held, imports, imported, requestVars, net>>
PeerSigns(v) ==
  /\ held # Refused /\ v > held /\ held' = v
  /\ UNCHANGED <<local, imports, imported, requestVars, net>>

CredentialInit ==
  /\ local = Nothing /\ held \in Signs \cup {Nothing, Refused} /\ imports = {} /\ imported = {}
  /\ entry = None /\ state = [r \in Reqs |-> "none"] /\ attempts = [r \in Reqs |-> 0]
  /\ timer = [r \in Reqs |-> None] /\ timers = {} /\ sends = {} /\ crossed = FALSE
  /\ asked = {} /\ answers = {}

CredentialNext ==
  \/ \E r \in Reqs : RequestRecord(r) \/ \E n \in 1..attempts[r] : TimedOut(r, n)
  \/ \E t \in timers : Retry(t)
  \/ \E s \in sends : Sent(s) \/ SendFailed(s)
  \/ \E s \in asked : HandleCredRequest(s)
  \/ \E a \in answers : HandleCredResponse(a)
  \/ \E m \in imports : Check(m) \/ SaveCertIfNewer(m)
  \/ \E i \in Imports, v \in Signs : Import(i, v)
  \/ \E v \in Signs : PeerSigns(v)
  \/ DeleteRecord

CredentialSpec == CredentialInit /\ [][CredentialNext]_credentialVars

(* A stored record is replaced only by one signed later, though imports    *)
(* overlap; only a deletion takes it away (cred.js:299, db.js:249).        *)
NeverOlder == [][local' = Nothing \/ local' >= local]_credentialVars

(* A request that waits is in the map and has a timer, so that an answer   *)
(* finds it and silence ends: unless another request for the key crossed   *)
(* it, whose late failure may remove its entry (cred.js:714).              *)
SettlesIfAlone ==
  \A r \in Reqs : state[r] = "waiting" /\ ~crossed => entry = r /\ timer[r] \in timers
=============================================================================
