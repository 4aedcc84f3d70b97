-------------------------- MODULE ContentPublishing --------------------------
(***************************************************************************)
(* DataPublisher (publish/data-publisher.js): one user publishes a file in *)
(* chunks, another fetches it, first the signed manifest, then the chunks, *)
(* each asked of one session of the publisher and kept in a database.      *)
(*                                                                         *)
(* An action is the code between two awaits that matter: the look-ups in   *)
(* the own database are part of the step that follows them.  The fetches   *)
(* are those of #fetchLargePayload, which names no session.                *)
(***************************************************************************)
EXTENDS Integers, FiniteSets

CONSTANTS Chunks,      \* of the file
          Manifest,
          Fetches,     \* calls of fetchFile
          Peers,       \* sessions the publishing user may have
          Nobody,      \* no fetch, no session
          Everyone,    \* the list of session ids taken for one id
          Concurrency, \* CHUNK_FETCH_CONCURRENCY
          MaxUpsets    \* bound: faults, sessions that change, reloads

VARIABLES
  published,     \* what the publisher has stored
  atPeer,        \* sessions of the publisher that are online
  direct,        \* a data channel is open to every session
  stored,        \* what the fetching user has stored
  sessionId,     \* #sessionIdCache: a session, Nobody, or Everyone while it is looked up
  lookingUp,     \* the request that looks the session up, or Nobody
  manifestEntry, \* #manifestRequestMap: the fetch the answer is for
  armed,         \* fetches whose manifest timer runs
  expired,       \* fetches whose timer ended while they looked a session up
  unsent,        \* history: fetches whose timer was stopped since they could not be sent
  fetch,         \* a call of fetchFile
  via,           \* the fetch whose promise a joined fetch waits for
  chunkEntry,    \* #chunkRequestMap: the fetch that asked, or "settled"
  chunk,         \* the requests for chunks of a fetch
  mail,          \* requests and answers under way
  excused, stale, \* history: fetches disturbed, or sent to a session that is gone
  upsets         \* bound

timing  == <<armed, expired, unsent>>
asking  == <<sessionId, lookingUp, manifestEntry, timing, fetch, via, chunkEntry, chunk>>
publishVars == <<published, atPeer, direct, stored, asking, mail, excused, stale, upsets>>

Items == Chunks \cup {Manifest}
Requests == Fetches \X Items
Over == {"idle", "ok", "failed"}
UnderWay == {f \in Fetches : fetch[f] \notin Over}
Mail == [kind : {"ask", "have", "missing"}, item : Items, by : Fetches, to : Peers \cup {Everyone}]

ASSUME PublishAssumption ==
  /\ Manifest \notin Chunks
  /\ Nobody \notin Fetches \cup Peers \cup Requests /\ "settled" \notin Fetches \cup {Nobody}
  /\ Everyone \notin Peers \cup {Nobody}
  /\ Concurrency \in Nat /\ MaxUpsets \in Nat

PublishTypeOK ==
  /\ published \subseteq Items /\ stored \subseteq Items /\ atPeer \subseteq Peers
  /\ direct \in BOOLEAN
  /\ sessionId \in Peers \cup {Nobody, Everyone}
  /\ lookingUp \in Requests \cup {Nobody} /\ (sessionId = Everyone <=> lookingUp # Nobody)
  /\ manifestEntry \in Fetches \cup {Nobody} /\ armed \subseteq Fetches /\ expired \subseteq Fetches
  /\ fetch \in [Fetches -> Over \cup {"session", "asked", "joined", "chunks"}]
  /\ via \in [Fetches -> Fetches]
  /\ chunkEntry \in [Chunks -> Fetches \cup {Nobody, "settled"}]
  /\ chunk \in [Fetches -> [Chunks -> {"todo", "session", "asked", "joined", "done", "bad"}]]
  /\ mail \subseteq Mail
  /\ excused \subseteq Fetches /\ stale \subseteq Fetches /\ unsent \subseteq Fetches
  /\ upsets \in 0..MaxUpsets

(* Excused are fetches that were disturbed or not alone.                   *)
Excuse(F) == excused' = excused \cup F
Upset == upsets < MaxUpsets /\ upsets' = upsets + 1 /\ Excuse(UnderWay)
Calm == UNCHANGED <<excused, upsets>>

(* publish: a chunk is stored once it is read, the manifest after them all.*)
(* Mutant: the manifest may be stored as soon as it is signed.             *)
AnyOrder(i) == TRUE
Ready(i) == i = Manifest => Chunks \subseteq published
Publish(i) ==
  /\ i \notin published /\ Ready(i)
  /\ published' = published \cup {i}
  /\ UNCHANGED <<atPeer, direct, stored, asking, mail, excused, stale, upsets>>

(* ------------------------------------------------------------------------*)
(* A session to ask.  The request that looks it up takes the first id; the *)
(* requests that meanwhile wait for the same promise get the whole list.   *)
At(r) == IF r[2] = Manifest THEN fetch[r[1]] ELSE chunk[r[1]][r[2]]
Ask(r, to) == [kind |-> "ask", item |-> r[2], by |-> r[1], to |-> to]
Reaches(to) == IF to = Everyone THEN direct /\ Cardinality(atPeer) = 1 ELSE to \in atPeer

(* The requests R are sent, that of r to s; the entry of the manifest is   *)
(* set by each request for it, and the last one stays.                     *)
SendAll(R, r, s, f1, c1) ==
  LET M == {q[1] : q \in {q \in R : q[2] = Manifest}} IN
  /\ mail' = mail \cup {Ask(q, IF q = r THEN s ELSE Everyone) : q \in R}
  /\ fetch' = [f \in Fetches |-> IF f \in M THEN "asked" ELSE f1[f]]
  /\ chunk' = [f \in Fetches |-> [c \in Chunks |-> IF <<f, c>> \in R THEN "asked" ELSE c1[f][c]]]
  /\ IF M = {} THEN UNCHANGED manifestEntry
     ELSE \E f \in M : (M # {f} => <<f, Manifest>> # r) /\ manifestEntry' = f
  /\ stale' = IF s \in atPeer THEN stale ELSE stale \cup {r[1]}

(* #resolveSessionId and what follows it.                                  *)
Request(r, f1, c1) ==
  IF sessionId \in Peers
  THEN SendAll({r}, r, sessionId, f1, c1) /\ UNCHANGED <<sessionId, lookingUp>>
  ELSE /\ sessionId' = Everyone
       /\ lookingUp' = IF lookingUp = Nobody THEN r ELSE lookingUp
       /\ fetch' = IF r[2] = Manifest THEN [f1 EXCEPT ![r[1]] = "session"] ELSE f1
       /\ chunk' = IF r[2] = Manifest THEN c1 ELSE [c1 EXCEPT ![r[1]][r[2]] = "session"]
       /\ UNCHANGED <<mail, manifestEntry, stale>>

InLookup == {r \in Requests : At(r) = "session"}
SessionFound ==
  /\ lookingUp # Nobody
  /\ \E s \in atPeer : sessionId' = s /\ SendAll(InLookup, lookingUp, s, fetch, chunk)
  /\ lookingUp' = Nobody
  /\ Excuse({r[1] : r \in InLookup \ {lookingUp}})
  /\ UNCHANGED <<published, atPeer, direct, stored, timing, via, chunkEntry, upsets>>

(* ------------------------------------------------------------------------*)
(* Promises that settle.  A fetch whose manifest request fails is over; one*)
(* whose request succeeds goes on with the chunks.                         *)
Promised(g) == {g} \cup {f \in Fetches : fetch[f] = "joined" /\ via[f] = g}
PromisesSettle(F, pc) == fetch' = [f \in Fetches |-> IF f \in F THEN pc ELSE fetch[f]]

(* The requests G for chunk c end; fetches that joined them end with them. *)
ChunkEnds(G, c, how) ==
  LET F == G \cup {f \in Fetches : chunk[f][c] = "joined"} IN
  /\ chunk' = [f \in Fetches |-> IF f \in F THEN [chunk[f] EXCEPT ![c] = how] ELSE chunk[f]]
  /\ chunkEntry' = [chunkEntry EXCEPT ![c] = IF how = "done" /\ @ # Nobody THEN "settled" ELSE Nobody]

(* The look-up fails: no session is online.  Mutant: its promise stays.    *)
StaysCached == sessionId
Forgotten == Nobody
SessionNotFound ==
  /\ lookingUp # Nobody
  /\ IF atPeer = {} THEN Excuse(UnderWay) /\ UNCHANGED upsets ELSE Upset
  /\ sessionId' = Forgotten /\ lookingUp' = Nobody
  /\ PromisesSettle({r[1] : r \in {r \in InLookup : r[2] = Manifest}}, "failed")
  /\ LET lost(c) == \E f \in Fetches : chunk[f][c] = "session" IN
       /\ chunk' = [f \in Fetches |-> [c \in Chunks |->
            IF lost(c) /\ chunk[f][c] \in {"session", "joined"} THEN "bad" ELSE chunk[f][c]]]
       /\ chunkEntry' = [c \in Chunks |-> IF lost(c) THEN Nobody ELSE chunkEntry[c]]
  /\ UNCHANGED <<published, atPeer, direct, stored, manifestEntry, timing, via, mail, stale>>

Running(f) == {c \in Chunks : chunk[f][c] \in {"session", "asked", "joined"}}
(* fetchFile up to the request of the manifest.  Its timer runs before the *)
(* session is known and goes on if none is found.                          *)
Pending == {f \in Fetches : Running(f) # {}}
Starts(f) == Excuse(IF UnderWay \cup Pending \cup armed = {} /\ manifestEntry = Nobody THEN {} ELSE UnderWay \cup {f})
FetchFile(f) ==
  /\ fetch[f] = "idle" /\ Starts(f)
  /\ \/ /\ stored = Items
        /\ PromisesSettle({f}, "ok")
        /\ UNCHANGED <<sessionId, lookingUp, manifestEntry, timing, via, chunk, mail, stale>>
     \/ /\ stored # Items /\ Manifest \in stored
        /\ PromisesSettle({f}, "chunks")
        /\ UNCHANGED <<sessionId, lookingUp, manifestEntry, timing, via, chunk, mail, stale>>
     \/ /\ Manifest \notin stored /\ manifestEntry # Nobody
        /\ PromisesSettle({f}, "joined") /\ via' = [via EXCEPT ![f] = manifestEntry]
        /\ UNCHANGED <<sessionId, lookingUp, manifestEntry, timing, chunk, mail, stale>>
     \/ /\ Manifest \notin stored /\ manifestEntry = Nobody
        /\ armed' = armed \cup {f} /\ UNCHANGED <<expired, unsent>>
        /\ Request(<<f, Manifest>>, fetch, chunk)
        /\ UNCHANGED via
  /\ UNCHANGED <<published, atPeer, direct, stored, chunkEntry, upsets>>

(* asyncPool takes one more than its limit at a time.                      *)
PoolHasRoom(f) == Cardinality(Running(f)) < Concurrency + 1
RequestChunk(f, c) ==
  /\ fetch[f] = "chunks" /\ chunk[f][c] = "todo"
  /\ PoolHasRoom(f)
  /\ \/ /\ c \in stored \/ chunkEntry[c] = "settled"
        /\ chunk' = [chunk EXCEPT ![f][c] = "done"]
        /\ UNCHANGED <<sessionId, lookingUp, manifestEntry, fetch, chunkEntry, mail, stale>>
     \/ /\ c \notin stored /\ chunkEntry[c] \in Fetches
        /\ chunk' = [chunk EXCEPT ![f][c] = "joined"]
        /\ UNCHANGED <<sessionId, lookingUp, manifestEntry, fetch, chunkEntry, mail, stale>>
     \/ /\ c \notin stored /\ chunkEntry[c] = Nobody
        /\ chunkEntry' = [chunkEntry EXCEPT ![c] = f]
        /\ Request(<<f, c>>, fetch, chunk)
  /\ UNCHANGED <<published, atPeer, direct, stored, timing, via, excused, upsets>>

(* Every chunk has been asked for: once all are there the file is put      *)
(* together, and with the first that fails the fetch fails (Promise.all).  *)
FetchEnds(f) ==
  /\ fetch[f] = "chunks" /\ \A c \in Chunks : chunk[f][c] # "todo"
  /\ \/ (\E c \in Chunks : chunk[f][c] = "bad") /\ PromisesSettle({f}, "failed")
     \/ /\ \A c \in Chunks : chunk[f][c] = "done"
        /\ PromisesSettle({f}, IF stored = Items THEN "ok" ELSE "failed")
  /\ UNCHANGED <<published, atPeer, direct, stored, sessionId, lookingUp, manifestEntry, timing, via,
                 chunkEntry, chunk, mail, excused, stale, upsets>>

(* ------------------------------------------------------------------------*)
(* The publisher's session answers, over the channel the request came on.  *)
Answer(m) ==
  /\ m \in mail /\ m.kind = "ask" /\ Reaches(m.to)
  /\ mail' = (mail \ {m}) \cup {[m EXCEPT !.kind = IF m.item \in published THEN "have" ELSE "missing"]}
  /\ UNCHANGED <<published, atPeer, direct, stored, asking, excused, stale, upsets>>

(* The entry of the manifest is removed and its promise settled.           *)
(* Mutant: every timer is stopped, not only the one of the entry.          *)
StopAll(g) == {}
StopTimer(g) == armed \ {g}
EntrySettles(pc) ==
  IF manifestEntry = Nobody THEN UNCHANGED <<manifestEntry, timing, fetch>>
  ELSE /\ manifestEntry' = Nobody
       /\ armed' = StopTimer(manifestEntry) /\ UNCHANGED <<expired, unsent>>
       /\ PromisesSettle(IF manifestEntry \in expired THEN {} ELSE Promised(manifestEntry), pc)

ManifestArrives(m) ==
  /\ m \in mail /\ m.item = Manifest /\ m.kind # "ask"
  /\ mail' = mail \ {m}
  /\ \/ /\ m.kind = "have"
        /\ stored' = stored \cup {Manifest}
        /\ EntrySettles("chunks")
        /\ Calm
     \/ /\ m.kind = "have" \* the signature does not verify
        /\ EntrySettles("failed")
        /\ Upset /\ UNCHANGED stored
     \/ /\ m.kind = "missing"
        /\ EntrySettles("failed")
        /\ Excuse(UnderWay)
        /\ UNCHANGED <<stored, upsets>>
  /\ UNCHANGED <<published, atPeer, direct, sessionId, lookingUp, via, chunkEntry, chunk, stale>>

(* A chunk is recognised by its hash, whoever asked for it.                *)
ChunkArrives(m) ==
  LET G == {f \in Fetches : m.item \in Chunks /\ chunk[f][m.item] = "asked"} IN
  /\ m \in mail /\ m.item \in Chunks /\ m.kind # "ask"
  /\ mail' = mail \ {m}
  /\ IF G # {}
       THEN /\ ChunkEnds(G, m.item, IF m.kind = "have" THEN "done" ELSE "bad")
            /\ stored' = IF m.kind = "have" THEN stored \cup {m.item} ELSE stored
       ELSE UNCHANGED <<chunk, chunkEntry, stored>>
  /\ UNCHANGED <<published, atPeer, direct, sessionId, lookingUp, manifestEntry, timing, fetch, via,
                 excused, stale, upsets>>

(* Sending fails: the entry goes, whoever it belongs to.  The request for  *)
(* the manifest stops its timer and throws to its own caller; the promise  *)
(* that others joined stays as it is, unless the timer has rejected it.    *)
SendFails(m) ==
  /\ m \in mail /\ m.kind = "ask"
  /\ mail' = mail \ {m}
  /\ IF Reaches(m.to) THEN Upset ELSE Excuse(IF At(<<m.by, m.item>>) = "asked" THEN {} ELSE UnderWay) /\ UNCHANGED upsets
  /\ IF m.item = Manifest
       THEN /\ manifestEntry' = Nobody /\ armed' = armed \ {m.by} /\ UNCHANGED expired
            /\ IF fetch[m.by] = "asked"
                 THEN PromisesSettle({m.by}, "failed") /\ unsent' = unsent \cup {m.by}
                 ELSE UNCHANGED <<fetch, unsent>>
            /\ UNCHANGED <<chunk, chunkEntry>>
       ELSE /\ IF chunk[m.by][m.item] = "asked"
               THEN ChunkEnds({m.by}, m.item, "bad") ELSE UNCHANGED <<chunk, chunkEntry>>
            /\ UNCHANGED <<manifestEntry, timing, fetch>>
  /\ UNCHANGED <<published, atPeer, direct, stored, sessionId, lookingUp, via, stale>>

(* A message is lost; the other side, or this one, never learns of it.     *)
Lose(m) ==
  /\ m \in mail /\ Upset
  /\ mail' = mail \ {m}
  /\ UNCHANGED <<published, atPeer, direct, stored, asking, stale>>

(* No answer in time.  The timer of a manifest request removes the entry,  *)
(* whoever it belongs to.                                                  *)
Expected(f, i) == \E m \in mail : m.by = f /\ m.item = i
ManifestTimesOut(f) ==
  /\ f \in armed
  /\ IF Expected(f, Manifest) \/ fetch[f] = "session" THEN Upset ELSE Calm
  /\ armed' = armed \ {f} /\ manifestEntry' = Nobody
  /\ expired' = IF fetch[f] = "session" THEN expired \cup {f} ELSE expired
  /\ PromisesSettle(IF fetch[f] = "asked" THEN Promised(f) ELSE {}, "failed")
  /\ UNCHANGED <<published, atPeer, direct, stored, unsent, sessionId, lookingUp, via, chunkEntry, chunk, mail, stale>>
Expires(f) ==
  /\ \/ fetch[f] = "asked" /\ f \in expired
     \/ fetch[f] = "joined" /\ via[f] \in expired
  /\ PromisesSettle({f}, "failed")
  /\ UNCHANGED <<published, atPeer, direct, stored, sessionId, lookingUp, manifestEntry, timing, via,
                 chunkEntry, chunk, mail, excused, stale, upsets>>
ChunkTimesOut(f, c) ==
  /\ chunk[f][c] = "asked"
  /\ IF Expected(f, c) THEN Upset ELSE Calm
  /\ ChunkEnds({f}, c, "bad")
  /\ UNCHANGED <<published, atPeer, direct, stored, sessionId, lookingUp, manifestEntry, timing, fetch, via,
                 mail, stale>>

(* A session of the publisher comes or goes, or its channel opens or closes.*)
Move ==
  /\ Upset
  /\ \/ \E S \in SUBSET Peers : S # atPeer /\ atPeer' = S /\ UNCHANGED direct
     \/ direct' = ~direct /\ UNCHANGED atPeer
  /\ UNCHANGED <<published, stored, asking, mail, stale>>

(* stop: the entry is rejected, the maps are emptied, and what waits for a *)
(* chunk or for a session goes on.                                         *)
Stop ==
  /\ Upset
  /\ EntrySettles("failed")
  /\ sessionId' = IF lookingUp = Nobody THEN Nobody ELSE sessionId
  /\ chunkEntry' = [c \in Chunks |-> Nobody]
  /\ UNCHANGED <<published, atPeer, direct, stored, lookingUp, via, chunk, mail, stale>>

(* The fetching page is loaded again: only the database remains.           *)
NoChunks == [f \in Fetches |-> [c \in Chunks |-> "todo"]]
Reload ==
  /\ upsets < MaxUpsets /\ upsets' = upsets + 1
  /\ sessionId' = Nobody /\ lookingUp' = Nobody /\ manifestEntry' = Nobody /\ armed' = {} /\ expired' = {}
  /\ via' = [f \in Fetches |-> f]
  /\ chunkEntry' = [c \in Chunks |-> Nobody] /\ chunk' = NoChunks /\ mail' = {}
  /\ fetch' = [f \in Fetches |-> IF f \in UnderWay THEN "idle" ELSE fetch[f]]
  /\ UNCHANGED <<published, atPeer, direct, stored, unsent, excused, stale>>

PublishInit ==
  /\ published = {} /\ stored = {} /\ direct \in BOOLEAN
  /\ \E s \in Peers : atPeer = {s}
  /\ sessionId = Nobody /\ lookingUp = Nobody /\ manifestEntry = Nobody /\ armed = {} /\ expired = {}
  /\ fetch = [f \in Fetches |-> "idle"] /\ via = [f \in Fetches |-> f]
  /\ chunkEntry = [c \in Chunks |-> Nobody] /\ chunk = NoChunks /\ mail = {}
  /\ excused = {} /\ stale = {} /\ unsent = {} /\ upsets = 0

PublishNext ==
  \/ \E i \in Items : Publish(i)
  \/ SessionFound \/ SessionNotFound \/ Move \/ Stop \/ Reload
  \/ \E f \in Fetches : FetchFile(f) \/ FetchEnds(f) \/ ManifestTimesOut(f) \/ Expires(f)
                        \/ \E c \in Chunks : RequestChunk(f, c) \/ ChunkTimesOut(f, c)
  \/ \E m \in mail : Answer(m) \/ ManifestArrives(m) \/ ChunkArrives(m) \/ SendFails(m) \/ Lose(m)

PublishSpec == PublishInit /\ [][PublishNext]_publishVars

(* A caller of requestManifest is not left without an end: the timer of    *)
(* the request whose promise it waits for is running                       *)
(* (data-publisher.js:412), also when another request has taken the entry  *)
(* over.  The exception is a call that joined a request which could not be *)
(* sent: nobody settles its promise any more (:428), although "concurrent  *)
(* requests for one fileHash are merged into one promise"                  *)
(* (publish/README.md:11).                                                 *)
EveryWaitEnds ==
  /\ \A f \in Fetches : fetch[f] = "asked" => f \in armed \cup expired
  /\ \A f \in Fetches : fetch[f] = "joined" =>
       via[f] \in expired \cup unsent \/ fetch[via[f]] = "asked"

(* A fetch that is alone, undisturbed and asks a session that is online    *)
(* gets the file when the manifest is there: publish stores the manifest   *)
(* last (data-publisher.js:289), so its chunks are there too.              *)
LoneFetchSucceeds == \A f \in Fetches : fetch[f] = "failed" => f \in excused \cup stale
=============================================================================
