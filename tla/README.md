# NoneOS core in TLA+

NoneOS core connects browser sessions of users to each other. A relay server
written in Rust (`src/server/handshake`) authenticates sessions, finds them,
forwards frames between them and keeps an offline inbox. The client library
(`src/nos`) keeps connections to several servers, upgrades them to WebRTC where
it can, and builds ordered and acknowledged messages, content transfer,
certificates and storage on top.

This directory holds specifications of the parts whose correctness depends on
the order of events: what they promise, TLC configurations that check small
instances, and proofs of the central invariants that TLAPS checks for every
value of the constants. Line numbers below refer to the files under `src/`.

## 1. Inventory

### Relay server

**Session registry** (`handler.rs`, `admin.rs`). State: `users`, a concurrent
map from `userId:sessionId` to a record with a channel, a disconnect signal and
a relay-failure count; `user_session_counts`; an entry per session in
`TrafficStats.sessions`. Operations: `add_user` (limit check, eviction of the
session with the same key, insert, recount), the communication loop,
`record_relay_failure` and the kick it may cause, `remove_user_if_current` and
the rest of the cleanup, and the administrator's kicks. Each access to a map is
atomic; nothing holds a lock across two of them. Hard: two handshakes for one
key, a cleanup that comes after the successor registered, counters that are
changed by several tasks. Correct if a served session is always found under its
key, one key has one live connection, an evicted task ends, and counters and
tables follow the registry.

**Relay command and offline inbox** (`handler.rs:316-432`, `inbox.rs`). State:
the table of stored messages, ordered by user, time and a sequence number. Operations:
forward into the target's channel, store when there is none, read-and-delete in
the target's handshake, TTL, sweep by the flush timer. Hard: a store races a
flush; a channel is used after its session ended; the inbox is full. Correct if
no accepted message vanishes without one of the documented reasons, none is
sent twice, the inbox stays bounded, a backlog comes in order and rows leave.

**Relay quota** (`handler.rs:93-147, 996-1020, 1204-1229`, `admin.rs:59-95`,
`traffic.rs:78-87`). State: `user_quotas` in memory and a record per user in
the database. Operations: load and save in the handshake, `get_or_create`, check,
billing, save and removal in the last session's cleanup, the administrator's
commands. Hard: load, change and save are separate transactions, and several
tasks hold copies. Correct if usage is billed once and a granted quota lasts.

**Traffic statistics** (`traffic.rs`). Totals, per-session counters, minute
buckets, interval counters that `perform_flush` takes and adds to the database,
and the counters of the billing period. Hard: three writers take the same
counters (timer, cleanup, final flush). Correct if each byte is written once and
the period's total is that of its days.

**Billing period calendar** (`traffic.rs:589-710`). Pure: civil dates from
days and back, month lengths, start of the period with a reset day. Correct if it agrees with
a reference calendar and is monotone.

**Startup and shutdown** (`main.rs`). Migration, restore of counters, accept
loop, flush timer, final flush after a signal. Hard: the signal wakes only
tasks that wait at that moment.

**Admin HTTP API** (`admin_http.rs`), **configuration and signatures**
(`config.rs`, `crypto.rs`). Parsing, routing, one library call; no state of
their own.

### Client

**Wire order of a session pair** (`remote-user.js:357-557`,
`user.js:489-603`). Sender state: a gate (a promise per session), `#wireSeq`,
`#relayInFlight` with the release of a waiting switch. Receiver state:
`#orderStates`, with `next`, a buffer and a timer per stream. Operations: send over RTC or a
server relay with retry on a second server, dispose, reordering, hold timeout,
pruning. Hard: two paths, lost answers and repeated frames, asynchronous
decryption. Correct if messages come in call order unless a gap is given up,
every call settles, and nothing is held for ever.

**Reliable delivery to a service** (`remote-user.js:1000-1640`,
`reliable.js`, `user.js:780-860`). State: an offline queue with a copy in the
database, an `AckWaiter` keyed by message id, a backoff timer, a flag
`#flushing`; the receiver's `DedupCache`. Operations: `sendToService`, wait,
resend, enqueue with overflow, flush, expiry, restore after a reload, dispatch
to a handler, acks. Hard: awaits inside the flush, one waiter slot for two
deliveries, a reload at any moment. Correct if a handler starts once, a receipt
says what happened and is settled, and the stored queue mirrors the one in memory.

**Connections to servers** (`server.js`). State: a socket per address,
`#connectPromises`, `#intentionalDisconnects`, reconnect tasks and their timers,
the latency timer. Operations: `connect` with retries, the handshake, close
events, reconnect, disconnect of one and of all, a reset of a stale socket.
Hard: awaits between check and use, a disconnect while an attempt is under way.
Correct if a disconnected server stays down and a wanted one is up or on its way.

**Choice of a server** (`server.js`). State: pending commands, the list of
candidate servers of a user, a cache of latencies. Operations: `queryUserOnline`,
`sendToUser` over one candidate after another, latency tests. Hard: an answer is
matched to a command by server and kind only; the target moves meanwhile.
Correct if what `sendToUser` returns is true of the data it was called with.

**RTC negotiation** (`rtc.js`). State: a peer connection, a channel and
candidates per session, a lock per peer. Operations: offer, answer, candidates,
glare, teardown. Hard: both ends start at once; a signal is lost; events of a
replaced connection. Correct if both ends end with connections that describe
each other, or with none.

**Discovery and services** (`user.js`, `remote-user.js`,
`service-registry.js`). State: registered services, the server's list, a cache
of sessions with the service, calls that wait for it. Operations: register,
announce, query, liveness checks. Hard: an announcement overtakes a query's
answer, a cached session is gone. Correct if no waiting call misses a service.

**Content publishing** (`data-publisher.js`). State: requests for manifests
and chunks under way, a cache of session ids, stored chunks. Operations:
publish, fetch, answer, stop. Hard: concurrent requests share one promise
across awaits. Correct if every wait ends and a fetch that nothing disturbs succeeds.

**Accounts and databases** (`user/main.js`, `user/db.js`). State: the stored
keys, cached connections with a timer each, cached users. Operations: get ready,
import, delete with repeated attempts, scans. Hard: a blocked deletion, a
connection that the cache closes, an import beside a `ready`. Correct if the
keys in use are the stored ones and a deletion happens once.

**Certificates** (`cred.js`). State: records with their signing time, a map of
requests under way. Operations: issue, import, request with repetitions, answer.
Hard: imports overlap; a late failure finds another request's entry. Correct if
a newer record is never replaced by an older one and requests settle.

**Traffic recording** (`user/traffic.js`). State: a queue, a batch being
written, entries and counts per minute. Operations: record, flush, queries,
deletions. Hard: a flush beside a batch. Correct if counts and entries agree
and cleared data stays cleared.

### Data and the rest

**Storage** (`storage/main.js`). State: instances per storage id, each with the
promise of a connection. Operations: the calls of an instance, close, scans,
`deleteStorage`. Hard: a connection is closed under a call, which opens another
and tries again; instances are made during a deletion. Correct if each call
takes effect once or not at all, and a deletion waits for nobody it has closed.

**File system** (`fs`), **hybrid data** (`hybrid-data`, an object tree
mirrored into files with delayed saves), **cryptography** (`crypto`), **service
worker** (`sw`), **utilities**, **pages, tools and scripts**, and
**documentation, old and vendored code**.

### How the parts interact

A session's frames go through the gate, then over RTC or a server; the server
finds the target's channel in the registry, charges the sender's quota and
counts a failure on the sender's record; a missing target means the inbox. The
receiving page reorders, and passes service messages to the dedup and a
handler, whose ack travels back the same way. A handshake ties the server's
parts together: registry, quota record, inbox flush, greeting, loop, cleanup.

## 2. Modules

| Module | Proofs | Checked by | Models |
|---|---|---|---|
| `SessionRegistry` | `SessionRegistryProofs` | `MCRegistry` | registry, kicks, cleanup |
| `Mailbox` | | | what the relay promises about a message (abstract) |
| `RelayInbox` | `RelayInboxProofs` | `MCInbox` | relay command and offline inbox; implements `Mailbox` |
| `QuotaLedger` | `QuotaLedgerProofs` | `MCQuota` | a user's quota record in memory and on disk |
| `OrderedStream` | | | what the receiver of a numbered stream promises (abstract) |
| `WireOrder` | `WireOrderProofs` | `MCWire` | both ends of an ordered stream; implements `OrderedStream` |
| `ReliableDelivery` | `ReliableDeliveryProofs` | `MCDelivery` | sender's queue and acks, receiver's dedup |
| `RtcNegotiation` | `ClientProofs` | `MCClient` | both ends of a WebRTC negotiation |
| `ServerConnections` | `ClientProofs` | `MCClient` | connections to relay servers and their repair |
| `ServerRouting` | `ClientProofs` | `MCClient` | commands, answers, and the way of a message over several servers |
| `ServiceDiscovery` | `ClientProofs` | `MCClient` | services of a peer's sessions and who waits for them |
| `ContentPublishing` | `UserProofs` | `MCLocal` | a file's manifest and chunks, published and fetched |
| `UserDatabase` | `UserProofs` | `MCLocal` | a user's database: created, filled, deleted |
| `RecordScans` | `LocalProofs` | `MCLocal` | reading a table piece by piece while it changes |
| `KeyValueStore` | | | what a storage promises (abstract) |
| `StorageSpaces` | `LocalProofs` | `MCLocal` | storage instances and their connections; implements `KeyValueStore` |
| `CredentialExchange` | `LocalProofs` | `MCLocal` | the records of one key at one user |
| `TrafficLog` | `LocalProofs` | `MCLocal` | queue, entries and counts of the traffic display |

Some modules define faulty variants of operations, marked as mutants. No
specification uses them; each shows that a property notices the slip it stands for.

`MCClient` and `MCLocal` put several modules side by side. A variable `focus`
picks one part per behaviour and the others keep an initial state, so that the
state spaces of the parts add up and do not multiply. Both extend the parts, so
that they check the very definitions that are proved, and `ClientProofs` and
`LocalProofs` extend them in turn. The composition claims
nothing about one part acting on another: the modules model the neighbours they
depend on (servers, network, database) themselves.

### SessionRegistry

`users`, `counts`, `stats`, `fails` and `disconnect` are the maps and the
signal; `pc[c]` is the place of connection c's task, `admin` that of the
administrator's command. One action is one access to a map, so tasks
interleave where the code lets them. `iter` is the snapshot-free iteration of
the recount, which visits keys one by one while others change the map. The
handshake ends early in `RejectHandshake`; a greeting that fails (`aborted`)
skips the cleanup, as `handler.rs:1053` does.

Abstractions: one administrator's command at a time; the failure count stops at
its limit; latency probes, service lists and byte counts are left out.

### RelayInbox and Mailbox

One target user, several senders, several connections of the target. `users` is
the registry's entry per session id, `chan` a connection's channel, `inbox` the
stored rows with their time and sequence number, `left` the rows a handshake
has read and not yet written, `got` what was written to a socket, `lost` what
was dropped with a reason. A command is `Look` (the registry read), then
`Forward`, or `Stamp` and `Store` with the inbox's own transaction. A handshake
is `Insert`, `SaveUser`, `LoadAndClear`, `FlushOne`, `Greet`; a write may fail at each.

Abstractions: the session limit, quota and failure counts are in the other two
server modules; a payload is too large or not by choice; the clock is read
inside the transaction; unreadable rows are left out.

`Mailbox` is the promise: a message gets one verdict; an accepted one is held,
then given to a client or dropped, once; a refused one is never given. The
refinement mapping (`Mail`) reads the verdict off the answer to the sender
("ok" and "queued" accept), holds what is in a row, in a channel or in the hands
of a handshake (`Pending`), gives what was written to a socket, and drops what
`lost` has. A forward and a store are an acceptance; a write of a greeting or of
the loop gives; a closed channel and a sweep drop; a store may drop stale rows
in the step that judges its message; all else is a stutter.

### QuotaLedger

One user. `mem` and `db` are the two records, `task[a]` the place, the copy
and the message size of a connection or of the administrator. `Get`, `Load`,
`Insert` are `get_or_create_user_quota`; `LoadUser` and `SaveUser` are the
handshake's; `Relay` bills; `Persist` and `Retire` are the last cleanup's.
`exhausted` is the month's quota of all users. `billed` and `granted` are
history variables: what was relayed, what the administrator last set. `Restart` drops
memory, for a shutdown saves no quota record.

Abstractions: sessions are counted exactly (the drift is in SessionRegistry);
usage is in small units; a refusal's second lookup of the record is
part of the first; failures of the database are left out.

### WireOrder and OrderedStream

`called`, `turn`, `result` and `pc` are the calls of `send()` and the one in the
gate; `wireSeq`, `inFlight`, `rtcOpen` and `dc` are the sender's fields and the
channel; `net` is what is on the way, over either path, or being decrypted, and
is dispatched in any order; `order` is the receiver's entry for the stream,
`log` what it dispatched. A relay tries one server after another with the same
frame. `PayloadFails` is an exception of the encryption or of `dc.send`: the call ends,
the gate opens, and the number it took is missing. `Dispose` and `Reconnect` replace
the RemoteUser.

Abstractions: contents and encryption; the choice of servers is any order;
`#lastVia` follows from `inFlight` and `rtcOpen`; answers to unnumbered sends of
a disposed RemoteUser are dropped at `Reconnect`, which comes when the old gate
is idle or stuck.

`OrderedStream` is what the receiver promises whatever the sender and the paths
do: a step hands out a run of ascending numbers that begins where the last one
ended (`Deliver`); or gives up the number expected with others that are missing
(`GiveUp`); or hands out one packet whose number has passed (`Late`); and it may
forget where the stream was (`Forget`). The mapping (`InOrder`) takes `next` and
`present` of the receiver's entry, the log and the numbers given up; buffer, timer,
gate and paths are hidden. A packet that is held is a stutter, a release a
`Deliver`, the hold timeout a `GiveUp`, a pruning a `Forget`.

### ReliableDelivery

`job[<<kind, m>>]` is a delivery of m, by `sendToService` or by the flush, with
the sessions left to send to. `queue`, `flush`, `wanted` and `timer` are the
queue and its flush; `store` is the copy in the database, `restore` the
read-then-merge after a reload; `pending` and `recent` are the `AckWaiter`;
`dedup`, `running`, `started` and `done` are the peer. `flushed` records how the
receipt of each queue entry was settled. The link loses and reorders.

Abstractions: a write to the database is one step with its queue operation;
discovery may return any set of sessions, since its cache may be stale; the
dedup has no limit; `queuedAt` is a count, and `aged` says how far the TTL has
come; dispose, large payloads and `ackTimeout: 0` are left out.

### RtcNegotiation

`peers[e]` is the entry under the key at end e and `entry` the fields of every
entry ever made: callbacks close over an entry, others find one by key, and the
difference is what goes wrong. `lock[e]` is the chain of `#pcLocks`, whose head
runs through `step`; `pc` and `half` are the browser's objects. `ConnectPeer`,
`Operation` (offers, rollback, answers), `Signalling` and `Event` are the four
places where code runs. `Fault` allows each kind of disturbance `MaxFaults` times: a
broken connection, a `disconnectUser`, a lost signal.

Abstractions: a description is the connection it came from; a connection has
one candidate; two ends of two different users.

### ServerConnections

`wsMap` and the marks are fields of `ServerManager`; `attempt[u]` is the retry
loop in `#connectPromises`, `call` the callers that joined it, `task` and
`timers` the reconnect tasks with the timers they set, kept apart because a
task may be dropped while its timer runs. `down`, `lasting` and `forsaken` are
history: what the user disconnected, what was up, what a failed `connect` gave up.
A `disconnectAll` puts every server into `down`, and into `spared` those that it
does not mark, because they are not in `wsMap`.
`Closes` is the close event, which comes later than the socket's end.

Abstractions: the handshake is one exchange; a delay is its attempt number; the
monitor is off or one of two intervals.

### ServerRouting

`wire[u]` is the queue of commands at a server; `Answer(u)` settles every
command of that kind that waits there, as the code's matching does. A job goes
through query, latency tests and relays, and `TryNext` chooses the next
candidate. `blurred` marks jobs that had a time-out or a command behind another
of its kind, whose answer they may take for their own; `away` those during which
a server did not have the session; `refused` those whose data a server that has
the session did not pass on, for its quota or its size (`handler.rs:335`, `:616`).

Abstractions: the order that latencies give the candidates is any order; a chunked
payload is one frame; reconnection succeeds or fails in one step.

### ServiceDiscovery

The peer's sessions register and announce (`notices`, `announced`, in order per
session), the server learns of exposed services later (`unsynced`), and a
lookup resolves its targets from the cache, the list, a query of all sessions,
or by waiting. `CheckLiveness` removes dead sessions from the cache.

Abstractions: one service; a query and its answers are one exchange each;
delivery itself is `ReliableDelivery`.

### ContentPublishing

`fetch[f]` is a call of `fetchFile`, `manifestEntry` and `chunkEntry` the two
maps of shared requests, `via` whose promise a joined fetch waits for. A manifest
timer starts before the session is looked up, so `expired` keeps a timer that
ended before its request was sent. A send that fails stops the timer and ends its
own call only: `unsent` has the requests whose promise nobody settles any more
(`data-publisher.js:428`). `Everyone` is the list of session ids that
`#fetchLargePayload` lets pass as one id (`data-publisher.js:316`).

Abstractions: hashes always match; one file; fetches name no session.

### UserDatabase

`cache` and `dbConn` are the pool of connections with the timer that closes it;
`dbRequests` is IndexedDB's queue of opens and deletions. Each task (`ready`,
`importUser`, `deleteUser` and plain calls) is a sequence of transactions, and
waits in between. A deletion has numbered attempts: `due`, `watched` and
`advanced` are the timers of `doDelete` and its watchdog.

Abstractions: keys are "generated" or "imported"; connections that nothing
uses may be taken again under the same name; a `deleteUser` drops the cached user
also when its flush rejects (`main.js:181`).

### RecordScans

Three ways of reading a table that others change: `getCertsPage`, the batches
of a storage, and the cursor of `iterateCerts`. `ahead` is what the open
cursor's snapshot still holds, `event` that its request is under way; a row
event that no call awaits is taken by a handler whose promise is settled.

### StorageSpaces and KeyValueStore

`KeyValueStore` is the promise: a call applies at one moment or fails without
effect. `StorageSpaces` has the instances, their connections and the second try
of `_withStore`. The refinement mapping is the identity on `value`, `want`, `status` and
`result`; connecting, closing and retrying are stuttering steps. It is
checked by TLC (`CallsApplyOnce`) and proved.

Abstractions: one key; a transaction is one step; an instance is not collected
while a call uses it.

### CredentialExchange

One key. `entry` is its slot in `#requestMap`, `attempts`, `timer` and `timers`
belong to requests, since an old request's timers outlive its entry. An import
is two steps, `Check` and the transaction of `saveCertIfNewer`, with any other
imports and a deletion in between.

Abstractions: a record is its signTime or refused as a whole; the peer answers with what
it holds. The attempts of a request have no bound of their own: a retry left over
from an older request serves whichever is in the map (`cred.js:726`), so that
with `MaxAttempts` of 2 and five requests one may be attempted five times.

### TrafficLog

A queue, one batch under way, and operations that flush and then run a
transaction. A batch leaves the queue in one step (`DoFlush`) and makes its
transaction in a later one (`WriteBegins`), once `getSharedDb` has a connection;
an operation likewise (`Continue`), and who waits for a connection gets it in any
order. Transactions run in the order they were made. So a `clearAll` could be
overtaken by a batch that left the queue before; it waits for the batch
(`BeginClear`, `BatchEnds`), and the mutant of `ClearedStaysCleared` does not.
Counts are per minute and kind, so a deletion in the middle of a minute (`cut`)
may leave them apart.

## 3. What the runs check

Twelve runs; ten pass, two show a violation.

| Run | Question | Bounds |
|---|---|---|
| `MCRegistry` | No served session is invisible, one live connection per key, evicted tasks end; count, limit and traffic table are exact until operations on the user overlap | 2 connections, 2 session ids, limit 1, a kick by the administrator |
| `MCInbox` | A backlog keeps its order | 3 messages of one sender, 2 rows, 2 connections, 2 session ids, clock 0..2 |
| `MCInboxLive` | The relay implements `Mailbox`; nothing is sent twice; every row leaves | 2 senders, 1 row, 2 connections under one id |
| `MCQuota` | No copy ever bills more than was relayed; the ledger is exact and grants last while undisturbed | 2 connections, one each of command, kick, restart, used-up month |
| `MCWire` | Call order unless given up; the hold buffer is sound | 3 sends, 2 servers, one opening or closing of RTC, one pruning |
| `MCWireLive` | The receiver implements `OrderedStream`; calls settle and held messages get out | 3 sends, one unnumbered, one RTC change, one pruning, one dispose and reconnect |
| `MCDelivery` | One handler start, plain acks are true, receipts settle | 1 message, 2 transmissions, 1 retry, a reload at each end |
| `MCDeliveryQueue` | A retry is always armed, the store mirrors the queue, no receipt loses its entry | 2 messages, queue of 2, a reload |
| `MCClient` | RTC ends in a matching pair and no connection lives unseen; a disconnected server stays down and a wanted one is kept up; `sendToUser` tells the truth; no waiting call misses a service | 3 RTC connections and one fault of each kind; 1 server with 3 sockets and 2 calls at a time; 2 servers and 2 jobs; 2 sessions and 2 lookups |
| `MCLocal` | Fetches end, and succeed undisturbed; identity and deletion of a user; storage calls apply once and deletions are unhindered; certificates never get older and requests settle; counts agree and cleared data stays so; scans are complete | 2 fetches of 2 chunks, one upset; 3 database connections, 1 retry of the deletion; 2 storage instances, 2 connections and 2 calls; 2 requests of 2 attempts beside an import; 2 records and 2 operations; 4 records in pieces of 2 |
| `MCIteration` (violation) | Does `iterateCerts` return every record? Not to a caller that awaits between two rows | 4 records |
| `MCFlush` (violation) | Does `flush()` wait until the queue is written? Not beside a batch under way | 2 records, 2 operations |

`MCWire` has about 2.5 million states, `MCLocal` 1.8, `MCInbox` 1.5 and `MCClient` 1.1
million; the others are smaller.

Why these bounds are enough. The registry's hazards are races of two tasks (and
the administrator) on one key; a third connection repeats the role of one of
them, and the proofs cover any number. With two session ids and a limit of one,
both eviction and refusal occur. Three wire messages give a baseline, a gap and
a held message; two servers give a repeated frame. In the inbox, two rows and
three messages give a full inbox, a backlog and a message that fits again. In the
delivery model, two transmissions are one resend and a reload gives the restored
entry; two messages are needed for the head of the queue to change under the
flush. Two sessions of the peer are not in these runs: the properties of
`MCDelivery` are proved for any number, but `QueuedSettles` is checked for one.
In QuotaLedger two units are enough to tell usage billed twice from usage lost.

An RTC end needs a second connection to have late events of a first one, and
one end with two is enough for both roles of a replaced connection. Three
sockets give a connection, the one that replaces it and one more for an attempt
that is overtaken. Two servers give an exhausted list of candidates, and two
jobs give answers that could be mistaken. Two fetches share a request or take
it over; two chunks with a concurrency of one make one wait for a place. Three
database connections are the cached one, one that is being closed and the next;
one retry of the deletion gives an attempt that succeeds after it was given up.
Two requests for a key and two attempts give a late failure that meets another
request. What these two runs cannot reach, the proofs cover for
connections to servers, storage, certificates, scans and the traffic log.

`MCRegistry` and `MCQuota` carry a history variable `overlapped`. The code
promises exact counts and usage without taking a lock, and keeps the promise only while no
two operations on one user overlap; the properties say just that. In the same way
`crossed`, `mixed`, `blurred`, `forsaken`, `spared`, `unsent`, `missed`, `reopened` and the like name
the exception under which a property of the client does not hold, and nothing more.
`lasting`, the servers that are to be kept up, leaves out those whose connection was lost
while automatic reconnection was switched off: switching it on again schedules
nothing for them (`server.js:1138`).

Liveness runs and runs that compare particular senders use no symmetry. The
symmetry of the others permutes connections, senders, sessions or messages that
the module treats alike. Deadlock is not checked: every bounded model ends
when its inputs are used up.

### Fairness

- Server: tokio polls a task that can make progress, so a task that was told to
  disconnect, is cleaning up or is in its handshake goes on. This assumes that a
  send completes or fails; a socket whose peer stops reading blocks its task
  (`handler.rs:1079`). The clock goes on and the flush timer sweeps. Clients owe
  nothing: they need not connect, relay or leave.
- Client: the event loop runs every ready continuation; a request is answered or
  times out; timers fire; the TTL of a queue entry passes. The network and the
  peer owe nothing.
- The parts in `MCClient` and `MCLocal` are checked for safety only. That
  something still ends there is stated as an invariant: what waits has a running timer
  or a message on its way (`KeptUp`, `WaiterNotForgotten`, `EveryWaitEnds`,
  `SettlesIfAlone`).

### Where code and comments part

Two runs show it with a counterexample; `PROJECT.json` quotes the lines.

1. `iterateCerts` asks for the next row before its caller does
   (`db.js:487`). If the caller awaits something between two rows, the row's
   event goes to the previous call's handler and is lost, and the last call may
   never end.
2. `flush()` of the traffic log awaits the batch under way and returns
   (`traffic.js:236`); what was queued meanwhile stays in memory, without a timer.
In three more places a property holds only beside what the code does against its
comments. The property names the case; without its exception TLC finds it violated.

- `EveryWaitEnds` and `unsent`: a request for a manifest that cannot be sent stops
  its timer and throws to its own caller (`data-publisher.js:428`). The promise that
  it shared is never settled: a call that joined it (`:380`) waits for ever, although
  the documentation says that such calls are merged into one promise
  (`publish/README.md:11`).
- `DownStaysDown` and `spared`: `disconnectAll` marks only the servers in the table of
  connected sockets (`server.js:1124`). An attempt, a pause or a reconnect timer
  under way goes on and connects, although the comments say that nothing is revived
  after a `disconnectAll` (`:163`) and that a handshake under way is closed (`:313`).
- `VerdictSound` and `refused`: `sendToUser` gives the code `offline` to every answer
  that is not ok (`server.js:917`), also when a server that has the session refuses
  the data for its quota or its size; the comment says that the session is not
  online (`:915`).

The modules' behaviours also include these; most are exceptions that the
properties name as well:

- Registry: a client that leaves before its greeting keeps its record, count
  and traffic entry (`handler.rs:1053`); overlapping operations let the session
  count drift (`:199-213`), exceed the session limit (`:160`, `:182`), remove the
  traffic entry of a successor (`:1202`), kick a successor for the failures of
  its predecessor (`:281`), and retire a quota record while a session is live (`:1205`).
- Quota: while the month's quota is used up, a small relay starts a fresh record
  that the cleanup saves over the stored one (`handler.rs:139`); a restart loses
  what was used since the last cleanup (`main.rs:165`); a handshake writes back
  an older record over a grant or over saved usage (`handler.rs:1017`); a kick
  leaves the record in memory (`admin.rs:104`).
- Inbox: a message is stored for a user who is online when the addressed session
  has no channel (`handler.rs:375`).
- Wire: the first number seen need not be the oldest (`user.js:521`); a pruned
  stream forgets how far it was (`:597`); a new RemoteUser numbers from 1 again,
  so all its messages count as late (`remote-user.js:877`, `user.js:531`);
  dispose drops the release that a switching call waits for
  (`remote-user.js:874`); the gate stays closed until a relay is answered (`:470`).
- Delivery: a message whose handler was missing or failed, and whose ack is
  lost, is confirmed when it is sent again (`user.js:807`); an overflow during a
  flush makes it discard an untried entry, whose receipt is never settled
  (`remote-user.js:1569`); entries queued during a restore come before older restored ones (`:1464`).
- RTC: a lost offer or answer leaves a connection negotiating for ever, and
  `connect` then skips it (`rtc.js:349`).
- Connections: `connect` clears the reconnect task and, if it fails, does not
  schedule another (`server.js:180`).
- Discovery: a lost announcement leaves a waiting call to its time-out
  (`remote-user.js:1181`).
- Publishing: a list of sessions is taken for one id, so that a request goes to
  nobody (`data-publisher.js:316`).
- Certificates: a late failure of an old request removes the entry of a new one,
  which then has no timer (`cred.js:714`).
- Accounts: an attempt to delete that succeeds late does not take back the next,
  which then deletes what was created since (`main.js:239`).
- Storage: a connection that a call opens again keeps `deleteStorage` waiting.

`OrderUnlessGivenUp` and `SendsSettle` name the wire exceptions explicitly.

## 4. What is proved

TLAPS checks every leaf; the assumptions are only those on constants
(bounds are natural numbers, markers are not members of the sets they mark).

| Theorem | Argument |
|---|---|
| `TypeCorrect`, `RegistrationHolds`, `NoInvisibleSessionHolds`, `OneLiveConnectionHolds` (SessionRegistryProofs) | The inductive invariant is `TypeOK`, `Registration` and `Unsignalled`: between its insert and its own `remove_if`, a connection is registered exactly while its signal has not fired. The other two follow without a further induction. They cannot be inductive themselves, as nothing in them speaks of a replaced task that has not yet noticed. |
| `ExactUntilOverlapHolds` (SessionRegistryProofs) | Until operations on a user overlap, one task or command at most is at work for it (`Solo`), and `Account` says for each place it can be at how count, traffic table and registry differ; the administrator's kick is described by the keys it has still to visit. When nobody is at work the difference is nil. |
| `InboxBoundedHolds`, `RelayInboxTyped` (RelayInboxProofs) | `Store` adds a row only after the stale rows are gone and the rest is below the limit; all other steps take rows out. |
| `AtMostOnceHolds` (RelayInboxProofs) | The trail of a connection is what its client got, what is in its channel and what its handshake still holds. A message that was accepted is in one row, or at one place of one trail, or lost with its reason; trails and rows are disjoint (`Apart`), and only accepted messages travel (`Sent`). |
| `BacklogInOrderHolds` (RelayInboxProofs) | A sender's commands are answered in turn (`Turns`), and rows of one sender are older, by time and sequence number, the earlier they were sent (`Stored`). A handshake that reads the rows thus gets them in order, and each trail stays in line (`Lines`), since it has nothing of the inbox before that (`Unread`). |
| `RelayIsMailboxHolds`, `OneFateHolds` (RelayInboxProofs) | Every step of the relay is a step of `Mailbox` or a stutter. What makes it so are the invariants above: a message that is not judged yet is nowhere (`Sent`), so accepting it adds it to one place; it is at one place at a time (`Apart`), so what a step takes from a row, a channel or a backlog is not held any more. `OneFate` is an invariant of the abstract machine and is carried over with it; so the runs check the refinement and not `AcceptedIsAccounted`, which is a part of it. |
| `KeptUntilDueHolds` (RelayInboxProofs) | What `Mailbox` lets a step drop at will has a cause in the relay: a step adds to `lost` only rows past their TTL and what is in the channel of a connection that fails or ends in that step (`LossHasCause`). By `OneFate` a held message is not lost yet, and by the refinement a step that takes it away without giving it loses it. |
| `NoOverbillingHolds` (QuotaLedgerProofs) | Every copy, in memory, on disk or in a task's hands, was made from another and is at most `billed`; adding to a copy adds as much to `billed`. |
| `ExactUndisturbedHolds` (QuotaLedgerProofs) | While undisturbed one task is at work, the record in use is exact, and the copy that the task holds is what its place says: the stored record after a load, the one in memory before a save (`Holds`). |
| `HoldSoundHolds` (WireOrderProofs) | With `Counters` and `Numbered`, which bound the numbers in `sent` and `net`; the case that matters is a release up to the first gap, after which every held packet lies beyond it. |
| `OrderUnlessGivenUpHolds` (WireOrderProofs) | In the first life of a RemoteUser a message's number is its place in the order of calls (`CallsNumbered`). The log is then a stream: below the number that the receiver expects, each number from the first on was dispatched or given up, and nothing beyond it was (`Stream`); a release appends packets in the order of their numbers, so what comes out of order is late, given up or repeated. |
| `WireIsStreamHolds` (WireOrderProofs) | Every step of sender, network and receiver is a step of `OrderedStream` or a stutter. A packet that is released or flushed was sent (`StreamInv`: what is held or in flight is in `sent`), held packets lie beyond the number expected and no two share a number (`HoldSound`); so a release has no gap, and a flush, which orders what is held, leaves out the number expected and ends with one that is there. |
| `HandlerStartsOnceHolds`, `PlainAckMeansHandledHolds`, `ReflushArmedHolds` (ReliableDeliveryProofs) | Three invariants: a start implies an entry in the dedup; every plain ack in flight, remembered or taken belongs to a returned handler; a non-empty idle queue has its timer or a wanted flush. |
| `PendingIsHeldHolds`, `StoreMirrorsQueueHolds`, `FewMessagesFit` (ReliableDeliveryProofs) | Queue entries, the flush's entry, stored records and what a restore has read go back to one enqueuing each (`Claims`), and an entry is in the queue or in the flush's hands, never in both (`OnceQueued`); so a flush that removes an entry or its record touches no other. Both theorems suppose that the queue has not reached its limit (`Room`), since an overflow during a flush does break the properties (`remote-user.js:1569`). The second supposes that the peer has one session: records are kept by message, so the delivery to one session removes the record that another still needs. `FewMessagesFit` derives `Room` when there are no more deliveries than places. |
| `ServerConnectionsTyped`, `DownStaysDownHolds`, `KeptUpHolds` (ClientProofs) | One invariant: an attempt that shakes hands has its own socket (`Shaking`), a registered reconnect task has a timer that runs (`RetryOK`), and a lasting connection is open, or an attempt, a call or, while automatic reconnection is on, a timer is there for it (`Kept`). `RetryOK` is what makes it inductive: a step that finds a task registered schedules no other. A server in `down` is marked unless it is in `spared`, and a marked one is not connected, since a handshake that finds the mark ends there and a connect of the user takes the mark away. |
| `ServiceDiscoveryTyped`, `WaiterNotForgottenHolds` (ClientProofs) | A lookup that has not come to wait owes nothing to any session (`Early`), and what is owed to one that waits is owed by sessions that run the service (`Serving`). An announcement that a session is up wakes every waiting call, so a step that consumes one leaves nobody waiting. |
| `RtcTyped`, `ReachableHolds` (ClientProofs) | A connection that is not under the key any more is closed, or never got a remote description and is still new (`Abandoned`); an operation in the lock works on the connection under the key, or on one that was closed since, which its next await finds out (`AtWork`). A connection without a remote description does not connect (`Sane`), so only the one under the key can, whichever callback comes late. |
| `QuietMeansPairedHolds` (ClientProofs) | While nothing is lost and nothing breaks, each end makes one connection and keeps it (`OneEach`), since it connects once (`Once`) and an operation leaves its connection in the state in which the next finds it (`Phase`); and what is under way comes from the connection under the key (`Senders`). Four relations of the ends (`Mutual`) carry the pairing: who knows the other has an answer for it under way, which it waits for (`Answering`); an offer that waits is under way itself, unless the impolite end ignored it for its own (`Offering`); the impolite end stands by its offer until it is answered (`Firm`), so the polite one can take its own back; what an end knows is the connection of the other (`Known`). At rest nobody can wait, since both would have had to be ignored by the other. It supposes two users whose ids differ (`TwoUsers`), as the comment on `#isPolite` does (`rtc.js:233`). |
| `RoutingTyped`, `VerdictSoundHolds` (ClientProofs) | Of a job that nothing blurred, the commands that carry a verdict are on the wire exactly while it waits for them (`Owned`), and none of their kind is ahead (`FirstOfKind`); so an answer that it takes is to its own command. A list of candidates names no server twice (`Distinct`), so a job that goes on to the next one no longer waits on the last. While every server has the session and refuses nothing, every answer says so (`Present`), hence no search comes back empty; so a job called offline is in `away` or in `refused`. |
| `TrafficLogTyped`, `AggregatesAgreeHolds` (LocalProofs) | Queue, batch and entries are disjoint (`Apart`), so a batch that is merged adds as many to a count as to its entries; a deletion removes whole minutes, and those it removes in part are in `cut`. Lemmas on counting (disjoint union, removal) and on minutes (order of times, last moment of a minute) carry it. |
| `ClearedStaysClearedHolds` (LocalProofs) | Once a `clearAll` has waited for the batch under way, what it is to clear is neither in the queue nor in a batch (`Left`); and only operations that have gone on have a transaction in line (`InOrder`). So its own transaction finds in the entries all that is left of it, and no later batch has any. The first of these fails if it does not wait. |
| `ScansAreComplete` (LocalProofs) | The invariant says that what was there all along and lies behind the cursor was returned once, and nothing beyond it was; an open cursor's `ahead` holds what is still to come. |
| `StorageIsAStore` (LocalProofs) | `StorageSpaces` implements `KeyValueStore`: a call, its transaction, its failure and the deletion map to a step each, all else to a stutter. No invariant is needed. |
| `DeletionIsUnhindered` (LocalProofs) | Four phases. A connection that was not opened again is that of a live instance; then one the deletion waits for; when nothing is awaited there is none; later ones queue behind the deletion. The second try of a call keeps this since the connection it replaces is closed (`OwnConnection`), and an opening queues once (`OnceQueued`). |
| `WaitingRequestsSettle`, `RecordsNeverOlder` (LocalProofs) | While no request was crossed, all timers and sends belong to the request in the map, which is the only one that waits; and the transaction that writes compares once more. |
| `UserDatabaseTyped`, `OneIdentityHolds` (UserProofs) | An instance that gets ready has no keys yet, a cached one has keys only while some are stored, and an import that saves found none; an import and a `ready` that overlap set `mixed`, so otherwise neither can save after the other has looked (`Identity`). |
| `DeletedOnceHolds` (UserProofs) | An attempt comes into being only when all before it were given up (`EachInTurn`), one that is due is new (`DueAreNew`), one with a watchdog has not been given up (`WatchedGoOn`), and those in IndexedDB's queue are in order (`LineInOrder`). So an attempt that succeeds without having been given up is the last, and once it has succeeded none is due, watched or queued (`NoneLeft`). |
| `ContentPublishingTyped`, `EveryWaitEndsHolds` (UserProofs) | A request has a timer that runs or has ended also while its session is looked up (`Timed`); the entry that new calls join was sent, or its timer has ended (`EntrySent`); and a call with a message under way has sent its request (`MailSent`), so that a failed send stops no timer of a request still to be sent. A call that joined a request which could not be sent (`unsent`) is excepted: it does wait for ever. |
| `LoneFetchSucceedsHolds` (UserProofs) | Two invariants. `Supplied`: a fetch that has not begun left nothing behind, the manifest is published last and is here before a chunk is asked for, so every request for a chunk is answered with it; a chunk that counts as done is stored, and the entry of a chunk belongs to a request that runs. `Lone`: a fetch that is under way and undisturbed is the only one, the manifest's entry is its own, and what it asked for is under way in messages that can be delivered; so no timer of its own, no failed send and no other call's failure can end it. What disturbs excuses every call under way (`LoneKept`, `DisturbedKeepsLone`). |
| `StorageTypedHolds`, `CredentialExchangeTyped` (LocalProofs) | Types are inductive, but for one fact: a live instance has a connection (`LiveConnected`), which `deleteStorage` relies on. A record is written only if it is later than the one stored, so the refused one never is. |
| `ClientTyped` (ClientProofs), `LocalTyped` (LocalProofs) | The specification of the parts together implies the specification of each (`PartsOfClient`, `PartsOfLocal`), since a step of one part leaves the variables of the others; so the theorems of the parts hold in the composition, and its type invariant follows from theirs. |

Only model-checked: liveness, which is out of the prover's reach (`EvictedTaskEnds`,
`RowsLeave`, `SendsSettle`, `HeldIsDispatched`, `QueuedSettles`). Every safety
invariant and every refinement of the runs is a theorem. The delivery properties above its queue limit
and for several sessions are neither proved nor true.

## 5. What could come next

- The server's interval counters with their three writers and the final flush.
- Two sessions of one user in `RtcNegotiation`: both are impolite
  (`rtc.js:237`), and crossing offers of theirs are both ignored.

## 6. Not modelled

Traffic statistics and the billing calendar of the server, startup and
shutdown; blocking sockets, memory limits and wall-clock accuracy; secrecy and
signature strength; parsing and routing of HTTP; change events between tabs;
the file system, hybrid data and the service worker, whose state is the
browser's; the user interface, installer and build scripts; pure text and
archive helpers. `PROJECT.json` gives the reason per component, and lists the
hazards of each part with the properties that cover them or the reason why none does.

## Running

    tlc -workers 2 -config MCWire.cfg MCWire
    tlapm WireOrderProofs.tla
