------------------------------ MODULE TrafficLog ------------------------------
(***************************************************************************)
(* TrafficLogger (user/traffic.js): a record of every message is queued,   *)
(* written in batches to the entries and to counts per minute, and read or *)
(* deleted there.  Every operation first flushes the queue, except         *)
(* clearAll, which drops it.                                               *)
(*                                                                         *)
(* Records that are not wanted (setEnabled, configure) are not recorded    *)
(* and not seen here.  A kind stands for the peer, the way, the server and *)
(* the category, which the counts are kept apart by.  All transactions     *)
(* touch both stores, or only read: IndexedDB runs them in the order in    *)
(* which they were created, one step each.  A transaction is created some  *)
(* time after it is wanted, once getSharedDb has a connection, and those   *)
(* who wait for a connection get it in any order.  What runs as promise    *)
(* callbacks of a batch that ends is part of that end.                     *)
(***************************************************************************)
EXTENDS Integers, Sequences, FiniteSets

CONSTANTS Recs, Kinds, Ops,
          Write,      \* the transaction of #writeBatch
          PerMinute,  \* instants of a minute
          Times,      \* bound: when messages are sent
          Limits      \* bound: the times deletions are asked for

ASSUME TrafficAssumption ==
  /\ PerMinute \in Nat \ {0} /\ Times \subseteq Nat /\ Limits \subseteq Nat
  /\ Times # {} /\ Kinds # {} /\ IsFiniteSet(Recs) /\ Write \notin Ops

MinuteOf(t) == t \div PerMinute
Minutes == {MinuteOf(t) : t \in Times \cup Limits}
Buckets == Minutes \X Kinds
Flush == <<"flush">>
Query == <<"query">>
Clear == <<"clear">>
Arguments == {Flush, Query, Clear} \cup ({"before"} \X Limits) \cup ({"up to"} \X Limits \X Kinds)

VARIABLES
  ts, msgKind, \* of a record, once recorded
  recorded,   \* the records so far
  queue,      \* #queue
  flushTimer, \* #flushTimer runs
  batch,      \* what #flushingPromise is to write, or {}
  txs,        \* transactions, in order: Write, or the call that made it
  entries, aggMinute, \* the two stores
  call, progress, \* of an operation: its arguments, and how far it is
  earlier,    \* history: what was recorded before a flush or a clearAll was called
  cut         \* history: minutes of which a deletion took a part of the entries

trafficVars == <<ts, msgKind, recorded, queue, flushTimer, batch, txs, entries, aggMinute, call,
                 progress, earlier, cut>>
made == <<ts, msgKind, recorded>>
stores == <<entries, aggMinute, cut>>
operations == <<call, progress, earlier>>

TrafficTypeOK ==
  /\ ts \in [Recs -> Times] /\ msgKind \in [Recs -> Kinds]
  /\ recorded \subseteq Recs /\ queue \subseteq recorded /\ batch \subseteq recorded
  /\ entries \subseteq recorded
  /\ aggMinute \in [Buckets -> 0..Cardinality(Recs)]
  /\ flushTimer \in BOOLEAN /\ txs \in Seq(Ops \cup {Write}) /\ cut \subseteq Minutes
  /\ call \in [Ops -> Arguments \cup {<<>>}] /\ earlier \in [Ops -> SUBSET recorded]
  /\ progress \in [Ops -> {"none", "flushing", "flushed", "transaction", "done", "failed"}]

(* record: a timer runs until the next flush.                              *)
Record(r, t, k) ==
  /\ r \notin recorded /\ r = CHOOSE q \in Recs : q \notin recorded
  /\ recorded' = recorded \cup {r}
  /\ ts' = [ts EXCEPT ![r] = t] /\ msgKind' = [msgKind EXCEPT ![r] = k]
  /\ queue' = queue \cup {r} /\ flushTimer' = TRUE
  /\ UNCHANGED <<batch, txs, stores, operations>>

(* #doFlush: one batch at a time; what was queued meanwhile is not taken.  *)
DoFlush ==
  IF batch # {} \/ queue = {} THEN UNCHANGED <<queue, batch>>
  ELSE batch' = queue /\ queue' = {}
TimerFires ==
  /\ flushTimer /\ flushTimer' = FALSE /\ DoFlush
  /\ UNCHANGED <<made, txs, stores, operations>>

(* How far an operation is when the flush is over.                         *)
AfterFlush(what) == IF what = Flush THEN "done" ELSE "flushed"
Called(o, what) ==
  /\ progress[o] = "none" /\ o = CHOOSE p \in Ops : progress[p] = "none"
  /\ call' = [call EXCEPT ![o] = what]
  /\ earlier' = [earlier EXCEPT ![o] = IF what \in {Flush, Clear} THEN recorded ELSE {}]
  /\ UNCHANGED <<made, txs, stores>>

(* flush, and the operations that begin with it.                           *)
Begin(o, what) ==
  /\ what # Clear /\ Called(o, what)
  /\ flushTimer' = FALSE /\ DoFlush
  /\ progress' = [progress EXCEPT ![o] = IF batch' # {} THEN "flushing" ELSE AfterFlush(what)]

(* clearAll waits for the batch under way and then drops the queue.        *)
(* Mutant: it does not wait.                                               *)
AtOnce == TRUE
NothingUnderWay == batch = {}
DropQueue == queue' = {} /\ flushTimer' = FALSE
BeginClear(o) ==
  /\ Called(o, Clear) /\ UNCHANGED batch
  /\ IF NothingUnderWay
       THEN DropQueue /\ progress' = [progress EXCEPT ![o] = "flushed"]
       ELSE progress' = [progress EXCEPT ![o] = "flushing"] /\ UNCHANGED <<queue, flushTimer>>

(* #flushingPromise settles: what waits for it goes on.                    *)
BatchEnds ==
  /\ batch' = {}
  /\ progress' = [o \in Ops |-> IF progress[o] = "flushing" THEN AfterFlush(call[o]) ELSE progress[o]]
  /\ IF \E o \in Ops : progress[o] = "flushing" /\ call[o] = Clear
       THEN DropQueue ELSE UNCHANGED <<queue, flushTimer>>
  /\ UNCHANGED <<made, call, earlier>>

(* #writeBatch has its connection, or gets none and the batch is dropped.  *)
HasTransaction(x) == \E i \in DOMAIN txs : txs[i] = x
WriteBegins ==
  /\ batch # {} /\ ~HasTransaction(Write) /\ txs' = Append(txs, Write)
  /\ UNCHANGED <<made, queue, flushTimer, batch, stores, operations>>
NoConnection == batch # {} /\ ~HasTransaction(Write) /\ BatchEnds /\ UNCHANGED <<txs, stores>>

(* The entries are added and their counts merged into those stored, all or *)
(* nothing.  A batch that fails is dropped.                                *)
(* Mutant: the counts of the batch replace the stored ones.                *)
CountOf(recs, b) == Cardinality({r \in recs : MinuteOf(ts[r]) = b[1] /\ msgKind[r] = b[2]})
Replaced(b) == IF CountOf(batch, b) > 0 THEN CountOf(batch, b) ELSE aggMinute[b]
Merged(b) == aggMinute[b] + CountOf(batch, b)
WriteEnds(ok) ==
  /\ txs # <<>> /\ Head(txs) = Write /\ txs' = Tail(txs) /\ BatchEnds
  /\ IF ok THEN /\ entries' = entries \cup batch
                /\ aggMinute' = [b \in Buckets |-> Merged(b)]
     ELSE UNCHANGED <<entries, aggMinute>>
  /\ UNCHANGED cut

(* The operation has its connection and makes its transaction, or fails.   *)
Continue(o) ==
  /\ progress[o] = "flushed"
  /\ \/ txs' = Append(txs, o) /\ progress' = [progress EXCEPT ![o] = "transaction"]
     \/ progress' = [progress EXCEPT ![o] = "failed"] /\ UNCHANGED txs
  /\ UNCHANGED <<made, queue, flushTimer, batch, stores, call, earlier>>

(* query, summary, count, getStorageInfo; clearAll; deleteBefore, which    *)
(* leaves the counts of the minute it ends in; delete, which takes them.   *)
Ends(o, how) ==
  /\ txs # <<>> /\ Head(txs) = o /\ txs' = Tail(txs) /\ progress' = [progress EXCEPT ![o] = how]
  /\ UNCHANGED <<made, queue, flushTimer, batch, call, earlier>>
Without(recs, buckets, parts) ==
  /\ entries' = entries \ recs
  /\ aggMinute' = [b \in Buckets |-> IF b \in buckets THEN 0 ELSE aggMinute[b]]
  /\ cut' = parts
Aborts(o) == Ends(o, "failed") /\ UNCHANGED stores
Read(o) == call[o] = Query /\ Ends(o, "done") /\ UNCHANGED stores
ClearAll(o) ==
  /\ call[o] = Clear /\ Ends(o, "done")
  /\ entries' = {} /\ aggMinute' = [b \in Buckets |-> 0] /\ cut' = {}
DeleteBefore(o) ==
  \E t \in Limits :
    /\ call[o] = <<"before", t>> /\ Ends(o, "done")
    /\ Without({r \in entries : ts[r] < t}, {b \in Buckets : b[1] < MinuteOf(t)},
               IF t % PerMinute = 0 THEN cut ELSE cut \cup {MinuteOf(t)})
DeleteWhere(o) ==
  \E t \in Limits, k \in Kinds :
    /\ call[o] = <<"up to", t, k>> /\ Ends(o, "done")
    /\ Without({r \in entries : ts[r] <= t /\ msgKind[r] = k},
               {b \in Buckets : b[1] <= MinuteOf(t) /\ b[2] = k},
               IF (t + 1) % PerMinute = 0 THEN cut ELSE cut \cup {MinuteOf(t)})

TrafficInit ==
  /\ ts = [r \in Recs |-> CHOOSE t \in Times : TRUE]
  /\ msgKind = [r \in Recs |-> CHOOSE k \in Kinds : TRUE]
  /\ recorded = {} /\ queue = {} /\ flushTimer = FALSE /\ batch = {} /\ txs = <<>>
  /\ entries = {} /\ aggMinute = [b \in Buckets |-> 0] /\ cut = {}
  /\ call = [o \in Ops |-> <<>>] /\ progress = [o \in Ops |-> "none"] /\ earlier = [o \in Ops |-> {}]

TrafficNext ==
  \/ \E r \in Recs, t \in Times, k \in Kinds : Record(r, t, k)
  \/ TimerFires \/ WriteBegins \/ NoConnection
  \/ \E o \in Ops : BeginClear(o) \/ Continue(o) \/ Aborts(o) \/ Read(o) \/ ClearAll(o) \/ DeleteBefore(o) \/ DeleteWhere(o)
                    \/ \E what \in Arguments : Begin(o, what)
  \/ \E ok \in BOOLEAN : WriteEnds(ok)

TrafficSpec == TrafficInit /\ [][TrafficNext]_trafficVars

(* The counts of a minute are those of its entries, unless a deletion took *)
(* the entries of a part of it: the two stores are written in one          *)
(* transaction and merged, however batches and deletions interleave        *)
(* (traffic.js:303).                                                       *)
AggregatesAgree ==
  \A b \in Buckets : b[1] \notin cut => aggMinute[b] = CountOf(entries, b)

(* What was recorded before a clearAll is gone when it is done, and cannot *)
(* come back from the queue or from a batch under way: between the queue   *)
(* and its transaction a batch waits for a connection, so a clearAll that  *)
(* did not wait for it could be overtaken (traffic.js:869).                *)
ClearedStaysCleared ==
  \A o \in Ops : call[o] = Clear /\ progress[o] = "done" =>
    earlier[o] \cap (entries \cup queue \cup batch) = {}

(* "Wait for the queue to be written" (traffic.js:214): what was recorded  *)
(* before a flush has left the queue when it is done.                      *)
FlushDrains ==
  \A o \in Ops : call[o] = Flush /\ progress[o] = "done" => earlier[o] \cap (queue \cup batch) = {}
=============================================================================
