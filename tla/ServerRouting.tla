---------------------------- MODULE ServerRouting ----------------------------
(***************************************************************************)
(* How ServerManager (server.js) sends a message to a session of another   *)
(* user: commands and their answers on each server, the search for the     *)
(* servers the target is on, its cache, and the relay over the candidates  *)
(* from the nearest on.  Connecting itself is the module ServerConnections.*)
(*                                                                         *)
(* A server handles the commands of one connection in order; the model     *)
(* joins its answer and the arrival of the answer.  An answer goes to every*)
(* command of its kind that waits on that server: nothing else identifies  *)
(* it.  What runs as promise callbacks is part of the event that causes it.*)
(***************************************************************************)
EXTENDS Integers, SequencesExt

CONSTANTS Servers,  \* URLs of relay servers
          Jobs,     \* calls of sendToUser
          Target,   \* the user a job is for; all name one session of it
          Probe,    \* the latency monitor, as the owner of a command
          MaxUpsets \* bound: time-outs, closed connections, sessions that move

VARIABLES
  open,      \* #wsMap: servers whose connection is open
  where,     \* what a server knows of a user: offline, other sessions, the target session
  candidateCache,     \* #serverCandidateCache
  latency,   \* #latencyCache has the server
  job,       \* a call of sendToUser
  probe,     \* the periodic testLatency of a server
  wire,      \* commands a server has not answered yet
  delivered, \* history: jobs whose data a server passed on to the session
  away,      \* history: jobs during which a server did not have the session
  refused,   \* history: jobs whose data a server refused although it has the session
  blurred,   \* history: jobs disturbed by a time-out or by another's answer
  upset      \* bound

routeVars == <<open, where, candidateCache, latency, job, probe, wire, delivered, away, refused, blurred, upset>>

TargetUsers == {Target[j] : j \in Jobs}
Places  == {"offline", "elsewhere", "here"}
Part    == {"none", "query", "test", "report", "in", "out"}
Candidate == [url : Servers, here : BOOLEAN]
Commands == {"query", "test", "report", "relay"}
Requests == Commands \X (Jobs \cup {Probe})
Over == {"idle", "ok", "offline", "failed"}
NewJob == [pc |-> "idle", part |-> [u \in Servers |-> "none"], place |-> [u \in Servers |-> "offline"],
           cands |-> <<>>, sent |-> FALSE, last |-> "failed", tried |-> FALSE]
JobStates == [pc : Over \cup {"query", "relay"}, part : [Servers -> Part],
              place : [Servers -> Places], cands : Seq(Candidate), sent : BOOLEAN,
              last : {"offline", "failed"}, tried : BOOLEAN]

ASSUME RoutingAssumption ==
  /\ IsFiniteSet(Servers) /\ IsFiniteSet(Jobs) /\ Servers # {}
  /\ Probe \notin Jobs /\ MaxUpsets \in Nat

RoutingTypeOK ==
  /\ open \subseteq Servers /\ latency \subseteq Servers
  /\ where \in [TargetUsers -> [Servers -> Places]]
  /\ candidateCache \in [TargetUsers -> Seq(Candidate)]
  /\ job \in [Jobs -> JobStates]
  /\ probe \in [Servers -> {"idle", "test", "report"}]
  /\ wire \in [Servers -> Seq(Requests)]
  /\ delivered \subseteq Jobs /\ away \subseteq Jobs /\ refused \subseteq Jobs /\ blurred \subseteq Jobs
  /\ upset \in 0..MaxUpsets

Disturb == upset < MaxUpsets /\ upset' = upset + 1

(* The command of kind k that job r waits for on server u.                 *)
Awaits(r, u, k) ==
  IF k = "relay" THEN r.pc = "relay" /\ r.sent /\ r.cands[1].url = u
  ELSE r.pc = "query" /\ r.part[u] = k

(* What the jobs now wait for and did not before is sent.                  *)
Sent(jobs, u) == SetToSeq({c \in Commands \X Jobs :
                             Awaits(jobs[c[2]], u, c[1]) /\ ~Awaits(job[c[2]], u, c[1])})
(* Jobs with a command behind another one of its kind, whose answer comes  *)
(* first and may be taken for its own.                                     *)
Mixed(w) == {j \in Jobs : \E u \in Servers : \E n \in 1..Len(w[u]) : \E m \in 1..(n - 1) :
               w[u][n][2] = j /\ w[u][m][1] = w[u][n][1]}

(* The loop of sendToUser: on to the next candidate that has the session. *)
WithSession(cands) == {n \in DOMAIN cands : cands[n].here}
TryNext(r, cands) ==
  IF WithSession(cands) = {} THEN [r EXCEPT !.pc = r.last, !.cands = <<>>, !.tried = TRUE]
  ELSE LET n == Min(WithSession(cands)) IN
       [r EXCEPT !.pc = "relay", !.cands = SubSeq(cands, n, Len(cands)), !.sent = cands[n].url \in open]

(* #getSortedServerCandidates: once every query came back, the servers that*)
(* answered, in the order of their latencies.  These are not modelled: the *)
(* order is any.                                                           *)
Complete(r) == r.pc = "query" /\ \A u \in Servers : r.part[u] \in {"none", "in", "out"}
Found(r) == {[url |-> u, here |-> r.place[u] = "here"] : u \in {v \in Servers : r.part[v] = "in"}}
Sorted(r) == IF Complete(r) THEN SetToSeqs(Found(r)) ELSE {<<>>}
Collected(r, cands) == IF cands = <<>> THEN [r EXCEPT !.pc = "offline"] ELSE TryNext(r, cands)

(* The jobs take the values in jobs, and those whose queries are complete  *)
(* go on: what they found is cached, and forgotten when nobody took the    *)
(* data.  The commands they then wait for are sent.                        *)
Advance(jobs, base, C) ==
  \E cands \in [Jobs -> UNION {Sorted(jobs[j]) : j \in Jobs}] :
    LET next == [j \in Jobs |-> IF Complete(jobs[j]) THEN Collected(jobs[j], cands[j]) ELSE jobs[j]]
        collected(t) == {j \in Jobs : Target[j] = t /\ cands[j] # <<>>}
        vain(t) == {j \in Jobs : Target[j] = t /\ next[j].pc \in {"offline", "failed"} /\
                      job[j].pc \notin Over \ {"idle"} /\ next[j].tried}
    IN /\ \A j \in Jobs : cands[j] \in Sorted(jobs[j])
       /\ job' = next
       /\ wire' = [u \in Servers |-> base[u] \o Sent(next, u)]
       /\ candidateCache' = [t \in TargetUsers |-> IF vain(t) # {} THEN <<>>
                       ELSE IF collected(t) = {} THEN C[t] ELSE cands[CHOOSE j \in collected(t) : TRUE]]

SendToUser(j) ==
  LET t == Target[j] IN
  /\ job[j] = NewJob
  /\ Advance([job EXCEPT ![j] =
       IF candidateCache[t] # <<>> THEN TryNext(NewJob, candidateCache[t])
       ELSE IF open = {} THEN [NewJob EXCEPT !.pc = "offline"]
       ELSE [NewJob EXCEPT !.pc = "query",
               !.part = [u \in Servers |-> IF u \in open THEN "query" ELSE "none"]]], wire, candidateCache)
  /\ away' = IF \E u \in Servers : where[t][u] # "here" \/ u \notin open THEN away \cup {j} ELSE away
  /\ blurred' = blurred \cup Mixed(wire')
  /\ UNCHANGED <<open, where, latency, probe, delivered, refused, upset>>

(* The server's answer to a relay command: "ok" if the data went to the    *)
(* session.  Every other status is taken for the session's absence, also a *)
(* refusal for the sender's quota or the size of the data.                 *)
(* Mutant: any answer will do.                                             *)
AnyAnswer(val) == TRUE
Accepted(val) == val = "here"
Statuses(k, place) == IF k = "relay" /\ place = "here" THEN {"here", "refused"} ELSE {place}

(* The job's command on u gets an answer, or fails with an error.          *)
Resolved(r, u, k, val, lat) ==
  CASE k = "query"  -> [r EXCEPT !.place[u] = val,
                          !.part[u] = IF val = "offline" THEN "out"
                                      ELSE IF u \in lat THEN "in" ELSE "test"]
    [] k = "test"   -> [r EXCEPT !.part[u] = "report"]
    [] k = "report" -> [r EXCEPT !.part[u] = "in"]
    [] k = "relay"  -> IF Accepted(val) THEN [r EXCEPT !.pc = "ok", !.cands = <<>>]
                       ELSE TryNext([r EXCEPT !.last = "offline"], Tail(r.cands))
Rejected(r, u, k) ==
  CASE k = "query"             -> [r EXCEPT !.part[u] = "out"]
    [] k \in {"test", "report"} -> [r EXCEPT !.part[u] = "in"]
    [] k = "relay"             -> TryNext([r EXCEPT !.last = "failed"], Tail(r.cands))

NextProbe(u, k) ==
  IF probe[u] # k THEN probe[u] ELSE IF k = "test" THEN "report" ELSE "idle"

Answer(u) ==
  /\ wire[u] # <<>>
  /\ LET k == Head(wire[u])[1]
         j == Head(wire[u])[2]
     IN
     \E val \in Statuses(k, IF j = Probe THEN "offline" ELSE where[Target[j]][u]) :
     LET jobs == [i \in Jobs |-> IF Awaits(job[i], u, k)
                                 THEN Resolved(job[i], u, k, val, latency) ELSE job[i]]
         rest == [wire EXCEPT ![u] = Tail(@)]
     IN /\ probe' = [probe EXCEPT ![u] = NextProbe(u, k)]
        /\ Advance(jobs, IF probe'[u] = "report" /\ probe[u] = "test"
                         THEN [rest EXCEPT ![u] = Append(@, <<"report", Probe>>)] ELSE rest,
                   candidateCache)
        /\ latency' = IF k = "report" /\ (probe[u] = k \/ \E i \in Jobs : Awaits(job[i], u, k))
                      THEN latency \cup {u} ELSE latency
        /\ delivered' = IF k = "relay" /\ val = "here" THEN delivered \cup {j} ELSE delivered
        /\ refused' = IF val = "refused" THEN refused \cup {j} ELSE refused
        /\ blurred' = blurred \cup Mixed(wire')
  /\ UNCHANGED <<open, where, away, upset>>

(* The connection to u is lost: so are the commands under way on it.       *)
Lost(u, w) == [w EXCEPT ![u] = <<>>]
OnWire(u) == {j \in Jobs : \E n \in 1..Len(wire[u]) : wire[u][n][2] = j}
CloseServer(u) ==
  /\ u \in open /\ Disturb
  /\ open' = open \ {u} /\ wire' = Lost(u, wire)
  /\ candidateCache' = [t \in TargetUsers |-> <<>>]
  /\ away' = away \cup {j \in Jobs : job[j].pc \notin Over}
  /\ blurred' = blurred \cup OnWire(u)
  /\ UNCHANGED <<where, latency, job, probe, delivered, refused>>

(* No answer within the time; after a relay command the socket is closed.  *)
TimesOut(j, u, k) ==
  /\ Awaits(job[j], u, k) /\ Disturb
  /\ LET reset == k = "relay" /\ u \in open IN
       /\ open' = IF reset THEN open \ {u} ELSE open
       /\ Advance([job EXCEPT ![j] = Rejected(job[j], u, k)], IF reset THEN Lost(u, wire) ELSE wire,
                   IF reset THEN [t \in TargetUsers |-> <<>>] ELSE candidateCache)
       /\ blurred' = blurred \cup {j} \cup (IF reset THEN OnWire(u) ELSE {}) \cup Mixed(wire')
  /\ away' = away \cup {i \in Jobs : job[i].pc \notin Over}
  /\ UNCHANGED <<where, latency, probe, delivered, refused>>

ProbeTimesOut(u) ==
  /\ probe[u] # "idle" /\ Disturb
  /\ probe' = [probe EXCEPT ![u] = "idle"]
  /\ UNCHANGED <<open, where, candidateCache, latency, job, wire, delivered, refused, away, blurred>>

(* A candidate that is not connected is connected first, or that fails.    *)
Unsent(u) == {j \in Jobs : job[j].pc = "relay" /\ ~job[j].sent /\ job[j].cands[1].url = u}
Reconnect(u) ==
  /\ u \notin open
  /\ open' = open \cup {u}
  /\ Advance([j \in Jobs |-> IF j \in Unsent(u) THEN [job[j] EXCEPT !.sent = TRUE] ELSE job[j]], wire, candidateCache)
  /\ blurred' = blurred \cup Mixed(wire')
  /\ UNCHANGED <<where, latency, probe, delivered, refused, away, upset>>
ReconnectFails(u) ==
  /\ u \notin open /\ Unsent(u) # {}
  /\ Advance([j \in Jobs |-> IF j \in Unsent(u) THEN Rejected(job[j], u, "relay") ELSE job[j]], wire, candidateCache)
  /\ blurred' = blurred \cup Unsent(u)
  /\ UNCHANGED <<open, where, latency, probe, delivered, refused, away, upset>>

(* The periodic measurement of an open connection.                         *)
TestLatency(u) ==
  /\ u \in open /\ probe[u] = "idle" /\ u \notin latency
  /\ probe' = [probe EXCEPT ![u] = "test"]
  /\ wire' = [wire EXCEPT ![u] = Append(@, <<"test", Probe>>)]
  /\ UNCHANGED <<open, where, candidateCache, latency, job, delivered, refused, away, blurred, upset>>

(* The target session, or another one of its user, comes or goes.          *)
Move(t, u) ==
  /\ Disturb
  /\ \E p \in Places \ {where[t][u]} : where' = [where EXCEPT ![t][u] = p]
  /\ away' = away \cup {j \in Jobs : job[j].pc \notin Over}
  /\ UNCHANGED <<open, candidateCache, latency, job, probe, wire, delivered, refused, blurred>>

ExpireCandidates(t) ==
  /\ candidateCache[t] # <<>>
  /\ candidateCache' = [candidateCache EXCEPT ![t] = <<>>]
  /\ UNCHANGED <<open, where, latency, job, probe, wire, delivered, refused, away, blurred, upset>>

RoutingInit ==
  /\ open = Servers /\ latency = Servers \ {CHOOSE u \in Servers : TRUE}
  /\ where = [t \in TargetUsers |-> [u \in Servers |-> "here"]]
  /\ candidateCache = [t \in TargetUsers |-> <<>>]
  /\ job = [j \in Jobs |-> NewJob]
  /\ probe = [u \in Servers |-> "idle"] /\ wire = [u \in Servers |-> <<>>]
  /\ delivered = {} /\ away = {} /\ refused = {} /\ blurred = {} /\ upset = 0

RoutingNext ==
  \/ \E j \in Jobs : SendToUser(j)
  \/ \E j \in Jobs, u \in Servers, k \in Commands : TimesOut(j, u, k)
  \/ \E u \in Servers : Answer(u) \/ CloseServer(u) \/ ProbeTimesOut(u) \/ Reconnect(u)
                     \/ ReconnectFails(u) \/ TestLatency(u)
  \/ \E t \in TargetUsers : ExpireCandidates(t) \/ \E u \in Servers : Move(t, u)

RoutingSpec == RoutingInit /\ [][RoutingNext]_routeVars

(* A verdict of sendToUser is about the data it was called with: an answer *)
(* that only its own command could get is its own (server.js:563).  "ok"   *)
(* means that a server passed the data on; the code "offline" (:917) that  *)
(* at some moment of the call a server did not have the session, or        *)
(* refused the data, which the comment at :915 does not mention.  And data *)
(* that was passed on is never called lost.                                *)
VerdictSound ==
  \A j \in Jobs \ blurred :
    /\ job[j].pc = "ok" => j \in delivered
    /\ job[j].pc = "offline" => j \in away \cup refused
    /\ j \in delivered /\ job[j].pc \in Over => job[j].pc = "ok"

=============================================================================
