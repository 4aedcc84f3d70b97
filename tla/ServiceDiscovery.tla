-------------------------- MODULE ServiceDiscovery --------------------------
(***************************************************************************)
(* How a user finds the sessions of another user that run a service        *)
(* (remote-user.js, service-registry.js): the peer's sessions register and *)
(* announce one appId, the server lists sessions and the services they     *)
(* expose, and sendToService resolves its targets from a cache, from the   *)
(* server's list or by asking every session, or waits for one.             *)
(*                                                                         *)
(* A query and its answer are one action; what is lost shows as a time-out.*)
(***************************************************************************)
EXTENDS Integers, Sequences, FiniteSets

CONSTANTS Sids,       \* sessions of the peer
          Exposed,    \* those that register with exposeToServer
          Lookups,    \* calls of sendToService
          MaxChanges, \* bound: registrations, pages closed
          MaxMisses   \* bound: failed or unanswered messages

ASSUME DiscoveryAssumption == MaxChanges \in Nat /\ MaxMisses \in Nat

VARIABLES
  running,   \* sessions whose page is open
  services,  \* #services: running sessions that registered the appId
  listed,    \* sessions the server lists
  onServer,  \* of those, the ones listed with the service
  unsynced,  \* an update_services message is on its way
  notices,   \* _notifyServiceChange: waiting for getSessionIds
  announced, \* __service_available / __service_unavailable on their way
  serviceSessionCache, serviceWaiters,
  lookup,    \* a call of sendToService up to its targets
  liveness,  \* #lastLiveness
  since,     \* history: sessions that registered while a lookup waited
  missed,    \* history: sessions of which an announcement was lost
  changes, misses \* bounds

peer  == <<running, services, listed, onServer, unsynced>>
found == <<serviceSessionCache, serviceWaiters>>
discoveryVars == <<peer, notices, announced, found, lookup, liveness, since, missed, changes, misses>>

NoEntry == [known |-> FALSE, sessions |-> {}, fresh |-> FALSE]
Entry(S) == [known |-> TRUE, sessions |-> S, fresh |-> TRUE]
NewLookup == [pc |-> "idle", ids |-> {}, left |-> {}, matched |-> {}, responded |-> {}]
Results == {"deliver", "no_receiver", "offline"}

DiscoveryTypeOK ==
  /\ services \subseteq running /\ running \subseteq listed /\ listed \subseteq Sids
  /\ onServer \subseteq listed /\ unsynced \subseteq Sids
  /\ notices \subseteq [from : Sids, up : BOOLEAN, n : 1..MaxChanges]
  /\ announced \in [Sids -> Seq(BOOLEAN)]
  /\ serviceSessionCache \in [known : BOOLEAN, sessions : SUBSET Sids, fresh : BOOLEAN]
  /\ serviceWaiters = {c \in Lookups : lookup[c].pc = "waiting"}
  /\ lookup \in [Lookups -> [pc : {"idle", "asking", "listing", "querying", "waiting"} \cup Results,
       ids : SUBSET Sids, left : SUBSET Sids, matched : SUBSET Sids, responded : SUBSET Sids]]
  /\ liveness \in [Sids -> {"unknown", "alive", "dead"}]
  /\ since \in [Lookups -> SUBSET Sids] /\ missed \subseteq Sids
  /\ changes \in 0..MaxChanges /\ misses \in 0..MaxMisses

Change == changes < MaxChanges /\ changes' = changes + 1
Miss == misses < MaxMisses /\ misses' = misses + 1

(* register and unregister at the peer: the list for the server, then a    *)
(* notice to this user, who counts as one the peer has talked to.          *)
Announce(s, up) ==
  /\ unsynced' = IF s \in Exposed THEN unsynced \cup {s} ELSE unsynced
  /\ notices' = notices \cup {[from |-> s, up |-> up, n |-> changes']}
  /\ UNCHANGED <<running, listed, onServer, announced, found, lookup, liveness, missed, misses>>
Register(s) ==
  /\ s \in running \ services /\ Change
  /\ services' = services \cup {s}
  /\ since' = [c \in Lookups |-> IF c \in serviceWaiters THEN since[c] \cup {s} ELSE since[c]]
  /\ Announce(s, TRUE)
Unregister(s) ==
  /\ s \in services /\ Change
  /\ services' = services \ {s}
  /\ since' = [c \in Lookups |-> since[c] \ {s}]
  /\ Announce(s, FALSE)

ServerLearns(s) ==
  /\ s \in unsynced
  /\ unsynced' = unsynced \ {s}
  /\ onServer' = IF s \in services THEN onServer \cup {s} ELSE onServer \ {s}
  /\ UNCHANGED <<running, services, listed, notices, announced, found, lookup, liveness, since,
                 missed, changes, misses>>

(* _notifyServiceChange knows this user's sessions and sends.              *)
NotifyServiceChange(x) ==
  /\ x \in notices
  /\ notices' = notices \ {x}
  /\ IF x.from \in running
       THEN announced' = [announced EXCEPT ![x.from] = Append(@, x.up)]
       ELSE UNCHANGED announced
  /\ UNCHANGED <<peer, found, lookup, liveness, since, missed, changes, misses>>
NotifyFails(x) ==
  /\ x \in notices /\ Miss
  /\ notices' = notices \ {x} /\ missed' = missed \cup {x.from}
  /\ UNCHANGED <<peer, announced, found, lookup, liveness, since, changes>>

(* A page of the peer is closed; the server notices later.                 *)
CloseSession(s) ==
  /\ s \in running /\ Change
  /\ running' = running \ {s} /\ services' = services \ {s}
  /\ since' = [c \in Lookups |-> since[c] \ {s}]
  /\ unsynced' = unsynced \ {s}
  /\ notices' = {x \in notices : x.from # s}
  /\ UNCHANGED <<listed, onServer, announced, found, lookup, liveness, missed, misses>>
ServerDrops(s) ==
  /\ s \in listed \ running
  /\ listed' = listed \ {s} /\ onServer' = onServer \ {s}
  /\ UNCHANGED <<running, services, unsynced, notices, announced, found, lookup, liveness, since,
                 missed, changes, misses>>

(* Mutant: only one of the waiters is woken.                               *)
FirstWoken == IF serviceWaiters = {} THEN {} ELSE {CHOOSE c \in serviceWaiters : TRUE}
Woken == serviceWaiters

(* _handleServiceAvailability: an entry past its TTL is extended too, and  *)
(* every waiter gets the sessions known now.                               *)
HandleServiceAvailability(s) ==
  /\ announced[s] # <<>>
  /\ announced' = [announced EXCEPT ![s] = Tail(@)]
  /\ LET up == Head(announced[s])
         S == IF up THEN serviceSessionCache.sessions \cup {s}
              ELSE serviceSessionCache.sessions \ {s}
     IN /\ serviceSessionCache' = Entry(S)
        /\ IF up
             THEN /\ lookup' = [c \in Lookups |->
                       IF c \in Woken
                       THEN [lookup[c] EXCEPT !.pc = "deliver", !.matched = S] ELSE lookup[c]]
                  /\ serviceWaiters' = serviceWaiters \ Woken
             ELSE UNCHANGED <<lookup, serviceWaiters>>
  /\ UNCHANGED <<peer, notices, liveness, since, missed, changes, misses>>

(* sendToService has its targets, or waits when waitForService is set.     *)
Targets(c, S, offline) ==
  \/ /\ offline \/ S # {}
     /\ lookup' = [lookup EXCEPT ![c] = [NewLookup EXCEPT !.matched = S,
                                           !.pc = IF offline THEN "offline" ELSE "deliver"]]
     /\ UNCHANGED serviceWaiters
  \/ /\ ~offline /\ S = {}
     /\ lookup' = [lookup EXCEPT ![c] = [NewLookup EXCEPT !.pc = "no_receiver"]]
     /\ UNCHANGED serviceWaiters
  \/ /\ ~offline /\ S = {}
     /\ lookup' = [lookup EXCEPT ![c] = [NewLookup EXCEPT !.pc = "waiting"]]
     /\ serviceWaiters' = serviceWaiters \cup {c}

Step(c, r) == lookup' = [lookup EXCEPT ![c] = r] /\ UNCHANGED found
Keep == UNCHANGED <<peer, notices, announced, liveness, since, missed, changes>>

ResolveServiceTargets(c) ==
  /\ lookup[c].pc = "idle" /\ c = CHOOSE d \in Lookups : lookup[d].pc = "idle"
  /\ IF serviceSessionCache.known /\ serviceSessionCache.fresh
       THEN /\ Targets(c, serviceSessionCache.sessions, FALSE)
            /\ UNCHANGED serviceSessionCache
       ELSE Step(c, [NewLookup EXCEPT !.pc = "asking"])
  /\ Keep /\ UNCHANGED misses

(* The servers list the sessions ids, those in exposed with the service.   *)
ServerListed(c, ids, exposed) ==
  /\ lookup[c].pc = "asking"
  /\ IF ids = {}
       THEN /\ serviceSessionCache' = NoEntry
            /\ Targets(c, {}, TRUE)
       ELSE IF exposed # {}
       THEN /\ serviceSessionCache' = Entry(exposed)
            /\ Targets(c, exposed, FALSE)
       ELSE Step(c, [lookup[c] EXCEPT !.pc = "listing", !.ids = ids])
  /\ Keep
QueryUserOnline(c) == ServerListed(c, listed, onServer) /\ UNCHANGED misses
QueryUserOnlineFails(c) == Miss /\ ServerListed(c, {}, {})

(* #queryServiceSessions ends; its result replaces the cached one.         *)
QueryEnds(c, r) ==
  /\ serviceSessionCache' = Entry(r.matched)
  /\ IF r.matched = {} /\ r.responded = {}
       THEN Targets(c, r.ids, FALSE)
       ELSE Targets(c, r.matched, FALSE)
(* getSessionIds skips a server whose query fails (remote-user.js:168) and *)
(* never rejects: a list that fails is an empty one.                       *)
GetSessionIds(c, ids) ==
  /\ lookup[c].pc = "listing"
  /\ LET r == [lookup[c] EXCEPT !.pc = "querying", !.left = ids] IN
       IF ids = {} THEN QueryEnds(c, r) ELSE Step(c, r)
  /\ Keep
ListSessions(c) == GetSessionIds(c, listed) /\ UNCHANGED misses
ListSessionsFails(c) == Miss /\ GetSessionIds(c, {})
(* #handleServiceQuery at the peer lists the services of the session.      *)
RunsService(s) == s \in services
ServiceResponse(c, s) ==
  /\ lookup[c].pc = "querying" /\ s \in lookup[c].left \cap running
  /\ LET r == [lookup[c] EXCEPT !.left = @ \ {s}, !.responded = @ \cup {s},
                 !.matched = IF RunsService(s) THEN @ \cup {s} ELSE @]
     IN IF r.left = {} THEN QueryEnds(c, r) ELSE Step(c, r)
  /\ Keep /\ UNCHANGED misses
(* A query that cannot be sent is struck off, but ends nothing.            *)
QueryNotSent(c, s) ==
  /\ lookup[c].pc = "querying" /\ s \in lookup[c].left /\ Miss
  /\ Step(c, [lookup[c] EXCEPT !.left = @ \ {s}])
  /\ Keep
QueryTimesOut(c) ==
  /\ lookup[c].pc = "querying"
  /\ \/ lookup[c].left \subseteq Sids \ running /\ UNCHANGED misses
     \/ ~(lookup[c].left \subseteq Sids \ running) /\ Miss
  /\ QueryEnds(c, lookup[c])
  /\ Keep
WaitTimesOut(c) ==
  /\ lookup[c].pc = "waiting"
  /\ lookup' = [lookup EXCEPT ![c].pc = "no_receiver"]
  /\ serviceWaiters' = serviceWaiters \ {c}
  /\ UNCHANGED serviceSessionCache /\ Keep /\ UNCHANGED misses

Expire ==
  /\ serviceSessionCache.fresh
  /\ serviceSessionCache' = [serviceSessionCache EXCEPT !.fresh = FALSE]
  /\ UNCHANGED <<lookup, serviceWaiters>> /\ Keep /\ UNCHANGED misses

(* _checkLiveness of one session that was sent to: a change to dead takes  *)
(* it out of the cache, and the entry with its last session.               *)
CheckLiveness(s) ==
  LET left == serviceSessionCache.sessions \ {s} IN
  /\ \E c \in Lookups : lookup[c].pc = "deliver" /\ s \in lookup[c].matched
  /\ \/ s \in running /\ liveness' = [liveness EXCEPT ![s] = "alive"] /\ UNCHANGED misses
     \/ s \in running /\ liveness' = [liveness EXCEPT ![s] = "dead"] /\ Miss
     \/ s \notin running /\ liveness' = [liveness EXCEPT ![s] = "dead"] /\ UNCHANGED misses
  /\ liveness' # liveness
  /\ serviceSessionCache' =
       IF liveness'[s] # "dead" \/ s \notin serviceSessionCache.sessions THEN serviceSessionCache
       ELSE IF left = {} THEN NoEntry ELSE [serviceSessionCache EXCEPT !.sessions = left]
  /\ UNCHANGED <<peer, notices, announced, serviceWaiters, lookup, since, missed, changes>>

DiscoveryInit ==
  /\ running = Sids /\ listed = Sids /\ services = {} /\ onServer = {} /\ unsynced = {}
  /\ notices = {} /\ announced = [s \in Sids |-> <<>>]
  /\ serviceSessionCache = NoEntry /\ serviceWaiters = {}
  /\ lookup = [c \in Lookups |-> NewLookup]
  /\ liveness = [s \in Sids |-> "unknown"]
  /\ since = [c \in Lookups |-> {}] /\ missed = {}
  /\ changes = 0 /\ misses = 0

DiscoveryNext ==
  \/ \E s \in Sids : Register(s) \/ Unregister(s) \/ ServerLearns(s) \/ CloseSession(s)
       \/ ServerDrops(s) \/ HandleServiceAvailability(s) \/ CheckLiveness(s)
  \/ \E x \in notices : NotifyServiceChange(x) \/ NotifyFails(x)
  \/ \E c \in Lookups : ResolveServiceTargets(c) \/ QueryUserOnline(c) \/ QueryUserOnlineFails(c)
       \/ ListSessions(c) \/ ListSessionsFails(c) \/ QueryTimesOut(c) \/ WaitTimesOut(c)
       \/ \E s \in Sids : ServiceResponse(c, s) \/ QueryNotSent(c, s)
  \/ Expire

DiscoverySpec == DiscoveryInit /\ [][DiscoveryNext]_discoveryVars

(* A call that waits for the service is not forgotten: a session that      *)
(* registered it since, and still runs it, has an announcement on the way  *)
(* or had one lost (remote-user.js:992, :1703).                            *)
WaiterNotForgotten ==
  \A c \in serviceWaiters, s \in Sids :
    s \in since[c] => \/ s \in missed
                      \/ \E x \in notices : x.from = s /\ x.up
                      \/ \E i \in 1..Len(announced[s]) : announced[s][i]
=============================================================================
