----------------------------- MODULE MCRegistry -----------------------------
(* The instance of SessionRegistry for TLC, with a history variable that      *)
(* remembers whether two operations on one user have ever been under way      *)
(* together: some promises of the registry last only until then.              *)
EXTENDS SessionRegistry, TLC

VARIABLE overlapped

MCInit == Init /\ overlapped = FALSE
MCNext == Next /\ overlapped' = (overlapped \/ ~OneAtATime')
MCSpec == MCInit /\ [][MCNext]_<<vars, overlapped>> /\ Fairness

\* Until operations on one user overlap, the tables of the registry agree: the
\* count is that of the registered sessions, max_sessions_per_user bounds them
\* (the check and the insert are two calls), and TrafficStats has an entry for
\* each of them and none for a dead session.
ExactUntilOverlap == ~overlapped => CountsExact /\ SessionLimit /\ StatsFollowSessions
=============================================================================
