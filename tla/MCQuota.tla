------------------------------ MODULE MCQuota ------------------------------
(* The instance of QuotaLedger for TLC: connections are interchangeable.  A   *)
(* history variable remembers whether operations on the record have ever      *)
(* overlapped: the ledger is exact only until then.                           *)
EXTENDS QuotaLedger, TLC

VARIABLE overlapped

MCInit == Init /\ overlapped = FALSE
MCNext == Next /\ overlapped' = (overlapped \/ (Begins /\ ~Quiet))
MCSpec == MCInit /\ [][MCNext]_<<vars, overlapped>>

\* No kick, restart or used-up monthly quota yet, and no overlap.
Undisturbed ==
  /\ ~overlapped
  /\ spare.kicks = MaxKicks /\ spare.restarts = MaxRestarts
  /\ spare.periods = MaxPeriods

\* Handshakes, relays, cleanups and admin commands that do not overlap bill
\* every relayed byte once, across the copies in memory and on disk, and keep
\* the quota an administrator set in force.
ExactUndisturbed == Undisturbed => BilledExactly /\ GrantKept

Symmetry == Permutations(Conns)

=============================================================================
