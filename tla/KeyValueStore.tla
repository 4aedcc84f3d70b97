---------------------------- MODULE KeyValueStore ----------------------------
(***************************************************************************)
(* What a storage promises its callers: one value per storage at a time,   *)
(* and calls that take effect once, at one moment between the call and its *)
(* end, or fail without a trace.  Deleting the storage forgets the value.  *)
(* One key stands for all: no call relates two keys.                       *)
(***************************************************************************)
CONSTANTS Calls, Values, Null

VARIABLES value,  \* what the storage holds, or Null
          want,   \* of a call: the value to store, or "read"
          status, \* of a call: "none", "called", "applied" or "failed"
          result  \* what a read returned

kvVars == <<value, want, status, result>>

Init ==
  /\ value = Null
  /\ want = [o \in Calls |-> "read"] /\ status = [o \in Calls |-> "none"] /\ result = [o \in Calls |-> Null]

Call(o, w) ==
  /\ status[o] = "none"
  /\ status' = [status EXCEPT ![o] = "called"] /\ want' = [want EXCEPT ![o] = w]
  /\ UNCHANGED <<value, result>>
Apply(o) ==
  /\ status[o] = "called"
  /\ status' = [status EXCEPT ![o] = "applied"]
  /\ IF want[o] = "read" THEN result' = [result EXCEPT ![o] = value] /\ UNCHANGED value
     ELSE value' = want[o] /\ UNCHANGED result
  /\ UNCHANGED want
Fail(o) ==
  /\ status[o] = "called"
  /\ status' = [status EXCEPT ![o] = "failed"]
  /\ UNCHANGED <<value, want, result>>
Forget == value' = Null /\ UNCHANGED <<want, status, result>>

Next == Forget \/ \E o \in Calls : Apply(o) \/ Fail(o) \/ \E w \in Values \cup {Null, "read"} : Call(o, w)

Spec == Init /\ [][Next]_kvVars
=============================================================================
