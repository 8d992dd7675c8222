------------------------------- MODULE KvSeam -------------------------------
(***************************************************************************)
(* What the `Kv` seam promises its callers (crates/rusty_esp_core/src/     *)
(* hal.rs, trait Kv): a map from keys to values.  One call is open at a    *)
(* time (`&mut self`).  A put or a remove takes effect at one instant      *)
(* between its call and its answer, and an answer of failure means that    *)
(* it took no effect.  A cut of power leaves the open call without an      *)
(* answer, its effect either whole or absent.                              *)
(***************************************************************************)
CONSTANTS
  Keys,     \* the keys callers use
  Values,   \* the values callers store
  None      \* what a get of an absent key answers

VARIABLES
  kv,       \* the map
  op,       \* the call that is open, or the last one answered
  result,   \* its answer, "busy" while it is open
  applied   \* whether the open call has taken effect

vars == <<kv, op, result, applied>>

Errors  == {"BufferTooSmall", "InvalidFormat", "Corrupt", "Flash"}

Calls ==
       [call : {"put"}, key : Keys, value : Values]
  \cup [call : {"remove"}, key : Keys]
  \cup [call : {"scrub"}]

\* the value a call leaves under its key
Outcome(c) == IF c.call = "put" THEN c.value ELSE None

Init ==
  /\ kv \in [Keys -> Values \cup {None}]
  /\ op = [call |-> "scrub"]
  /\ result = "Ok"
  /\ applied = FALSE

Call ==
  /\ result # "busy"
  /\ op' \in Calls
  /\ result' = "busy"
  /\ UNCHANGED <<kv, applied>>

Apply ==
  /\ result = "busy" /\ ~applied
  /\ op.call \in {"put", "remove"}
  /\ kv' = [kv EXCEPT ![op.key] = Outcome(op)]
  /\ applied' = TRUE
  /\ UNCHANGED <<op, result>>

Answer ==
  /\ result = "busy"
  /\ \/ result' = "Ok" /\ (applied \/ op.call = "scrub")
     \/ result' = "Absent" /\ op.call = "remove" /\ kv[op.key] = None /\ ~applied
     \/ result' \in Errors /\ ~applied
  /\ applied' = FALSE
  /\ UNCHANGED <<kv, op>>

Crash ==
  /\ result = "busy"
  /\ result' = "lost"
  /\ applied' = FALSE
  /\ UNCHANGED <<kv, op>>

Next == Call \/ Apply \/ Answer \/ Crash

Spec == Init /\ [][Next]_vars
=============================================================================
