------------------------------ MODULE AtomicCalls ------------------------------
(***************************************************************************)
(* What a method of the handle promises (src/network/rpc_macros.rs:20-24): *)
(* the call takes effect once, at one moment, and then returns; a call     *)
(* that fails for want of a network task has no effect and never will.     *)
(* Only a caller that does not wait for the end does not know.             *)
(***************************************************************************)
CONSTANT Call

VARIABLES
  calls,     \* Call -> "idle", "open", "answered", "failed" or "abandoned"
  applied    \* the calls that have taken effect

vars == <<calls, applied>>

Init == calls = [c \in Call |-> "idle"] /\ applied = {}

Becomes(c, from, to) == calls[c] \in from /\ calls' = [calls EXCEPT ![c] = to]

Start(c) == Becomes(c, {"idle"}, "open") /\ UNCHANGED applied

Apply(c) ==
  /\ calls[c] \in {"open", "abandoned"} /\ c \notin applied
  /\ applied' = applied \cup {c}
  /\ UNCHANGED calls

Answer(c) == c \in applied /\ Becomes(c, {"open"}, "answered") /\ UNCHANGED applied

Fail(c) == c \notin applied /\ Becomes(c, {"idle", "open"}, "failed") /\ UNCHANGED applied

Abandon(c) == Becomes(c, {"open"}, "abandoned") /\ UNCHANGED applied

Next == \E c \in Call : Start(c) \/ Apply(c) \/ Answer(c) \/ Fail(c) \/ Abandon(c)

Spec == Init /\ [][Next]_vars
===============================================================================
