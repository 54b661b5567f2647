---------------------------- MODULE RelayAnswer ----------------------------
(***************************************************************************)
(* What the relay promises each client, whatever happens upstream: one     *)
(* answer.  Its bytes come from a single source, an attempt or the relay   *)
(* itself; None stands for a client that left before it got a byte, or for *)
(* an answer with no body.  ProviderRelay implements this.                 *)
(***************************************************************************)
CONSTANTS Requests, Source, None

VARIABLES phase, from

vars == <<phase, from>>

Init ==
  /\ phase = [r \in Requests |-> "waiting"]
  /\ from = [r \in Requests |-> None]

\* The answer starts, and may be complete at once.
Answer(r) ==
  /\ phase[r] = "waiting"
  /\ \E ph \in {"answering", "answered"} : phase' = [phase EXCEPT ![r] = ph]
  /\ from'[r] \in Source \cup {None}
  /\ from' = [from EXCEPT ![r] = from'[r]]

Complete(r) ==
  /\ phase[r] = "answering"
  /\ phase' = [phase EXCEPT ![r] = "answered"]
  /\ UNCHANGED from

Next == \E r \in Requests : Answer(r) \/ Complete(r)

Spec == Init /\ [][Next]_vars
============================================================================
