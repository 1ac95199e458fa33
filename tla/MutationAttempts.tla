-------------------------- MODULE MutationAttempts --------------------------
(***************************************************************************)
(* The bounded de-duplication window of mutation attempts that every       *)
(* mutating entry point of the coordinator consults before it does any     *)
(* semantic work (AuthorityRegistry::observe_attempt).                     *)
(*                                                                         *)
(* A window is a sequence of [attempt, payload] records, oldest first.  A  *)
(* payload stands for the digest the caller's arguments hash to; equal     *)
(* payloads are equal digests.                                             *)
(***************************************************************************)
EXTENDS Naturals, Sequences

\* ReplayVerdict of an attempt that carries a payload.
Verdict(window, attempt, payload) ==
    IF \E i \in DOMAIN window : window[i].attempt = attempt
    THEN IF \E i \in DOMAIN window :
                /\ window[i].attempt = attempt
                /\ window[i].payload = payload
         THEN "ExactReplay"
         ELSE "Conflict"
    ELSE "Fresh"

\* The window after the observation: a fresh attempt is appended, and evicts
\* the oldest one when the window is full; a known attempt changes nothing.
Observe(window, attempt, payload, limit) ==
    IF Verdict(window, attempt, payload) = "Fresh"
    THEN Append(IF Len(window) >= limit THEN Tail(window) ELSE window,
                [attempt |-> attempt, payload |-> payload])
    ELSE window
=============================================================================
