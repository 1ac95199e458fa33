---------------------------- MODULE MCAuthority ----------------------------
(* Instances of Authority for TLC. *)
EXTENDS Authority, TLC

CONSTANTS p1, p2

\* p1 administers fencing, p2 publishes evaluations.
MCScope == {AdministerFencing, "PublishEvaluation"}
MCGrant == p1 :> {AdministerFencing} @@ p2 :> {"PublishEvaluation"}
MCPayload == {EmptyDigest, "other"}

=============================================================================
