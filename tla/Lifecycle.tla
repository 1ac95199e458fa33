------------------------------ MODULE Lifecycle ------------------------------
(***************************************************************************)
(* The constraint-set lifecycle table of lifecycle.cpp.                    *)
(***************************************************************************)

SetState == {"Declared", "Active", "Suspended", "RevalidationRequired",
             "Revoked", "Superseded", "Retired"}

LifecycleEvent == {"Activate", "Suspend", "Resume", "RequireRevalidation",
                   "Revalidated", "Revoke", "Supersede", "Retire", "Reinstate"}

\* The accepted (state, event, next state) triples of apply_lifecycle_event;
\* every other pair is rejected.
Transition ==
    {<<"Declared", "Activate", "Active">>,
     <<"Active", "Suspend", "Suspended">>,
     <<"Active", "RequireRevalidation", "RevalidationRequired">>,
     <<"Suspended", "Resume", "Active">>,
     <<"Suspended", "RequireRevalidation", "RevalidationRequired">>,
     <<"RevalidationRequired", "Revalidated", "Active">>,
     <<"RevalidationRequired", "Suspend", "Suspended">>,
     <<"Revoked", "Reinstate", "RevalidationRequired">>}
    \cup ({"Declared", "Active", "Suspended", "RevalidationRequired"}
             \X {"Revoke"} \X {"Revoked"})
    \cup ({"Declared", "Active", "Suspended", "RevalidationRequired", "Revoked"}
             \X {"Supersede"} \X {"Superseded"})
    \cup ((SetState \ {"Retired"}) \X {"Retire"} \X {"Retired"})

Accepted(state, event) ==
    \E t \in Transition : t[1] = state /\ t[2] = event

NextState(state, event) ==
    (CHOOSE t \in Transition : t[1] = state /\ t[2] = event)[3]
=============================================================================
