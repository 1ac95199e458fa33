----------------------------- MODULE AtomicStore -----------------------------
(***************************************************************************)
(* What DurableStore promises the coordinator: the store is owned by one   *)
(* instance at a time, and a save replaces what the store holds in one     *)
(* step or not at all.  A save that was answered with success has been     *)
(* applied; where the platform writes through, it also survives a loss of  *)
(* power.  A store that is not usable is set aside, with its bytes kept.   *)
(***************************************************************************)
EXTENDS Naturals, Sequences

CONSTANTS
    Instance,   \* open or closed DurableStore objects
    Nobody,     \* the owner of a store that is free
    Version,    \* the states that are saved
    Garbage     \* the unreadable contents damage leaves

VARIABLES
    writeThrough,   \* does the platform write a replacement through?
    owner,          \* who may save
    dir,            \* what the store holds, and what was set aside
    durable,        \* the same after a loss of power
    call            \* what each instance is doing

vars == <<writeThrough, owner, dir, durable, call>>

Absent == [kind |-> "absent", version |-> 0]
Stored(n) == [kind |-> "state", version |-> n]
Junk(n) == [kind |-> "junk", version |-> n]

Closed == [phase |-> "closed", version |-> 0]
Ready == [phase |-> "open", version |-> 0]
Saving(n) == [phase |-> "saving", version |-> n]
Saved(n) == [phase |-> "saved", version |-> n]

Init ==
    /\ writeThrough \in BOOLEAN
    /\ owner = Nobody
    /\ dir = [main |-> Absent, aside |-> <<>>]
    /\ durable = dir
    /\ call = [i \in Instance |-> Closed]

Own(i) ==
    /\ owner = Nobody
    /\ owner' = i
    /\ call' = [call EXCEPT ![i] = Ready]
    /\ UNCHANGED <<writeThrough, dir, durable>>

\* The owner closes the store, gives up opening it, or dies; a save it had not
\* applied leaves no trace.
Release(i) ==
    /\ owner = i
    /\ owner' = Nobody
    /\ call' = [call EXCEPT ![i] = Closed]
    /\ UNCHANGED <<writeThrough, dir, durable>>

SetAside(i) ==
    /\ owner = i
    /\ call[i] = Ready
    /\ dir.main # Absent
    /\ dir' = [main |-> Absent, aside |-> Append(dir.aside, dir.main)]
    /\ UNCHANGED <<writeThrough, owner, durable, call>>

Begin(i, n) ==
    /\ owner = i
    /\ call[i] = Ready
    /\ call' = [call EXCEPT ![i] = Saving(n)]
    /\ UNCHANGED <<writeThrough, owner, dir, durable>>

Apply(i, n) ==
    /\ owner = i
    /\ call[i] = Saving(n)
    /\ dir' = [dir EXCEPT !.main = Stored(n)]
    /\ durable' = IF writeThrough THEN dir' ELSE durable
    /\ call' = [call EXCEPT ![i] = Saved(n)]
    /\ UNCHANGED <<writeThrough, owner>>

\* The answer of a save: success once it was applied, failure while it was not.
Answer(i) ==
    /\ owner = i
    /\ call[i].phase \in {"saving", "saved"}
    /\ call' = [call EXCEPT ![i] = Ready]
    /\ UNCHANGED <<writeThrough, owner, dir, durable>>

WriteBack ==
    /\ durable' = dir
    /\ UNCHANGED <<writeThrough, owner, dir, call>>

PowerLoss ==
    /\ dir' = durable
    /\ owner' = Nobody
    /\ call' = [i \in Instance |-> Closed]
    /\ UNCHANGED <<writeThrough, durable>>

Damage ==
    /\ owner = Nobody
    /\ \E n \in Garbage : dir' = [dir EXCEPT !.main = Junk(n)]
    /\ durable' = dir'
    /\ UNCHANGED <<writeThrough, owner, call>>

Next ==
    \/ \E i \in Instance :
          \/ Own(i)
          \/ Release(i)
          \/ SetAside(i)
          \/ \E n \in Version : Begin(i, n) \/ Apply(i, n)
          \/ Answer(i)
    \/ WriteBack
    \/ PowerLoss
    \/ Damage

Spec == Init /\ [][Next]_vars
==============================================================================
