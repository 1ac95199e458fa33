------------------------------ MODULE Authority ------------------------------
(***************************************************************************)
(* Live publisher authority of the coordinator: the AuthorityRegistry      *)
(* (authority.cpp) together with the coordinator operations that drive it  *)
(* (register_publisher, fence_boot, fence_on_session_loss, drop_session,   *)
(* observe_attempt, flush), the projection of authority into the durable   *)
(* store, the crash of the process and Coordinator::open.                  *)
(*                                                                         *)
(* Every operation runs under the coordinator mutex, so each is one        *)
(* action.  A call the code refuses before it changed anything is a        *)
(* stuttering step and has no action.  The definitions, results and        *)
(* evidence of the coordinator are the subject of module Coordinator.      *)
(***************************************************************************)
EXTENDS Naturals, Sequences, FiniteSets, MutationAttempts

CONSTANTS
    Publisher,          \* publisher identities
    Boot,               \* worker boot identities, one per worker process
    Session,            \* transport sessions
    Scope,              \* authority scopes
    Grant,              \* [Publisher -> SUBSET Scope]: CoordinatorConfig::grants
    Attempt,            \* mutation attempt identities callers use
    Payload,            \* payload digests of Coordinator::observe_attempt calls
    MaxPublishers,      \* limits.max_publishers
    MaxSessions,        \* limits.max_sessions
    MaxFencedBoots,     \* limits.max_fenced_boots
    MaxAttempts,        \* limits.max_mutation_attempts
    AllowInitialize,    \* CoordinatorConfig::allow_initialize
    DiskMayFail,        \* may a durable write fail?
    StoreMayCorrupt,    \* may the store become unreadable while closed?
    MaxEpoch,           \* bound: coordinator incarnations explored
    MaxRegistrations    \* bound: registrations per incarnation

\* The payload fence_boot passes to observe_attempt: Digest256{} whatever the
\* boot is.
EmptyDigest == "empty"

AdministerFencing == "AdministerFencing"

ASSUME AuthorityLimits ==
    /\ MaxPublishers \in Nat \ {0}
    /\ MaxSessions \in Nat \ {0}
    /\ MaxFencedBoots \in Nat \ {0}
    /\ MaxAttempts \in Nat \ {0}
    /\ MaxEpoch \in Nat
    /\ MaxRegistrations \in Nat

ASSUME AuthorityConfig ==
    /\ Grant \in [Publisher -> SUBSET Scope]
    /\ AllowInitialize \in BOOLEAN
    /\ DiskMayFail \in BOOLEAN
    /\ StoreMayCorrupt \in BOOLEAN
    /\ EmptyDigest \in Payload
    /\ IsFiniteSet(Boot)    \* a WorkerBootId is a 64-bit value

VARIABLES
    up,         \* is a coordinator process open?
    epoch,      \* epoch_; while down, the epoch of the last incarnation
    regs,       \* registrations_: dead registrations stay, with live = FALSE
    fenced,     \* boots in fenced_
    attempts,   \* attempts_
    disk,       \* the store: what open would find
    answered,   \* history: boots that are live or fenced because of a
                \* registration or a fencing answered with success
    barred      \* history: the boots that were in `answered` when an
                \* incarnation ended, and that a restart must have fenced

vars == <<up, epoch, regs, fenced, attempts, disk, answered, barred>>

Registration == [publisher : Publisher, boot : Boot, session : Session,
                 scopes : SUBSET Scope, live : BOOLEAN]
AttemptRecord == [attempt : Attempt, payload : Payload]

\* PersistentState, the part authority owns.  The attempts are written too but
\* no code reads them back: restore_durable_state clears the window.
\* epoch = 0 is "no store yet".
DiskImage == [readable : BOOLEAN, epoch : Nat,
              live : SUBSET Boot, fenced : SUBSET Boot]

\* The types of the registry, the attempt window, the store and the history.
TypeOK ==
    /\ up \in BOOLEAN
    /\ epoch \in Nat
    /\ regs \in Seq(Registration)
    /\ fenced \in SUBSET Boot
    /\ attempts \in Seq(AttemptRecord)
    /\ disk \in DiskImage
    /\ answered \in SUBSET Boot
    /\ barred \in SUBSET Boot

-----------------------------------------------------------------------------
(* The registry *)

LiveIndices(rs) == {i \in DOMAIN rs : rs[i].live}
LiveBoots(rs) == {rs[i].boot : i \in LiveIndices(rs)}
LiveSessions(rs) == {rs[i].session : i \in LiveIndices(rs)}

\* fence_boot: refused only when the registry of fenced boots is full.
CanFence(fs, b) == b \in fs \/ Cardinality(fs) < MaxFencedBoots

\* Mutant: the registrations of a fenced boot stay live.
KeepLive(rs, b) == rs

\* fence_boot's effect on the registrations: none of the boot stays live.
WithoutBoot(rs, b) ==
    [i \in DOMAIN rs |-> IF rs[i].boot = b THEN [rs[i] EXCEPT !.live = FALSE]
                                           ELSE rs[i]]

\* AuthorityRegistry::drop_session: the boots are not fenced.
WithoutSession(rs, s) ==
    [i \in DOMAIN rs |-> IF rs[i].session = s THEN [rs[i] EXCEPT !.live = FALSE]
                                              ELSE rs[i]]

\* register_publisher after the fencing of the previous boot: is there room
\* for one more live publisher, and for its session?
HasRoom(rs, s) ==
    /\ Cardinality(LiveIndices(rs)) < MaxPublishers
    /\ s \in LiveSessions(rs) \/ Cardinality(LiveSessions(rs)) < MaxSessions

\* authorize: the first live registration of the publisher in that session
\* decides.
Context == [epoch : 1..MaxEpoch, publisher : Publisher, boot : Boot, session : Session]

Authorized(ctx, scope) ==
    /\ ctx.epoch = epoch
    /\ ctx.boot \notin fenced
    /\ \E i \in DOMAIN regs :
          LET Matches(k) == /\ regs[k].live
                            /\ regs[k].publisher = ctx.publisher
                            /\ regs[k].session = ctx.session
          IN /\ Matches(i)
             /\ \A j \in 1..(i - 1) : ~Matches(j)
             /\ regs[i].boot = ctx.boot
             /\ scope \in regs[i].scopes

-----------------------------------------------------------------------------
(* Durability *)

\* to_state and refresh_authority_projection.
Projection(e, rs, fs) ==
    [readable |-> TRUE, epoch |-> e, live |-> LiveBoots(rs), fenced |-> fs]

\* Mutant: the fenced-boot registry may never be full.
ValidBelowLimit(image) ==
    /\ Cardinality(image.fenced) < MaxFencedBoots
    /\ Cardinality(image.live) <= MaxFencedBoots

\* validate_persistent_state, the bounds on authority state.
Valid(image) ==
    /\ Cardinality(image.fenced) <= MaxFencedBoots
    /\ Cardinality(image.live) <= MaxFencedBoots

\* What the callers were told, of the boots that are still live or fenced.
Told(boots) == answered' = boots \cap (LiveBoots(regs') \cup fenced')

\* Mutant: the error of the write is dropped.
ErrorDropped(image) == Valid(image) /\ disk' \in {image, disk}

\* persist: the image replaces the store, or the store keeps what it held.
Saved(image) == Valid(image) /\ disk' = image
SaveFailed(image) == (DiskMayFail \/ ~Valid(image)) /\ UNCHANGED disk

-----------------------------------------------------------------------------
(* Operations *)

\* Mutant: register_publisher does not look for an earlier registration.
NothingSuperseded(p) == {}

\* The registry part of register_publisher: the live registrations of the
\* publisher lose their boot before the limits are looked at.
Superseded(p) == {i \in LiveIndices(regs) : regs[i].publisher = p}

RegisterGuard(p, b, scopes) ==
    /\ up
    /\ scopes \cap Grant[p] # {}
    /\ b \notin fenced
    /\ \A i \in Superseded(p) : regs[i].boot # b /\ CanFence(fenced, regs[i].boot)

\* Mutants: the session is fenced instead of the boot; the new fencing
\* replaces the earlier ones.
FencesSession(p) == fenced \cup {regs[i].session : i \in Superseded(p)}
ForgetsFenced(p) == {regs[i].boot : i \in Superseded(p)}

\* At most one registration of a publisher is live, so fencing "all of them"
\* is fencing that one.
FencedBy(p) == fenced \cup {regs[i].boot : i \in Superseded(p)}
RegsAfterFencing(p) ==
    [i \in DOMAIN regs |->
        IF \E k \in Superseded(p) : regs[k].boot = regs[i].boot
        THEN [regs[i] EXCEPT !.live = FALSE]
        ELSE regs[i]]

\* The registration in memory: the previous boot of the publisher is fenced.
Enlist(p, b, s, scopes) ==
    /\ RegisterGuard(p, b, scopes)
    /\ Len(regs) < MaxRegistrations
    /\ HasRoom(RegsAfterFencing(p), s)
    /\ fenced' = FencedBy(p)
    /\ regs' = Append(RegsAfterFencing(p),
                      [publisher |-> p, boot |-> b, session |-> s,
                       scopes |-> scopes \cap Grant[p], live |-> TRUE])
    /\ UNCHANGED <<up, epoch, attempts, barred>>

\* Coordinator::register_publisher.  A failed durable write is reported to the
\* caller, but the registration and the fencing stay in memory.
RegisterStored(p, b, s, scopes) ==
    /\ Enlist(p, b, s, scopes)
    /\ Saved(Projection(epoch, regs', fenced'))
    /\ Told(answered \cup {b} \cup fenced')

RegisterUnstored(p, b, s, scopes) ==
    /\ Enlist(p, b, s, scopes)
    /\ SaveFailed(Projection(epoch, regs', fenced'))
    /\ Told(answered)

Register(p, b, s, scopes) ==
    RegisterStored(p, b, s, scopes) \/ RegisterUnstored(p, b, s, scopes)

\* register_publisher refused by a limit, after it fenced the previous boot.
RegisterRefused(p, b, s, scopes) ==
    /\ RegisterGuard(p, b, scopes)
    /\ ~HasRoom(RegsAfterFencing(p), s)
    /\ Superseded(p) # {}
    /\ fenced' = FencedBy(p)
    /\ regs' = RegsAfterFencing(p)
    /\ Told(answered)
    /\ UNCHANGED <<up, epoch, attempts, disk, barred>>

\* Coordinator::fence_boot.  An exact replay is answered with success and
\* touches nothing; the payload is the same for every boot.
FenceBoot(ctx, a, b) ==
    /\ up
    /\ Authorized(ctx, AdministerFencing)
    /\ attempts' = Observe(attempts, a, EmptyDigest, MaxAttempts)
    /\ \/ /\ Verdict(attempts, a, EmptyDigest) = "ExactReplay"
          /\ UNCHANGED <<regs, fenced, disk, answered>>
       \/ /\ Verdict(attempts, a, EmptyDigest) = "Fresh"
          /\ ~CanFence(fenced, b)
          /\ UNCHANGED <<regs, fenced, disk, answered>>
       \/ /\ Verdict(attempts, a, EmptyDigest) = "Fresh"
          /\ CanFence(fenced, b)
          /\ fenced' = fenced \cup {b}
          /\ regs' = IF b \in fenced THEN regs ELSE WithoutBoot(regs, b)
          /\ LET image == Projection(epoch, regs', fenced')
             IN \/ Saved(image) /\ Told(answered \cup fenced')
                \/ SaveFailed(image) /\ Told(answered)
    /\ UNCHANGED <<up, epoch, barred>>

\* boot_of_session: the first live registration of the session, if any.
FirstOf(s) == {i \in LiveIndices(regs) :
                  /\ regs[i].session = s
                  /\ \A j \in LiveIndices(regs) : regs[j].session = s => i <= j}

\* Coordinator::fence_on_session_loss: the boot of the first live registration
\* of the session is fenced, then every registration of the session dropped.
FenceOnSessionLoss(s) ==
    /\ up
    /\ \E i \in FirstOf(s) :
          LET b == regs[i].boot
          IN /\ CanFence(fenced, b)
             /\ fenced' = fenced \cup {b}
             /\ regs' = WithoutSession(IF b \in fenced THEN regs ELSE WithoutBoot(regs, b), s)
    /\ LET image == Projection(epoch, regs', fenced')
       IN Saved(image) \/ SaveFailed(image)
    /\ Told(answered)
    /\ UNCHANGED <<up, epoch, attempts, barred>>

\* Coordinator::drop_session: no durable write, no fencing.
DropSession(ctx, s) ==
    /\ up
    /\ Authorized(ctx, AdministerFencing)
    /\ s \in LiveSessions(regs)
    /\ regs' = WithoutSession(regs, s)
    /\ UNCHANGED <<up, epoch, fenced, attempts, disk, barred>>
    /\ Told(answered)

\* Coordinator::observe_attempt: open to every caller.
ObserveAttempt(a, payload) ==
    /\ up
    /\ attempts' = Observe(attempts, a, payload, MaxAttempts)
    /\ UNCHANGED <<up, epoch, regs, fenced, disk, answered, barred>>

\* Coordinator::flush, and the authority part of every other durable write the
\* coordinator makes: persist(to_state()).
Flush ==
    /\ up
    /\ Saved(Projection(epoch, regs, fenced))
    /\ UNCHANGED <<up, epoch, regs, fenced, attempts, answered, barred>>

\* The process ends: everything in memory is gone.
Crash ==
    /\ up
    /\ epoch < MaxEpoch
    /\ up' = FALSE
    /\ regs' = <<>>
    /\ fenced' = {}
    /\ attempts' = <<>>
    /\ barred' = barred \cup answered
    /\ answered' = {}
    /\ UNCHANGED <<epoch, disk>>

\* Storage damage between two incarnations: load fails from then on.
Corrupt ==
    /\ StoreMayCorrupt
    /\ ~up
    /\ disk.readable /\ disk.epoch # 0
    /\ disk' = [disk EXCEPT !.readable = FALSE]
    /\ UNCHANGED <<up, epoch, regs, fenced, attempts, answered, barred>>

HaveState == disk.readable /\ disk.epoch # 0

\* Mutants: live boots are not fenced; the epoch is restored as it was.
RestoresFencedOnly == IF HaveState THEN disk.fenced ELSE {}
RestoresEpoch == IF HaveState THEN disk.epoch ELSE 1

RestoredFenced == IF HaveState THEN disk.fenced \cup disk.live ELSE {}
NextEpoch == IF HaveState THEN disk.epoch + 1 ELSE 1

\* Coordinator::open.  A readable store carries the epoch on and fences every
\* boot it names; a store that is absent, or unreadable and quarantined,
\* starts at epoch 1 with nothing fenced.  The new state must be saved before
\* the coordinator exists; when the save fails the store keeps what it held.
Open ==
    /\ ~up
    /\ disk.readable \/ AllowInitialize
    /\ Saved(Projection(NextEpoch, <<>>, RestoredFenced))
    /\ up' = TRUE
    /\ epoch' = NextEpoch
    /\ fenced' = RestoredFenced
    /\ barred' = IF HaveState THEN barred ELSE {}
    /\ UNCHANGED <<regs, attempts, answered>>

-----------------------------------------------------------------------------
NoStore == [readable |-> TRUE, epoch |-> 0, live |-> {}, fenced |-> {}]

Init ==
    /\ up = FALSE
    /\ epoch = 0
    /\ regs = <<>>
    /\ fenced = {}
    /\ attempts = <<>>
    /\ disk = NoStore
    /\ answered = {} /\ barred = {}

Next ==
    \/ \E p \in Publisher, b \in Boot, s \in Session, scopes \in SUBSET Scope :
          Register(p, b, s, scopes) \/ RegisterRefused(p, b, s, scopes)
    \/ \E ctx \in Context, a \in Attempt, b \in Boot : FenceBoot(ctx, a, b)
    \/ \E s \in Session : FenceOnSessionLoss(s)
    \/ \E ctx \in Context, s \in Session : DropSession(ctx, s)
    \/ \E a \in Attempt, payload \in Payload : ObserveAttempt(a, payload)
    \/ Flush
    \/ Crash
    \/ Corrupt
    \/ Open

Spec == Init /\ [][Next]_vars

\* An operator restarts a coordinator that is down.
FairSpec == Spec /\ WF_vars(Open)

-----------------------------------------------------------------------------
(* Properties *)

\* A publisher is live under at most one registration: a re-registration with
\* a fresh boot takes the old registration's authority away first.
OneLiveRegistration ==
    \A i, j \in LiveIndices(regs) :
        regs[i].publisher = regs[j].publisher => i = j

\* No registration of a fenced boot is live, whichever publisher and session
\* it was made for and in whatever order it was registered and fenced.
FencedNeverLive == LiveBoots(regs) \cap fenced = {}

\* A restart fences every boot that was live or fenced when an earlier
\* incarnation ended, if the caller had been told so, whatever writes failed
\* before and after (Coordinator::open; README, "Authority, epochs and
\* fencing").  The memory of it goes with a store that became unreadable.
PreviousBootsStayFenced == up => barred \subseteq fenced

\* A coordinator that opens on a readable store has a larger epoch than the one
\* before it, whatever writes failed (Coordinator::open).
EpochAdvances == [][~up /\ up' /\ disk.readable => epoch' > epoch]_vars

\* No step of a running coordinator takes a boot out of the fenced registry.
FencingIsPermanent == [][up /\ up' => fenced \subseteq fenced']_vars

\* A coordinator that went down can be opened again as long as the boots open
\* has to fence fit the fenced-boot registry (Coordinator::open, persist).
RecoversWithinLimit ==
    ~up /\ Cardinality(disk.live \cup disk.fenced) <= MaxFencedBoots ~> up

-----------------------------------------------------------------------------
(* The inductive invariant behind the safety properties *)

\* What callers were told, and what restarts have to fence, a readable store
\* names; it carries the epoch of the last incarnation.
StoreCoversAnswers ==
    /\ answered \subseteq LiveBoots(regs) \cup fenced
    /\ disk.readable =>
          /\ disk.epoch = epoch
          /\ answered \cup barred \subseteq disk.live \cup disk.fenced

\* A process that is down holds nothing.
DownHoldsNothing == ~up => regs = <<>> /\ fenced = {}
=============================================================================
