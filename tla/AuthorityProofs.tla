--------------------------- MODULE AuthorityProofs ---------------------------
(***************************************************************************)
(* Proofs about the live publisher authority of the coordinator, for every *)
(* set of publishers, boots and sessions and every limit.                  *)
(***************************************************************************)
EXTENDS Authority, TLAPS, SequenceTheorems

-----------------------------------------------------------------------------
(* Registrations that lose their live flag *)

\* rt is rs with some of its registrations no longer live.
Dims(rs, rt) ==
    /\ rt \in [DOMAIN rs -> Registration]
    /\ \A i \in DOMAIN rs : /\ rt[i].publisher = rs[i].publisher
                            /\ rt[i].boot = rs[i].boot
                            /\ rt[i].live => rs[i].live

OneLive(rs) ==
    \A i, j \in LiveIndices(rs) : rs[i].publisher = rs[j].publisher => i = j

\* A sequence of registrations stays one, and nothing becomes live, when
\* registrations only lose their live flag.
LEMMA DimsProperties ==
    ASSUME NEW rs \in Seq(Registration), NEW rt, Dims(rs, rt)
    PROVE  /\ rt \in Seq(Registration)
           /\ DOMAIN rt = DOMAIN rs
           /\ LiveIndices(rt) \subseteq LiveIndices(rs)
           /\ LiveBoots(rt) \subseteq LiveBoots(rs)
           /\ OneLive(rs) => OneLive(rt)
  <1>1. /\ Len(rs) \in Nat
        /\ DOMAIN rs = 1..Len(rs)
    BY LenProperties
  <1>2. rt \in [1..Len(rs) -> Registration]
    BY <1>1 DEF Dims
  <1>3. rt \in Seq(Registration)
    BY <1>1, <1>2, SeqDef
  <1>4. DOMAIN rt = DOMAIN rs
    BY <1>1, <1>2
  <1>5. LiveIndices(rt) \subseteq LiveIndices(rs)
    BY <1>4 DEF Dims, LiveIndices
  <1>6. LiveBoots(rt) \subseteq LiveBoots(rs)
    BY <1>4, <1>5 DEF Dims, LiveIndices, LiveBoots
  <1>7. OneLive(rs) => OneLive(rt)
    BY <1>4, <1>5 DEF Dims, LiveIndices, OneLive
  <1> QED
    BY <1>3, <1>4, <1>5, <1>6, <1>7

\* fence_boot only takes live flags away, all of the boot's.
LEMMA WithoutBootDims ==
    ASSUME NEW rs \in Seq(Registration), NEW b
    PROVE  /\ Dims(rs, WithoutBoot(rs, b))
           /\ b \notin LiveBoots(WithoutBoot(rs, b))
  <1>1. \A i \in DOMAIN rs : rs[i] \in Registration
    BY LenProperties, ElementOfSeq
  <1>2. \A i \in DOMAIN rs : [rs[i] EXCEPT !.live = FALSE] \in Registration
    BY <1>1 DEF Registration
  <1>3. Dims(rs, WithoutBoot(rs, b))
    BY <1>1, <1>2 DEF Dims, WithoutBoot, Registration
  <1>4. b \notin LiveBoots(WithoutBoot(rs, b))
    BY <1>1 DEF WithoutBoot, LiveBoots, LiveIndices, Registration
  <1> QED
    BY <1>3, <1>4

\* drop_session only takes live flags away.
LEMMA WithoutSessionDims ==
    ASSUME NEW rs \in Seq(Registration), NEW s
    PROVE  Dims(rs, WithoutSession(rs, s))
  <1>1. \A i \in DOMAIN rs : rs[i] \in Registration
    BY LenProperties, ElementOfSeq
  <1>2. \A i \in DOMAIN rs : [rs[i] EXCEPT !.live = FALSE] \in Registration
    BY <1>1 DEF Registration
  <1> QED
    BY <1>1, <1>2 DEF Dims, WithoutSession, Registration

\* The fencing in register_publisher only takes live flags away, and leaves no
\* registration of a superseded boot live.
LEMMA AfterFencingDims ==
    ASSUME NEW p, regs \in Seq(Registration)
    PROVE  /\ Dims(regs, RegsAfterFencing(p))
           /\ \A i \in LiveIndices(RegsAfterFencing(p)) :
                 \A k \in Superseded(p) : regs[k].boot # regs[i].boot
  <1>1. \A i \in DOMAIN regs : regs[i] \in Registration
    BY LenProperties, ElementOfSeq
  <1>2. \A i \in DOMAIN regs : [regs[i] EXCEPT !.live = FALSE] \in Registration
    BY <1>1 DEF Registration
  <1>3. Dims(regs, RegsAfterFencing(p))
    BY <1>1, <1>2 DEF Dims, RegsAfterFencing, Registration
  <1>4. ASSUME NEW i \in LiveIndices(RegsAfterFencing(p)), NEW k \in Superseded(p)
        PROVE  regs[k].boot # regs[i].boot
    BY <1>1, <1>4 DEF RegsAfterFencing, LiveIndices, Registration
  <1> QED
    BY <1>3, <1>4

\* Registering appends one live registration.
LEMMA AppendLive ==
    ASSUME NEW rs \in Seq(Registration), NEW r \in Registration, r.live
    PROVE  /\ Append(rs, r) \in Seq(Registration)
           /\ LiveIndices(Append(rs, r)) = LiveIndices(rs) \cup {Len(rs) + 1}
           /\ LiveBoots(Append(rs, r)) = LiveBoots(rs) \cup {r.boot}
           /\ Len(rs) + 1 \notin LiveIndices(rs)
  <1> DEFINE rt == Append(rs, r)
  <1>1. /\ Len(rs) \in Nat
        /\ DOMAIN rs = 1..Len(rs)
    BY LenProperties
  <1>2. /\ rt \in Seq(Registration)
        /\ Len(rt) = Len(rs) + 1
        /\ \A i \in 1..Len(rs) : rt[i] = rs[i]
        /\ rt[Len(rs) + 1] = r
    BY AppendProperties
  <1>3. DOMAIN rt = 1..(Len(rs) + 1)
    BY <1>2, LenProperties
  <1> HIDE DEF rt
  <1>4. LiveIndices(rt) = LiveIndices(rs) \cup {Len(rs) + 1}
    BY <1>1, <1>2, <1>3 DEF LiveIndices
  <1>5. LiveBoots(rt) = LiveBoots(rs) \cup {r.boot}
    BY <1>1, <1>2, <1>3, <1>4 DEF LiveBoots, LiveIndices
  <1>6. Len(rs) + 1 \notin LiveIndices(rs)
    BY <1>1 DEF LiveIndices
  <1> QED
    BY <1>2, <1>4, <1>5, <1>6 DEF rt

\* An empty registry has no live registration.
LEMMA EmptyRegistry ==
    /\ <<>> \in Seq(Registration)
    /\ LiveIndices(<<>>) = {}
    /\ LiveBoots(<<>>) = {}
  BY DEF LiveIndices, LiveBoots

\* observe_attempt keeps the window a sequence of attempt records.
LEMMA ObserveType ==
    ASSUME NEW w \in Seq(AttemptRecord), NEW a \in Attempt, NEW payload \in Payload
    PROVE  Observe(w, a, payload, MaxAttempts) \in Seq(AttemptRecord)
  <1>1. [attempt |-> a, payload |-> payload] \in AttemptRecord
    BY DEF AttemptRecord
  <1>2. Len(w) >= MaxAttempts => Tail(w) \in Seq(AttemptRecord)
    BY AuthorityLimits
  <1> QED
    BY <1>1, <1>2 DEF Observe

\* The boots a registry keeps live are boots.
LEMMA LiveBootsType ==
    ASSUME NEW rs \in Seq(Registration)
    PROVE  LiveBoots(rs) \in SUBSET Boot
  <1>1. \A i \in DOMAIN rs : rs[i] \in Registration
    BY LenProperties, ElementOfSeq
  <1> QED
    BY <1>1 DEF LiveBoots, LiveIndices, Registration

\* What persist writes is a well-formed store.
LEMMA ProjectionType ==
    ASSUME NEW e \in Nat, NEW rs \in Seq(Registration), NEW fs \in SUBSET Boot
    PROVE  Projection(e, rs, fs) \in DiskImage
  <1>1. LiveBoots(rs) \in SUBSET Boot
    BY LiveBootsType
  <1>2. TRUE \in BOOLEAN
    OBVIOUS
  <1> QED
    BY <1>1, <1>2, Zenon DEF Projection, DiskImage

\* What callers were told of is live or fenced, so it is a set of boots.
LEMMA ToldType ==
    ASSUME NEW boots, Told(boots), regs' \in Seq(Registration), fenced' \in SUBSET Boot
    PROVE  answered' \in SUBSET Boot
  <1>1. LiveBoots(regs') \in SUBSET Boot
    BY LiveBootsType
  <1> QED
    BY <1>1 DEF Told

-----------------------------------------------------------------------------
(* The registry invariant *)

RegistryInv == TypeOK /\ OneLiveRegistration /\ FencedNeverLive /\ DownHoldsNothing

\* What a successful registration leaves behind.
LEMMA RegisterStep ==
    ASSUME RegistryInv, NEW p \in Publisher, NEW b \in Boot, NEW s \in Session,
           NEW scopes \in SUBSET Scope, Register(p, b, s, scopes)
    PROVE  /\ regs' \in Seq(Registration)
           /\ fenced' \in SUBSET Boot
           /\ disk' \in DiskImage
           /\ OneLive(regs')
           /\ LiveBoots(regs') \cap fenced' = {}
           /\ LiveIndices(regs') = LiveIndices(RegsAfterFencing(p)) \cup {Len(regs) + 1}
           /\ Len(regs) + 1 \notin LiveIndices(RegsAfterFencing(p))
  <1> DEFINE rs == RegsAfterFencing(p)
             r == [publisher |-> p, boot |-> b, session |-> s,
                   scopes |-> scopes \cap Grant[p], live |-> TRUE]
  <1>1. /\ regs \in Seq(Registration)
        /\ fenced \in SUBSET Boot
        /\ OneLive(regs)
    BY DEF RegistryInv, TypeOK, OneLiveRegistration, OneLive
  <1>2. /\ Dims(regs, rs)
        /\ \A i \in LiveIndices(rs) : \A k \in Superseded(p) : regs[k].boot # regs[i].boot
    BY <1>1, AfterFencingDims
  <1>3. /\ rs \in Seq(Registration)
        /\ DOMAIN rs = DOMAIN regs
        /\ LiveIndices(rs) \subseteq LiveIndices(regs)
        /\ LiveBoots(rs) \subseteq LiveBoots(regs)
        /\ OneLive(rs)
    BY <1>1, <1>2, DimsProperties
  <1>4. r \in Registration
    BY DEF Registration
  <1>5. regs' = Append(rs, r)
    BY DEF Register, RegisterStored, RegisterUnstored, Enlist
  <1>6. /\ regs' \in Seq(Registration)
        /\ LiveIndices(regs') = LiveIndices(rs) \cup {Len(rs) + 1}
        /\ LiveBoots(regs') = LiveBoots(rs) \cup {b}
        /\ Len(rs) + 1 \notin LiveIndices(rs)
    <2>1. r.live /\ r.boot = b
      OBVIOUS
    <2> QED
      BY <1>3, <1>4, <1>5, <2>1, AppendLive, ZenonT(60)
  <1>7. \A i \in DOMAIN regs : regs[i] \in Registration
    BY <1>1, LenProperties, ElementOfSeq
  <1>8. fenced' = fenced \cup {regs[i].boot : i \in Superseded(p)}
    BY DEF Register, RegisterStored, RegisterUnstored, Enlist, FencedBy
  <1>9. fenced' \in SUBSET Boot
    BY <1>1, <1>7, <1>8 DEF Superseded, LiveIndices, Registration
  <1>10. Len(rs) = Len(regs)
    BY <1>1, <1>3, LenProperties
  <1>11. OneLive(regs')
    <2>1. \A i \in LiveIndices(rs) : regs'[i] = rs[i] /\ rs[i].publisher = regs[i].publisher
      BY <1>2, <1>3, <1>4, <1>5, AppendProperties, LenProperties DEF LiveIndices, Dims
    <2>2. regs'[Len(rs) + 1].publisher = p
      BY <1>3, <1>4, <1>5, AppendProperties
    <2>3. \A i \in LiveIndices(rs) : regs[i].publisher # p
      <3>1. SUFFICES ASSUME NEW i \in LiveIndices(rs), regs[i].publisher = p
                     PROVE  FALSE
        OBVIOUS
      <3>2. i \in Superseded(p)
        BY <1>3, <3>1 DEF Superseded
      <3> QED
        BY <1>2, <3>2
    <2>4. \A i, j \in LiveIndices(rs) : rs[i].publisher = rs[j].publisher => i = j
      BY <1>3 DEF OneLive
    <2> HIDE DEF rs, r
    <2> QED
      BY <1>6, <2>1, <2>2, <2>3, <2>4 DEF OneLive
  <1>12. LiveBoots(regs') \cap fenced' = {}
    <2>1. b \notin fenced'
      BY <1>8 DEF Register, RegisterStored, RegisterUnstored, Enlist, RegisterGuard
    <2>2. LiveBoots(rs) \cap fenced = {}
      BY <1>3 DEF RegistryInv, FencedNeverLive
    <2>3. \A x \in LiveBoots(rs) : x \notin {regs[i].boot : i \in Superseded(p)}
      <3>1. \A i \in LiveIndices(rs) : rs[i].boot = regs[i].boot
        BY <1>2, <1>3 DEF Dims, LiveIndices
      <3> QED
        BY <1>2, <3>1 DEF LiveBoots
    <2> QED
      BY <1>6, <1>8, <2>1, <2>2, <2>3
  <1>13. disk' \in DiskImage
    <2>1. epoch \in Nat /\ disk \in DiskImage
      BY DEF RegistryInv, TypeOK
    <2>2. Projection(epoch, regs', fenced') \in DiskImage
      BY <1>6, <1>9, <2>1, ProjectionType
    <2>3. disk' = Projection(epoch, regs', fenced') \/ disk' = disk
      BY DEF Register, RegisterStored, RegisterUnstored, Enlist, Saved, SaveFailed
    <2> QED
      BY <2>1, <2>2, <2>3
  <1> QED
    BY <1>6, <1>9, <1>10, <1>11, <1>12, <1>13

\* Fencing one boot: its registrations die, unless it was fenced already.
AfterFencingBoot(b) == IF b \in fenced THEN regs ELSE WithoutBoot(regs, b)

\* Fencing one boot leaves no fenced boot live.
LEMMA FencingOneBoot ==
    ASSUME RegistryInv, NEW b \in Boot
    PROVE  /\ Dims(regs, AfterFencingBoot(b))
           /\ AfterFencingBoot(b) \in Seq(Registration)
           /\ OneLive(AfterFencingBoot(b))
           /\ LiveBoots(AfterFencingBoot(b)) \cap (fenced \cup {b}) = {}
  <1> DEFINE rs == AfterFencingBoot(b)
  <1>1. /\ regs \in Seq(Registration)
        /\ OneLive(regs)
        /\ LiveBoots(regs) \cap fenced = {}
    BY DEF RegistryInv, TypeOK, OneLiveRegistration, OneLive, FencedNeverLive
  <1>2. \A i \in DOMAIN regs : regs[i] \in Registration
    BY <1>1, LenProperties, ElementOfSeq
  <1>3. Dims(regs, regs)
    BY <1>1, <1>2, LenProperties DEF Dims
  <1>4. Dims(regs, rs)
    BY <1>1, <1>3, WithoutBootDims DEF AfterFencingBoot
  <1>5. /\ rs \in Seq(Registration)
        /\ LiveBoots(rs) \subseteq LiveBoots(regs)
        /\ OneLive(rs)
    BY <1>1, <1>4, DimsProperties
  <1>6. b \notin LiveBoots(rs)
    BY <1>1, WithoutBootDims DEF AfterFencingBoot
  <1> QED
    BY <1>1, <1>4, <1>5, <1>6

\* fence_on_session_loss: some boot is fenced, and registrations only lose
\* their live flag.
LEMMA SessionLossStep ==
    ASSUME RegistryInv, NEW s \in Session, FenceOnSessionLoss(s)
    PROVE  \E b \in Boot :
              /\ CanFence(fenced, b)
              /\ fenced' = fenced \cup {b}
              /\ Dims(AfterFencingBoot(b), regs')
  <1>1. PICK i \in LiveIndices(regs) :
           /\ CanFence(fenced, regs[i].boot)
           /\ fenced' = fenced \cup {regs[i].boot}
           /\ regs' = WithoutSession(AfterFencingBoot(regs[i].boot), s)
    BY DEF FenceOnSessionLoss, FirstOf, AfterFencingBoot
  <1>2. regs \in Seq(Registration)
    BY DEF RegistryInv, TypeOK
  <1>3. regs[i] \in Registration
    BY <1>2, LenProperties, ElementOfSeq DEF LiveIndices
  <1>4. PICK b \in Boot : b = regs[i].boot
    BY <1>3 DEF Registration
  <1>5. AfterFencingBoot(b) \in Seq(Registration)
    BY FencingOneBoot
  <1>6. Dims(AfterFencingBoot(b), WithoutSession(AfterFencingBoot(b), s))
    BY <1>5, WithoutSessionDims
  <1>7. regs' = WithoutSession(AfterFencingBoot(b), s)
    BY <1>1, <1>4
  <1> QED
    BY <1>1, <1>4, <1>6, <1>7

\* The registry invariant holds before the first coordinator opens.
LEMMA RegistryInit == Init => RegistryInv
  <1> SUFFICES ASSUME Init PROVE RegistryInv
    OBVIOUS
  <1>1. NoStore \in DiskImage
    <2>1. TRUE \in BOOLEAN /\ 0 \in Nat /\ {} \in SUBSET Boot
      OBVIOUS
    <2> QED
      BY <2>1, Zenon DEF NoStore, DiskImage
  <1>2. TypeOK
    <2>1. <<>> \in Seq(Registration) /\ <<>> \in Seq(AttemptRecord)
      BY EmptySeq
    <2> QED
      BY <1>1, <2>1 DEF Init, TypeOK
  <1>3. OneLiveRegistration /\ FencedNeverLive
    BY EmptyRegistry DEF Init, OneLiveRegistration, FencedNeverLive
  <1>4. DownHoldsNothing
    BY DEF Init, DownHoldsNothing
  <1> QED
    BY <1>2, <1>3, <1>4 DEF RegistryInv

\* Every step keeps the registry invariant.
LEMMA RegistryStep == RegistryInv /\ [Next]_vars => RegistryInv'
  <1> SUFFICES ASSUME RegistryInv, [Next]_vars PROVE RegistryInv'
    OBVIOUS
  <1>0. /\ TypeOK
        /\ OneLive(regs)
        /\ LiveBoots(regs) \cap fenced = {}
        /\ ~up => regs = <<>> /\ fenced = {}
    BY DEF RegistryInv, OneLiveRegistration, OneLive, FencedNeverLive, DownHoldsNothing
  <1> DEFINE Goal == /\ TypeOK'
                     /\ OneLive(regs')
                     /\ LiveBoots(regs') \cap fenced' = {}
                     /\ ~up' => regs' = <<>> /\ fenced' = {}
  <1>goal. SUFFICES Goal
    BY DEF RegistryInv, OneLiveRegistration, OneLive, FencedNeverLive, DownHoldsNothing
  <1>1. ASSUME NEW p \in Publisher, NEW b \in Boot, NEW s \in Session,
               NEW scopes \in SUBSET Scope, Register(p, b, s, scopes)
        PROVE  Goal
    <2>1. /\ regs' \in Seq(Registration)
          /\ fenced' \in SUBSET Boot
          /\ disk' \in DiskImage
          /\ OneLive(regs')
          /\ LiveBoots(regs') \cap fenced' = {}
      BY <1>1, RegisterStep
    <2>2. TypeOK'
      <3>1. answered' \in SUBSET Boot
        BY <1>1, <2>1, ToldType DEF Register, RegisterStored, RegisterUnstored, Enlist
      <3> QED
        BY <1>0, <1>1, <2>1, <3>1 DEF Register, RegisterStored, RegisterUnstored, Enlist, TypeOK
    <2>3. up'
      BY <1>1 DEF Register, RegisterStored, RegisterUnstored, Enlist, RegisterGuard
    <2> QED
      BY <2>1, <2>2, <2>3
  <1>2. ASSUME NEW p \in Publisher, NEW b \in Boot, NEW s \in Session,
               NEW scopes \in SUBSET Scope, RegisterRefused(p, b, s, scopes)
        PROVE  Goal
    <2>1. regs \in Seq(Registration) /\ fenced \in SUBSET Boot
      BY <1>0 DEF TypeOK
    <2>2. /\ Dims(regs, regs')
          /\ \A i \in LiveIndices(regs') : \A k \in Superseded(p) : regs[k].boot # regs[i].boot
      BY <1>2, <2>1, AfterFencingDims DEF RegisterRefused
    <2>3. /\ regs' \in Seq(Registration)
          /\ DOMAIN regs' = DOMAIN regs
          /\ LiveBoots(regs') \subseteq LiveBoots(regs)
          /\ OneLive(regs')
      BY <1>0, <2>1, <2>2, DimsProperties
    <2>4. fenced' = fenced \cup {regs[i].boot : i \in Superseded(p)}
      BY <1>2 DEF RegisterRefused, FencedBy
    <2>5. fenced' \in SUBSET Boot
      <3>1. \A i \in DOMAIN regs : regs[i] \in Registration
        BY <2>1, LenProperties, ElementOfSeq
      <3> QED
        BY <2>1, <2>4, <3>1 DEF Superseded, LiveIndices, Registration
    <2>6. LiveBoots(regs') \cap fenced' = {}
      <3>1. \A i \in LiveIndices(regs') : regs'[i].boot = regs[i].boot
        BY <2>2, <2>3 DEF Dims, LiveIndices
      <3>2. \A x \in LiveBoots(regs') : x \notin {regs[i].boot : i \in Superseded(p)}
        BY <2>2, <3>1 DEF LiveBoots
      <3> QED
        BY <1>0, <2>3, <2>4, <3>2
    <2>7. TypeOK'
      <3>1. answered' \in SUBSET Boot
        BY <1>2, <2>3, <2>5, ToldType DEF RegisterRefused
      <3> QED
        BY <1>0, <1>2, <2>3, <2>5, <3>1 DEF RegisterRefused, TypeOK
    <2> QED
      BY <1>2, <2>3, <2>6, <2>7 DEF RegisterRefused, RegisterGuard
  <1>3. ASSUME NEW ctx \in Context, NEW a \in Attempt, NEW b \in Boot, FenceBoot(ctx, a, b)
        PROVE  Goal
    <2>1. attempts' \in Seq(AttemptRecord)
      BY <1>0, <1>3, ObserveType, AuthorityConfig DEF FenceBoot, TypeOK
    <2>3. CASE UNCHANGED <<regs, fenced, disk, answered>>
      BY <1>0, <1>3, <2>1, <2>3 DEF FenceBoot, TypeOK
    <2>4. CASE /\ fenced' = fenced \cup {b}
               /\ regs' = AfterFencingBoot(b)
               /\ \/ Saved(Projection(epoch, regs', fenced')) /\ Told(answered \cup fenced')
                  \/ SaveFailed(Projection(epoch, regs', fenced')) /\ Told(answered)
      <3>1. /\ regs' \in Seq(Registration)
            /\ OneLive(regs')
            /\ LiveBoots(regs') \cap fenced' = {}
        BY <2>4, FencingOneBoot
      <3>2. fenced' \in SUBSET Boot
        BY <1>0, <2>4 DEF TypeOK
      <3>3. disk' \in DiskImage
        <4>1. Projection(epoch, regs', fenced') \in DiskImage
          BY <1>0, <3>1, <3>2, ProjectionType DEF TypeOK
        <4> QED
          BY <1>0, <2>4, <4>1 DEF Saved, SaveFailed, TypeOK
      <3>4. TypeOK'
        <4>1. answered' \in SUBSET Boot
          BY <2>4, <3>1, <3>2, ToldType
        <4> QED
          BY <1>0, <1>3, <2>1, <3>1, <3>2, <3>3, <4>1 DEF FenceBoot, TypeOK
      <3> QED
        BY <1>3, <3>1, <3>4 DEF FenceBoot
    <2> QED
      BY <1>3, <2>3, <2>4 DEF FenceBoot, AfterFencingBoot
  <1>4. ASSUME NEW s \in Session, FenceOnSessionLoss(s)
        PROVE  Goal
    <2>1. PICK b \in Boot : /\ fenced' = fenced \cup {b}
                            /\ Dims(AfterFencingBoot(b), regs')
      BY <1>4, SessionLossStep
    <2>2. /\ AfterFencingBoot(b) \in Seq(Registration)
          /\ OneLive(AfterFencingBoot(b))
          /\ LiveBoots(AfterFencingBoot(b)) \cap fenced' = {}
      BY <2>1, FencingOneBoot
    <2>3. /\ regs' \in Seq(Registration)
          /\ OneLive(regs')
          /\ LiveBoots(regs') \cap fenced' = {}
      BY <2>1, <2>2, DimsProperties
    <2>4. fenced' \in SUBSET Boot
      BY <1>0, <2>1 DEF TypeOK
    <2>5. disk' \in DiskImage
      <3>1. Projection(epoch, regs', fenced') \in DiskImage
        BY <1>0, <2>3, <2>4, ProjectionType DEF TypeOK
      <3> QED
        BY <1>0, <1>4, <3>1 DEF FenceOnSessionLoss, FirstOf, Saved, SaveFailed, TypeOK
    <2>6. TypeOK' /\ up'
      <3>1. answered' \in SUBSET Boot
        BY <1>4, <2>3, <2>4, ToldType DEF FenceOnSessionLoss, FirstOf
      <3> QED
        BY <1>0, <1>4, <2>3, <2>4, <2>5, <3>1 DEF FenceOnSessionLoss, FirstOf, TypeOK
    <2> QED
      BY <2>3, <2>6
  <1>5. ASSUME NEW ctx \in Context, NEW s \in Session, DropSession(ctx, s)
        PROVE  Goal
    <2>1. Dims(regs, regs')
      BY <1>0, <1>5, WithoutSessionDims DEF DropSession, TypeOK
    <2>2. /\ regs' \in Seq(Registration)
          /\ OneLive(regs')
          /\ LiveBoots(regs') \subseteq LiveBoots(regs)
      BY <1>0, <2>1, DimsProperties DEF TypeOK
    <2>3. fenced' \in SUBSET Boot
      BY <1>0, <1>5 DEF DropSession, TypeOK
    <2>4. answered' \in SUBSET Boot
      BY <1>5, <2>2, <2>3, ToldType DEF DropSession
    <2> QED
      BY <1>0, <1>5, <2>2, <2>4 DEF DropSession, TypeOK
  <1>6. ASSUME NEW a \in Attempt, NEW payload \in Payload, ObserveAttempt(a, payload)
        PROVE  Goal
    <2>1. attempts' \in Seq(AttemptRecord)
      BY <1>0, <1>6, ObserveType DEF ObserveAttempt, TypeOK
    <2> QED
      BY <1>0, <1>6, <2>1 DEF ObserveAttempt, TypeOK
  <1>7. CASE Flush
    <2>1. disk' \in DiskImage
      BY <1>0, <1>7, ProjectionType DEF Flush, Saved, TypeOK
    <2> QED
      BY <1>0, <1>7, <2>1 DEF Flush, TypeOK
  <1>8. CASE Crash
    <2>2. TypeOK'
      <3>1. <<>> \in Seq(Registration) /\ <<>> \in Seq(AttemptRecord)
        BY EmptySeq
      <3> QED
        BY <1>0, <1>8, <3>1 DEF Crash, TypeOK
    <2>3. LiveIndices(<<>>) = {} /\ LiveBoots(<<>>) = {}
      BY EmptyRegistry
    <2> QED
      BY <1>8, <2>2, <2>3 DEF Crash, OneLive
  <1>9. CASE Corrupt
    <2>1. disk' \in DiskImage
      BY <1>0, <1>9 DEF Corrupt, TypeOK, DiskImage
    <2> QED
      BY <1>0, <1>9, <2>1 DEF Corrupt, TypeOK
  <1>10. CASE Open
    <2>1. regs = <<>>
      BY <1>0, <1>10 DEF Open
    <2>2. fenced' \in SUBSET Boot /\ epoch' \in Nat
      BY <1>0, <1>10 DEF Open, RestoredFenced, NextEpoch, TypeOK, DiskImage
    <2>3. disk' \in DiskImage
      BY <1>10, <2>2, EmptyRegistry, ProjectionType DEF Open, Saved
    <2>4. TypeOK'
      BY <1>0, <1>10, <2>2, <2>3 DEF Open, TypeOK
    <2> QED
      BY <1>0, <1>10, <2>1, <2>4, EmptyRegistry DEF Open, OneLive
  <1>11. CASE UNCHANGED vars
    BY <1>0, <1>11 DEF vars, TypeOK
  <1> QED
    BY <1>1, <1>2, <1>3, <1>4, <1>5, <1>6, <1>7, <1>8, <1>9, <1>10, <1>11 DEF Next

\* The type invariant of the registry and the store, for every step of every
\* operation, crash and recovery.
THEOREM TypeCorrect == Spec => []TypeOK
  <1>1. RegistryInv => TypeOK
    BY DEF RegistryInv
  <1> QED
    BY <1>1, RegistryInit, RegistryStep, PTL DEF Spec

\* However often publishers re-register (AuthorityRegistry::register_publisher),
\* each is live under at most one registration, disk failures, storage damage
\* and restarts included.
THEOREM AtMostOneLive == Spec => []OneLiveRegistration
  <1>1. RegistryInv => OneLiveRegistration
    BY DEF RegistryInv
  <1> QED
    BY <1>1, RegistryInit, RegistryStep, PTL DEF Spec

\* A boot in the fenced registry (AuthorityRegistry::fence_boot) never has a
\* live registration, disk failures, storage damage and restarts included.
THEOREM NoFencedLive == Spec => []FencedNeverLive
  <1>1. RegistryInv => FencedNeverLive
    BY DEF RegistryInv
  <1> QED
    BY <1>1, RegistryInit, RegistryStep, PTL DEF Spec

\* While the coordinator runs nothing takes a boot out of the fenced registry
\* (there is no operation of AuthorityRegistry that erases from fenced_).
THEOREM FencingPermanent == Spec => FencingIsPermanent
  <1>1. [Next]_vars => [up /\ up' => fenced \subseteq fenced']_vars
    <2> SUFFICES ASSUME [Next]_vars, up, up' PROVE fenced \subseteq fenced'
      BY DEF vars
    <2>1. ASSUME NEW p \in Publisher, NEW b \in Boot, NEW s \in Session,
                 NEW scopes \in SUBSET Scope,
                 Register(p, b, s, scopes) \/ RegisterRefused(p, b, s, scopes)
          PROVE  fenced \subseteq fenced'
      BY <2>1 DEF Register, RegisterStored, RegisterUnstored, Enlist, RegisterRefused, FencedBy
    <2>2. ASSUME NEW ctx \in Context, NEW a \in Attempt, NEW b \in Boot, FenceBoot(ctx, a, b)
          PROVE  fenced \subseteq fenced'
      BY <2>2 DEF FenceBoot
    <2>3. ASSUME NEW s \in Session, FenceOnSessionLoss(s)
          PROVE  fenced \subseteq fenced'
      BY <2>3 DEF FenceOnSessionLoss, FirstOf
    <2>4. ASSUME NEW ctx \in Context, NEW s \in Session, DropSession(ctx, s)
          PROVE  fenced \subseteq fenced'
      BY <2>4 DEF DropSession
    <2>5. ASSUME NEW a \in Attempt, NEW payload \in Payload, ObserveAttempt(a, payload)
          PROVE  fenced \subseteq fenced'
      BY <2>5 DEF ObserveAttempt
    <2>6. CASE Flush \/ Crash \/ Corrupt \/ Open
      BY <2>6 DEF Flush, Crash, Corrupt, Open
    <2>7. CASE UNCHANGED vars
      BY <2>7 DEF vars
    <2> QED
      BY <2>1, <2>2, <2>3, <2>4, <2>5, <2>6, <2>7 DEF Next
  <1> QED
    BY <1>1, PTL DEF Spec, FencingIsPermanent

-----------------------------------------------------------------------------
(* Restarts *)

\* What a readable store has to know for a restart to keep the promises made:
\* whatever is live or fenced because a caller was told so is in it, although
\* the rest of memory may have moved on without it.
StoreInv == StoreCoversAnswers /\ PreviousBootsStayFenced

\* A step of a running coordinator that tried to write the registry: either the
\* store holds it and callers may be told of it, or callers learn nothing new.
LEMMA WriteCovers ==
    ASSUME StoreInv, up, NEW boots, UNCHANGED <<epoch, barred>>, fenced \subseteq fenced',
           \/ Saved(Projection(epoch, regs', fenced')) /\ Told(boots)
           \/ UNCHANGED disk /\ Told(answered)
    PROVE  StoreInv'
  <1>1. barred' \subseteq fenced'
    BY DEF StoreInv, PreviousBootsStayFenced
  <1>2. answered' \subseteq LiveBoots(regs') \cup fenced'
    BY DEF Told
  <1>3. CASE Saved(Projection(epoch, regs', fenced')) /\ Told(boots)
    <2>1. /\ disk'.epoch = epoch
          /\ disk'.live = LiveBoots(regs')
          /\ disk'.fenced = fenced'
      BY <1>3 DEF Saved, Projection
    <2> QED
      BY <1>1, <1>2, <2>1 DEF StoreInv, StoreCoversAnswers, PreviousBootsStayFenced
  <1>4. CASE UNCHANGED disk /\ Told(answered)
    <2>1. answered' \subseteq answered
      BY <1>4 DEF Told
    <2> QED
      BY <1>1, <1>2, <1>4, <2>1 DEF StoreInv, StoreCoversAnswers, PreviousBootsStayFenced
  <1> QED
    BY <1>3, <1>4

\* Coordinator::open moves the epoch on, and fences what the store names.
LEMMA OpenStep ==
    ASSUME RegistryInv, StoreInv, Open
    PROVE  StoreInv' /\ (disk.readable => epoch' > epoch)
  <1>1. /\ ~up /\ regs = <<>> /\ fenced = {}
        /\ epoch \in Nat
    BY DEF Open, RegistryInv, TypeOK, DownHoldsNothing
  <1>2. answered = {}
    BY <1>1, EmptyRegistry DEF StoreInv, StoreCoversAnswers
  <1>3. /\ disk'.epoch = NextEpoch /\ epoch' = NextEpoch
        /\ disk'.live = {} /\ disk'.fenced = RestoredFenced /\ fenced' = RestoredFenced
    BY EmptyRegistry DEF Open, Saved, Projection
  <1>4. barred' \subseteq RestoredFenced
    BY DEF Open, RestoredFenced, HaveState, StoreInv, StoreCoversAnswers
  <1>5. disk.readable => epoch' > epoch
    BY <1>1, <1>3 DEF NextEpoch, HaveState, StoreInv, StoreCoversAnswers
  <1> QED
    BY <1>2, <1>3, <1>4, <1>5 DEF Open, StoreInv, StoreCoversAnswers, PreviousBootsStayFenced

\* Every step keeps what the store and the callers know of the registry, and
\* only open brings a coordinator up.
LEMMA StoreStep ==
    ASSUME RegistryInv, StoreInv, [Next]_vars
    PROVE  StoreInv' /\ (~up /\ up' /\ disk.readable => epoch' > epoch)
  <1> DEFINE Goal == StoreInv' /\ (up \/ ~up')
  <1>1. ASSUME NEW p \in Publisher, NEW b \in Boot, NEW s \in Session,
               NEW scopes \in SUBSET Scope,
               Register(p, b, s, scopes) \/ RegisterRefused(p, b, s, scopes)
        PROVE  Goal
    <2>1. /\ up /\ UNCHANGED <<epoch, barred>>
          /\ fenced \subseteq fenced'
      BY <1>1 DEF Register, RegisterStored, RegisterUnstored, Enlist, RegisterRefused, RegisterGuard, FencedBy
    <2>2. \/ Saved(Projection(epoch, regs', fenced')) /\ Told(answered \cup {b} \cup fenced')
          \/ UNCHANGED disk /\ Told(answered)
      BY <1>1 DEF Register, RegisterStored, RegisterUnstored, Enlist, RegisterRefused, SaveFailed
    <2> QED
      BY <2>1, <2>2, WriteCovers
  <1>2. ASSUME NEW ctx \in Context, NEW a \in Attempt, NEW b \in Boot, FenceBoot(ctx, a, b)
        PROVE  Goal
    <2>1. up /\ up' /\ UNCHANGED <<epoch, barred>>
      BY <1>2 DEF FenceBoot
    <2>2. CASE UNCHANGED <<regs, fenced, disk, answered>>
      BY <2>1, <2>2 DEF StoreInv, StoreCoversAnswers, PreviousBootsStayFenced
    <2>3. CASE /\ fenced' = fenced \cup {b}
               /\ \/ Saved(Projection(epoch, regs', fenced')) /\ Told(answered \cup fenced')
                  \/ UNCHANGED disk /\ Told(answered)
      BY <2>1, <2>3, WriteCovers
    <2> QED
      BY <1>2, <2>2, <2>3 DEF FenceBoot, SaveFailed
  <1>3. ASSUME NEW s \in Session, FenceOnSessionLoss(s)
        PROVE  Goal
    <2>1. /\ up /\ UNCHANGED <<epoch, barred>>
          /\ fenced \subseteq fenced'
      BY <1>3 DEF FenceOnSessionLoss, FirstOf
    <2>2. \/ Saved(Projection(epoch, regs', fenced')) /\ Told(answered)
          \/ UNCHANGED disk /\ Told(answered)
      BY <1>3 DEF FenceOnSessionLoss, FirstOf, SaveFailed
    <2> QED
      BY <2>1, <2>2, WriteCovers
  <1>4. ASSUME NEW ctx \in Context, NEW s \in Session, DropSession(ctx, s)
        PROVE  Goal
    <2>1. /\ up /\ UNCHANGED <<epoch, barred, disk>> /\ fenced \subseteq fenced'
          /\ Told(answered)
      BY <1>4 DEF DropSession
    <2> QED
      BY <2>1, WriteCovers
  <1>5. ASSUME NEW a \in Attempt, NEW payload \in Payload, ObserveAttempt(a, payload)
        PROVE  Goal
    BY <1>5 DEF ObserveAttempt, StoreInv, StoreCoversAnswers, PreviousBootsStayFenced
  <1>6. CASE Flush
    <2>1. answered \subseteq LiveBoots(regs) \cup fenced
      BY DEF StoreInv, StoreCoversAnswers
    <2>2. Told(answered) /\ up /\ UNCHANGED <<epoch, barred>> /\ fenced \subseteq fenced'
      BY <1>6, <2>1 DEF Flush, Told
    <2>3. Saved(Projection(epoch, regs', fenced'))
      BY <1>6 DEF Flush
    <2> QED
      BY <2>2, <2>3, WriteCovers
  <1>7. CASE Crash
    BY <1>7 DEF Crash, StoreInv, StoreCoversAnswers, PreviousBootsStayFenced
  <1>8. CASE Corrupt
    <2>1. ~disk'.readable
      BY <1>8 DEF Corrupt, RegistryInv, TypeOK, DiskImage
    <2> QED
      BY <1>8, <2>1 DEF Corrupt, StoreInv, StoreCoversAnswers, PreviousBootsStayFenced
  <1>9. CASE Open
    BY <1>9, OpenStep
  <1>10. CASE UNCHANGED vars
    BY <1>10 DEF vars, StoreInv, StoreCoversAnswers, PreviousBootsStayFenced
  <1> QED
    BY <1>1, <1>2, <1>3, <1>4, <1>5, <1>6, <1>7, <1>8, <1>9, <1>10 DEF Next

\* Nothing was answered before the first coordinator opens.
LEMMA StoreInit == Init => StoreInv
  BY DEF Init, NoStore, StoreInv, StoreCoversAnswers, PreviousBootsStayFenced

\* Coordinator::open fences every boot that was live or fenced, and said to be
\* so, when an earlier incarnation ended, however registrations, fencings,
\* session losses, failed writes, crashes and restarts interleave, until the
\* store itself becomes unreadable.
THEOREM RestartFences == Spec => []PreviousBootsStayFenced
  <1>1. StoreInv => PreviousBootsStayFenced
    BY DEF StoreInv
  <1>2. RegistryInv /\ StoreInv /\ [Next]_vars => StoreInv'
    BY StoreStep
  <1> QED
    BY <1>1, <1>2, StoreInit, RegistryInit, RegistryStep, PTL DEF Spec

\* A registration or a fencing is answered with success only once the store
\* holds it, and as long as the store is readable no later write, failed write,
\* crash or restart loses it (Coordinator::persist, Coordinator::open).
THEOREM AnswersAreStored == Spec => []StoreCoversAnswers
  <1>1. StoreInv => StoreCoversAnswers
    BY DEF StoreInv
  <1>2. RegistryInv /\ StoreInv /\ [Next]_vars => StoreInv'
    BY StoreStep
  <1> QED
    BY <1>1, <1>2, StoreInit, RegistryInit, RegistryStep, PTL DEF Spec

\* Coordinator::open gives an incarnation that starts from a readable store a
\* larger epoch than the last one, failed writes included.
THEOREM EpochsAdvance == Spec => EpochAdvances
  <1>1. RegistryInv /\ StoreInv /\ [Next]_vars
           => [~up /\ up' /\ disk.readable => epoch' > epoch]_vars
    BY StoreStep
  <1>2. RegistryInv /\ StoreInv /\ [Next]_vars => StoreInv'
    BY StoreStep
  <1> QED
    BY <1>1, <1>2, StoreInit, RegistryInit, RegistryStep, PTL DEF Spec, EpochAdvances
=============================================================================
