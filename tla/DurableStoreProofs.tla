-------------------------- MODULE DurableStoreProofs --------------------------
(***************************************************************************)
(* Proofs about DurableStore, for any number of processes, saves, damages  *)
(* and quarantine names: what a coordinator answers from is what the store *)
(* holds, and the file operations implement AtomicStore.                   *)
(***************************************************************************)
EXTENDS DurableStore, TLAPS

\* The parts of the invariant that speak of one process at a time hold for all
\* of them because only the owner of the lock takes steps.
IInv ==
    /\ TypeOK
    /\ LockExcludes
    /\ TemporaryFile
    /\ UnusableExists
    /\ SavesSuccessors
    /\ RenamedHolds

-----------------------------------------------------------------------------
(* The files and the directory have their types *)

\* What the file operations write are files.
LEMMA FilesAreFiles ==
    /\ Absent \in File
    /\ \A n \in Nat : Stored(n) \in File /\ Torn(n) \in File /\ Junk(n) \in File
  BY DEF Absent, Stored, Torn, Junk, File

\* Replacing the file at path, or setting it aside, leaves a directory.
LEMMA DirectoriesAreDirectories ==
    ASSUME NEW d \in Directory, NEW f \in File
    PROVE  /\ Replaced(d, f) \in Directory
           /\ Replaced(d, f).main = f
           /\ [main |-> Absent, aside |-> Keep(d.aside, d.main)] \in Directory
           /\ d.main \in File
  BY FilesAreFiles DEF Directory, Keep, Replaced

-----------------------------------------------------------------------------
(* The invariant is inductive *)

\* A new store is not open anywhere.
LEMMA InitHolds == Init => IInv
  <1> SUFFICES ASSUME Init PROVE IInv
    OBVIOUS
  <1>1. dir \in Directory
    BY FilesAreFiles DEF Init, Directory
  <1>2. TypeOK
    BY <1>1, FilesAreFiles DEF Init, TypeOK, Phase
  <1>3. LockExcludes /\ TemporaryFile /\ UnusableExists /\ SavesSuccessors /\ RenamedHolds
    BY StoreConstants DEF Init, LockExcludes, TemporaryFile, UnusableExists,
                          SavesSuccessors, RenamedHolds
  <1> QED
    BY <1>2, <1>3 DEF IInv

\* Whoever gives the store up leaves nobody open.
LEMMA LeaveHolds ==
    ASSUME IInv, NEW i \in Instance, pc[i] # "closed", Leave(i), UNCHANGED <<config, damages>>,
           dir' \in Directory, stable' \in Directory, tmp' \in File, synced' \in BOOLEAN
    PROVE  IInv'
  <1>1. \A j \in Instance : j # i => pc[j] = "closed"
    BY DEF IInv, LockExcludes
  <1>2. TypeOK'
    BY DEF IInv, TypeOK, Leave, Phase
  <1>3. \A j \in Instance : pc'[j] = "closed"
    BY <1>1 DEF IInv, TypeOK, Leave
  <1>4. \A j \in Instance : ~up'[j]
    BY <1>1 DEF IInv, TypeOK, Leave, SavesSuccessors
  <1>5. LockExcludes'
    BY <1>3, StoreConstants DEF LockExcludes, Leave
  <1>6. TemporaryFile' /\ UnusableExists' /\ SavesSuccessors' /\ RenamedHolds'
    BY <1>3, <1>4 DEF TemporaryFile, UnusableExists, SavesSuccessors, RenamedHolds
  <1> QED
    BY <1>2, <1>5, <1>6 DEF IInv

\* Only the owner of the lock is past closed, and only an owner is open.
LEMMA OthersAreClosed ==
    ASSUME IInv, NEW i \in Instance, pc[i] # "closed", NEW j \in Instance, j # i
    PROVE  pc[j] = "closed" /\ ~up[j]
  BY DEF IInv, TypeOK, LockExcludes, SavesSuccessors

\* A step of process i that keeps the lock preserves the invariant when it does
\* so for i itself.
LEMMA OwnerHolds ==
    ASSUME IInv, NEW i \in Instance, pc[i] # "closed", UNCHANGED lock, TypeOK',
           \A j \in Instance : j # i => pc'[j] = pc[j] /\ up'[j] = up[j],
           pc'[i] # "closed",
           pc'[i] \in {"created", "written", "flushed", "renamed"} => base'[i] < MaxVersion,
           pc'[i] \in {"written", "flushed"} => tmp' = Stored(base'[i] + 1),
           pc'[i] = "flushed" => synced',
           pc'[i] = "unusable" => dir'.main # Absent,
           up'[i] => \/ pc'[i] \in {"idle", "created", "written", "flushed"} /\ Holds(base[i])'
                     \/ pc'[i] = "renamed",
           pc'[i] = "renamed" => Holds(base[i] + 1)'
    PROVE  IInv'
  <1>1. \A j \in Instance : j # i => pc'[j] = "closed" /\ ~up'[j]
    BY OthersAreClosed
  <1>2. LockExcludes'
    BY <1>1 DEF IInv, LockExcludes
  <1>3. TemporaryFile'
    BY <1>1 DEF TemporaryFile
  <1>4. UnusableExists'
    BY <1>1 DEF UnusableExists
  <1>5. SavesSuccessors'
    BY <1>1 DEF SavesSuccessors
  <1>6. RenamedHolds'
    BY <1>1 DEF RenamedHolds
  <1> QED
    BY <1>2, <1>3, <1>4, <1>5, <1>6 DEF IInv

\* Opening: the steps from the lock to the state in memory.
LEMMA OpeningHolds ==
    ASSUME IInv, NEW i \in Instance,
           Acquire(i) \/ Load(i) \/ Quarantine(i) \/ Reload(i)
    PROVE  IInv'
  <1>1. CASE Acquire(i)
    <2>1. TypeOK'
      BY <1>1 DEF IInv, TypeOK, Acquire, files, Phase
    <2>2. \A j \in Instance : pc[j] = "closed" /\ ~up[j]
      BY <1>1, StoreConstants DEF IInv, TypeOK, LockExcludes, SavesSuccessors, Acquire
    <2>3. LockExcludes'
      BY <1>1, <2>2 DEF IInv, TypeOK, LockExcludes, Acquire
    <2>4. \A j \in Instance : pc'[j] \in {"closed", "locked"} /\ ~up'[j]
      BY <1>1, <2>2 DEF IInv, TypeOK, Acquire
    <2>5. TemporaryFile' /\ UnusableExists' /\ SavesSuccessors' /\ RenamedHolds'
      BY <2>4 DEF TemporaryFile, UnusableExists, SavesSuccessors, RenamedHolds
    <2> QED
      BY <2>1, <2>3, <2>5 DEF IInv
  <1>2. CASE Load(i)
    <2>1. ~up[i] /\ pc[i] = "locked"
      BY <1>2 DEF IInv, SavesSuccessors, TypeOK, Load
    <2>2. CASE Leave(i)
      BY <1>2, <2>1, <2>2, LeaveHolds DEF IInv, TypeOK, Load, files
    <2>3. CASE /\ UNCHANGED <<lock, base, up>>
               /\ \/ pc' = [pc EXCEPT ![i] = "opened"]
                  \/ pc' = [pc EXCEPT ![i] = "unusable"] /\ dir.main # Absent
      <3>1. TypeOK'
        BY <1>2, <2>3 DEF IInv, TypeOK, Load, files, Phase
      <3>2. /\ pc'[i] \in {"opened", "unusable"}
            /\ pc'[i] = "unusable" => dir'.main # Absent
        BY <1>2, <2>3 DEF IInv, TypeOK, Load, files
      <3>3. \A j \in Instance : j # i => pc'[j] = pc[j] /\ up'[j] = up[j]
        BY <2>3 DEF IInv, TypeOK
      <3> QED
        BY <2>1, <2>3, <3>1, <3>2, <3>3, OwnerHolds
    <2> QED
      BY <1>2, <2>2, <2>3 DEF Load, Reading
  <1>3. CASE Quarantine(i)
    <2>1. ~up[i] /\ pc[i] = "unusable"
      BY <1>3 DEF IInv, SavesSuccessors, TypeOK, Quarantine
    <2>2. dir' \in Directory
      BY <1>3, DirectoriesAreDirectories DEF IInv, TypeOK, Quarantine
    <2>3. TypeOK'
      BY <1>3, <2>2 DEF IInv, TypeOK, Quarantine, Phase
    <2>4. /\ pc'[i] = "opened"
          /\ UNCHANGED <<lock, up>>
          /\ \A j \in Instance : j # i => pc'[j] = pc[j] /\ up'[j] = up[j]
      BY <1>3 DEF IInv, TypeOK, Quarantine
    <2> QED
      BY <2>1, <2>3, <2>4, OwnerHolds
  <1>4. CASE Reload(i)
    <2>1. ~up[i] /\ pc[i] = "opened"
      BY <1>4 DEF IInv, SavesSuccessors, TypeOK, Reload
    <2>2. CASE Leave(i)
      BY <1>4, <2>1, <2>2, LeaveHolds DEF IInv, TypeOK, Reload, files
    <2>3. CASE /\ UNCHANGED <<lock, up>>
               /\ pc' = [pc EXCEPT ![i] = "idle"]
               /\ \/ base' = [base EXCEPT ![i] = dir.main.version]
                  \/ base' = [base EXCEPT ![i] = 0]
      <3>0. dir.main.version \in Nat
        BY DEF IInv, TypeOK, Directory, File
      <3>1. TypeOK'
        BY <1>4, <2>3, <3>0 DEF IInv, TypeOK, Reload, files, Phase
      <3>2. pc'[i] = "idle"
        BY <2>3 DEF IInv, TypeOK
      <3>3. \A j \in Instance : j # i => pc'[j] = pc[j] /\ up'[j] = up[j]
        BY <2>3 DEF IInv, TypeOK
      <3> QED
        BY <2>1, <2>3, <3>1, <3>2, <3>3, OwnerHolds
    <2> QED
      BY <1>4, <2>2, <2>3 DEF Reload
  <1> QED
    BY <1>1, <1>2, <1>3, <1>4

\* Saving: the temporary file is complete and flushed before it replaces the
\* store.
LEMMA SavingHolds ==
    ASSUME IInv, NEW i \in Instance,
           Create(i) \/ Write(i) \/ Flush(i) \/ Rename(i) \/ Return(i) \/ Fail(i)
    PROVE  IInv'
  <1>0. base[i] + 1 \in Nat
    BY DEF IInv, TypeOK
  <1>1. CASE Create(i)
    <2>1. TypeOK'
      BY <1>0, <1>1, FilesAreFiles DEF IInv, TypeOK, Create, Phase
    <2>2. /\ pc[i] = "idle" /\ pc'[i] = "created"
          /\ \A j \in Instance : j # i => pc'[j] = pc[j] /\ up'[j] = up[j]
          /\ base'[i] < MaxVersion
      BY <1>1 DEF IInv, TypeOK, Create
    <2>3. up'[i] => Holds(base[i])'
      BY <1>1, <2>2 DEF IInv, SavesSuccessors, Holds, Create
    <2> QED
      BY <1>1, <2>1, <2>2, <2>3, OwnerHolds DEF Create
  <1>2. CASE Write(i)
    <2>1. TypeOK'
      BY <1>0, <1>2, FilesAreFiles DEF IInv, TypeOK, Write, Phase
    <2>2. /\ pc[i] = "created" /\ pc'[i] = "written"
          /\ \A j \in Instance : j # i => pc'[j] = pc[j] /\ up'[j] = up[j]
          /\ base'[i] < MaxVersion
          /\ tmp' = Stored(base'[i] + 1)
      BY <1>2 DEF IInv, TypeOK, Write, TemporaryFile
    <2>3. up'[i] => Holds(base[i])'
      BY <1>2, <2>2 DEF IInv, SavesSuccessors, Holds, Write
    <2> QED
      BY <1>2, <2>1, <2>2, <2>3, OwnerHolds DEF Write
  <1>3. CASE Flush(i)
    <2>1. TypeOK'
      BY <1>3 DEF IInv, TypeOK, Flush, Phase
    <2>2. /\ pc[i] = "written" /\ pc'[i] = "flushed"
          /\ \A j \in Instance : j # i => pc'[j] = pc[j] /\ up'[j] = up[j]
          /\ base'[i] < MaxVersion
          /\ tmp' = Stored(base'[i] + 1)
      BY <1>3 DEF IInv, TypeOK, Flush, TemporaryFile
    <2>3. up'[i] => Holds(base[i])'
      BY <1>3, <2>2 DEF IInv, SavesSuccessors, Holds, Flush
    <2> QED
      BY <1>3, <2>1, <2>2, <2>3, OwnerHolds DEF Flush
  <1>4. CASE Rename(i)
    <2>1. /\ pc[i] = "flushed" /\ pc'[i] = "renamed"
          /\ \A j \in Instance : j # i => pc'[j] = pc[j] /\ up'[j] = up[j]
          /\ base'[i] < MaxVersion
          /\ tmp = Stored(base[i] + 1) /\ synced
      BY <1>4 DEF IInv, TypeOK, Rename, TemporaryFile
    <2>2. /\ dir' \in Directory /\ dir'.main = tmp
          /\ stable' \in Directory
          /\ config.platform = "Windows" => stable'.main = tmp
      BY <1>4, <2>1, DirectoriesAreDirectories DEF IInv, TypeOK, Rename, Flushed
    <2>3. TypeOK'
      BY <1>4, <2>2, FilesAreFiles DEF IInv, TypeOK, Rename, Phase
    <2>4. Holds(base[i] + 1)'
      BY <1>4, <2>1, <2>2 DEF Holds, Rename
    <2> QED
      BY <1>4, <2>1, <2>3, <2>4, OwnerHolds DEF Rename
  <1>5. CASE Return(i)
    <2>1. TypeOK'
      BY <1>5 DEF IInv, TypeOK, Return, files, Phase
    <2>2. /\ pc[i] = "renamed" /\ pc'[i] = "idle"
          /\ \A j \in Instance : j # i => pc'[j] = pc[j] /\ up'[j] = up[j]
          /\ base'[i] = base[i] + 1
      BY <1>5 DEF IInv, TypeOK, Return
    <2>3. Holds(base[i])'
      BY <1>5, <2>2 DEF IInv, RenamedHolds, Holds, Return, files
    <2> QED
      BY <1>5, <2>1, <2>2, <2>3, OwnerHolds DEF Return
  <1>6. CASE Fail(i)
    <2>1. pc[i] # "closed" /\ tmp' \in File
      BY <1>6, FilesAreFiles DEF IInv, TypeOK, Fail
    <2>2. CASE ~up[i]
      BY <1>6, <2>1, <2>2, LeaveHolds DEF IInv, TypeOK, Fail, AfterFailure
    <2>3. CASE up[i]
      <3>1. TypeOK'
        BY <1>6, <2>1, <2>3 DEF IInv, TypeOK, Fail, AfterFailure, Phase
      <3>2. /\ pc'[i] = "idle"
            /\ UNCHANGED <<lock, base, up, dir, stable, config>>
            /\ \A j \in Instance : j # i => pc'[j] = pc[j] /\ up'[j] = up[j]
        BY <1>6, <2>3 DEF IInv, TypeOK, Fail, AfterFailure
      <3>3. Holds(base[i])'
        BY <1>6, <2>3, <3>2 DEF IInv, SavesSuccessors, Holds, Fail
      <3> QED
        BY <2>1, <3>1, <3>2, <3>3, OwnerHolds
    <2> QED
      BY <2>2, <2>3
  <1> QED
    BY <1>1, <1>2, <1>3, <1>4, <1>5, <1>6

\* What the environment does: processes die, the power fails, files are damaged.
LEMMA EnvironmentHolds ==
    ASSUME IInv, (\E i \in Instance : Exit(i)) \/ WriteBack \/ PowerLoss \/ Damage
    PROVE  IInv'
  <1>1. ASSUME NEW i \in Instance, Exit(i) PROVE IInv'
    BY <1>1, LeaveHolds DEF IInv, TypeOK, Exit, files
  <1>2. CASE WriteBack
    <2>1. TypeOK'
      BY <1>2 DEF IInv, TypeOK, WriteBack
    <2>2. \A n : Holds(n) => Holds(n)'
      BY <1>2 DEF Holds, WriteBack
    <2>3. LockExcludes' /\ TemporaryFile' /\ UnusableExists'
      BY <1>2 DEF IInv, WriteBack, LockExcludes, TemporaryFile, UnusableExists
    <2>4. SavesSuccessors'
      BY <1>2 DEF IInv, WriteBack, SavesSuccessors, Holds
    <2>5. RenamedHolds'
      BY <1>2 DEF IInv, WriteBack, RenamedHolds, Holds
    <2> QED
      BY <2>1, <2>3, <2>4, <2>5 DEF IInv
  <1>3. CASE PowerLoss
    <2>1. tmp.version \in Nat
      BY DEF IInv, TypeOK, File
    <2>2. TypeOK'
      BY <1>3, <2>1, FilesAreFiles DEF IInv, TypeOK, PowerLoss, Phase
    <2>3. \A j \in Instance : pc'[j] = "closed" /\ ~up'[j]
      BY <1>3 DEF PowerLoss
    <2>4. LockExcludes'
      BY <1>3, <2>3, StoreConstants DEF LockExcludes, PowerLoss
    <2>5. TemporaryFile' /\ UnusableExists' /\ SavesSuccessors' /\ RenamedHolds'
      BY <2>3 DEF TemporaryFile, UnusableExists, SavesSuccessors, RenamedHolds
    <2> QED
      BY <2>2, <2>4, <2>5 DEF IInv
  <1>4. CASE Damage
    <2>0. Junk(damages + 1) \in File
      BY FilesAreFiles DEF IInv, TypeOK
    <2>1. dir' \in Directory /\ stable' \in Directory
      BY <1>4, <2>0, DirectoriesAreDirectories DEF IInv, TypeOK, Damage
    <2>2. TypeOK'
      BY <1>4, <2>1 DEF IInv, TypeOK, Damage
    <2>3. \A j \in Instance : pc'[j] = "closed" /\ ~up'[j]
      BY <1>4, StoreConstants DEF IInv, TypeOK, LockExcludes, SavesSuccessors, Damage
    <2>4. LockExcludes'
      BY <1>4 DEF IInv, LockExcludes, Damage
    <2>5. TemporaryFile' /\ UnusableExists' /\ SavesSuccessors' /\ RenamedHolds'
      BY <2>3 DEF TemporaryFile, UnusableExists, SavesSuccessors, RenamedHolds
    <2> QED
      BY <2>2, <2>4, <2>5 DEF IInv
  <1> QED
    BY <1>1, <1>2, <1>3, <1>4

\* A step that changes nothing preserves the invariant.
LEMMA StutterHolds == IInv /\ UNCHANGED vars => IInv'
  BY DEF IInv, vars, TypeOK, LockExcludes, TemporaryFile, UnusableExists,
         SavesSuccessors, RenamedHolds, Holds

\* The invariant holds in every reachable state.
THEOREM Invariance == Spec => []IInv
  <1>1. IInv /\ [Next]_vars => IInv'
    BY OpeningHolds, SavingHolds, EnvironmentHolds, StutterHolds DEF Next
  <1> QED
    BY InitHolds, <1>1, PTL DEF Spec

\* A coordinator that is not saving answers from the state the store holds, on
\* stable storage too where the replacement is written through.
THEOREM AnswersFromTheStore == Spec => []AckedIsDurable
  <1>1. IInv => AckedIsDurable
    BY DEF IInv, SavesSuccessors, Holds, AckedIsDurable
  <1> QED
    BY Invariance, <1>1, PTL

-----------------------------------------------------------------------------
(* The stored state is not rolled back *)

\* A process that saves found the version it succeeds.
LEMMA FoundVersionHolds ==
    ASSUME IInv, FoundVersion, [Next]_vars
    PROVE  FoundVersion'
  <1> SUFFICES ASSUME ~MayForget', NEW j \in Instance,
                      pc'[j] \in {"idle", "created", "written", "flushed"},
                      dir'.main.kind = "state"
               PROVE  base'[j] = dir'.main.version
    BY DEF FoundVersion
  <1>0. ~MayForget
    BY DEF MayForget, Next, vars, Acquire, Load, Quarantine, Reload, Create, Write, Flush,
           Rename, Return, Fail, Exit, WriteBack, PowerLoss, Damage
  <1>1. \A k \in Instance : pc[k] \in {"idle", "created", "written", "flushed"}
                            /\ dir.main.kind = "state" => base[k] = dir.main.version
    BY <1>0 DEF FoundVersion
  <1>2. CASE UNCHANGED vars \/ WriteBack
    BY <1>1, <1>2 DEF vars, WriteBack
  <1>3. CASE PowerLoss
    BY <1>3 DEF PowerLoss
  <1>4. CASE Damage
    BY <1>4, StoreConstants DEF Damage, IInv, TypeOK, LockExcludes
  <1>5. ASSUME NEW i \in Instance, pc[i] # "closed", Leave(i) PROVE FALSE
    BY <1>5, OthersAreClosed DEF Leave, IInv, TypeOK
  <1>6. ASSUME NEW i \in Instance,
               Acquire(i) \/ Load(i) \/ Quarantine(i) \/ Exit(i)
        PROVE  FALSE
    <2>1. CASE Acquire(i)
      BY <1>6, <2>1, StoreConstants DEF Acquire, IInv, TypeOK, LockExcludes
    <2>2. CASE Load(i)
      <3>1. ~Leave(i)
        BY <1>5, <2>2 DEF Load
      <3>2. pc[i] = "locked" /\ \E phase \in {"opened", "unusable"} : pc' = [pc EXCEPT ![i] = phase]
        BY <2>2, <3>1 DEF Load
      <3> QED
        BY <3>2, OthersAreClosed DEF IInv, TypeOK
    <2>3. CASE Quarantine(i)
      BY <2>3, OthersAreClosed DEF Quarantine, IInv, TypeOK
    <2>4. CASE Exit(i)
      BY <2>4, <1>5 DEF Exit
    <2> QED
      BY <1>6, <2>1, <2>2, <2>3, <2>4
  <1>7. ASSUME NEW i \in Instance, Reload(i) PROVE base'[j] = dir'.main.version
    <2>1. ~Leave(i)
      BY <1>5, <1>7 DEF Reload
    <2>2. PICK outcome \in ReadOutcome :
             /\ Reading(outcome) = "Ok" \/ dir.main = Absent \/ config.allow
             /\ pc' = [pc EXCEPT ![i] = "idle"]
             /\ base' = [base EXCEPT ![i] = IF Reading(outcome) = "Ok" THEN dir.main.version ELSE 0]
      BY <1>7, <2>1 DEF Reload
    <2>3. j = i /\ dir' = dir
      BY <1>7, <2>2, OthersAreClosed DEF Reload, files, IInv, TypeOK
    <2>4. dir.main # Absent
      BY <2>3 DEF Absent
    <2>5. Reading(outcome) = "Ok"
      <3>1. CASE config.allow
        BY <1>0, <2>3, <2>4, <3>1 DEF MayForget, ReadOutcome, Reading
      <3> QED
        BY <2>2, <2>4, <3>1
    <2> QED
      BY <2>2, <2>3, <2>5 DEF IInv, TypeOK
  <1>8. ASSUME NEW i \in Instance, Create(i) \/ Write(i) \/ Flush(i)
        PROVE  base'[j] = dir'.main.version
    <2>1. pc[i] \in {"idle", "created", "written"} /\ UNCHANGED <<dir, base>>
      BY <1>8 DEF Create, Write, Flush
    <2>2. j = i
      BY <1>8, <2>1, OthersAreClosed DEF Create, Write, Flush, IInv, TypeOK
    <2> QED
      BY <1>1, <2>1, <2>2
  <1>9. ASSUME NEW i \in Instance, Rename(i) PROVE FALSE
    BY <1>9, OthersAreClosed DEF Rename, IInv, TypeOK
  <1>10. ASSUME NEW i \in Instance, Return(i) PROVE base'[j] = dir'.main.version
    <2>1. j = i /\ base'[j] = base[i] + 1 /\ dir' = dir
      BY <1>10, OthersAreClosed DEF Return, files, IInv, TypeOK
    <2>2. dir.main = Stored(base[i] + 1)
      BY <1>10 DEF Return, IInv, RenamedHolds, Holds
    <2> QED
      BY <2>1, <2>2 DEF Stored
  <1>11. ASSUME NEW i \in Instance, Fail(i) PROVE base'[j] = dir'.main.version
    <2>1. pc[i] \in {"idle", "created", "written", "flushed"} /\ dir' = dir
      BY <1>11 DEF Fail
    <2>2. ~Leave(i)
      BY <1>5, <2>1
    <2>3. pc' = [pc EXCEPT ![i] = "idle"] /\ UNCHANGED base
      BY <1>11, <2>2 DEF Fail, AfterFailure
    <2>4. j = i
      BY <2>1, <2>3, OthersAreClosed DEF IInv, TypeOK
    <2> QED
      BY <1>1, <2>1, <2>3, <2>4
  <1> QED
    BY <1>2, <1>3, <1>4, <1>6, <1>7, <1>8, <1>9, <1>10, <1>11 DEF Next

\* What is replaced with write-through is replaced on stable storage.
LEMMA WrittenThroughHolds ==
    ASSUME IInv, WrittenThrough, [Next]_vars
    PROVE  WrittenThrough'
  <1>1. CASE UNCHANGED <<config, dir, stable>>
    BY <1>1 DEF WrittenThrough
  <1>2. CASE WriteBack \/ PowerLoss \/ Damage
    BY <1>2 DEF WriteBack, PowerLoss, Damage, WrittenThrough
  <1>3. ASSUME NEW i \in Instance, Quarantine(i) PROVE WrittenThrough'
    BY <1>3 DEF Quarantine, WrittenThrough, Absent
  <1>4. ASSUME NEW i \in Instance, Rename(i) PROVE WrittenThrough'
    <2>1. Flushed = tmp
      BY <1>4 DEF Rename, IInv, TemporaryFile, Flushed
    <2> QED
      BY <1>4, <2>1 DEF Rename, WrittenThrough
  <1>5. ASSUME NEW i \in Instance,
               \/ Acquire(i) \/ Load(i) \/ Reload(i) \/ Create(i) \/ Write(i) \/ Flush(i)
               \/ Return(i) \/ Fail(i) \/ Exit(i)
        PROVE  UNCHANGED <<config, dir, stable>>
    BY <1>5 DEF Acquire, Load, Reload, Create, Write, Flush, Return, Fail, Exit, files
  <1> QED
    BY <1>1, <1>2, <1>3, <1>4, <1>5 DEF Next, vars

\* Only the rename, a loss of power, damage and quarantine change the store,
\* and the rename replaces a version by its successor.
LEMMA StepsNeverDecrease ==
    ASSUME IInv, FoundVersion, WrittenThrough, [Next]_vars,
           dir.main.kind = "state", dir'.main.kind = "state"
    PROVE  \/ dir'.main.version >= dir.main.version
           \/ MayForget
           \/ config.platform = "POSIX" /\ PowerLoss
  <1>0. dir.main.version \in Nat
    BY DEF IInv, TypeOK, Directory, File
  <1>1. CASE UNCHANGED dir
    BY <1>0, <1>1
  <1>2. CASE PowerLoss
    BY <1>0, <1>2 DEF PowerLoss, WrittenThrough, IInv, TypeOK, Config
  <1>3. CASE Damage
    <2>0. Junk(damages + 1) \in File
      BY FilesAreFiles DEF IInv, TypeOK
    <2>1. dir'.main = Junk(damages + 1)
      BY <1>3, <2>0, DirectoriesAreDirectories DEF Damage, IInv, TypeOK
    <2> QED
      BY <2>1 DEF Junk
  <1>4. ASSUME NEW i \in Instance, Quarantine(i) PROVE UNCHANGED dir
    BY <1>4 DEF Quarantine, Absent
  <1>5. ASSUME NEW i \in Instance, Rename(i), ~MayForget
        PROVE  dir'.main.version >= dir.main.version
    <2>1. tmp = Stored(base[i] + 1) /\ base[i] = dir.main.version
      BY <1>5 DEF Rename, IInv, TemporaryFile, FoundVersion
    <2>2. dir'.main = tmp
      BY <1>5, DirectoriesAreDirectories DEF Rename, IInv, TypeOK
    <2> QED
      BY <1>0, <2>1, <2>2 DEF Stored
  <1>6. ASSUME NEW i \in Instance,
               \/ Acquire(i) \/ Load(i) \/ Reload(i) \/ Create(i) \/ Write(i) \/ Flush(i)
               \/ Return(i) \/ Fail(i) \/ Exit(i)
        PROVE  UNCHANGED dir
    BY <1>6 DEF Acquire, Load, Reload, Create, Write, Flush, Return, Fail, Exit, files
  <1>7. WriteBack => UNCHANGED dir
    BY DEF WriteBack
  <1> QED
    BY <1>1, <1>2, <1>3, <1>4, <1>5, <1>6, <1>7 DEF Next, vars

\* By whatever sequence of owners, failed saves and deaths, the stored state is
\* not rolled back, except by a loss of power without write-through or by an
\* opening that may initialise a store it cannot read for the moment.
THEOREM NeverRolledBack == Spec => VersionsNeverDecrease
  <1>1. Init => FoundVersion /\ WrittenThrough
    BY DEF Init, FoundVersion, WrittenThrough, Absent
  <1>2. IInv /\ FoundVersion /\ WrittenThrough /\ [Next]_vars
            => FoundVersion' /\ WrittenThrough'
    BY FoundVersionHolds, WrittenThroughHolds
  <1>3. IInv /\ FoundVersion /\ WrittenThrough /\ [Next]_vars
            => [dir.main.kind = "state" /\ dir'.main.kind = "state" =>
                  \/ dir'.main.version >= dir.main.version
                  \/ MayForget
                  \/ config.platform = "POSIX" /\ PowerLoss]_vars
    BY StepsNeverDecrease
  <1> QED
    BY Invariance, <1>1, <1>2, <1>3, PTL DEF Spec, VersionsNeverDecrease

-----------------------------------------------------------------------------
(* Unreadable bytes are kept *)

\* Setting a file aside keeps what was there, and the file.
LEMMA KeepKeeps ==
    ASSUME NEW aside \in Seq(File), NEW file \in File
    PROVE  /\ ToSet(Keep(aside, file)) = ToSet(aside) \cup {file}
           /\ Len(Keep(aside, file)) = Len(aside) + 1
           /\ Len(aside) \in Nat
  <1>1. /\ Len(Append(aside, file)) = Len(aside) + 1
        /\ Len(aside) \in Nat
        /\ DOMAIN Append(aside, file) = 1..(Len(aside) + 1)
        /\ DOMAIN aside = 1..Len(aside)
        /\ Append(aside, file)[Len(aside) + 1] = file
        /\ \A k \in 1..Len(aside) : Append(aside, file)[k] = aside[k]
    OBVIOUS
  <1>2. ToSet(Append(aside, file)) = ToSet(aside) \cup {file}
    BY <1>1 DEF ToSet
  <1> QED
    BY <1>1, <1>2 DEF Keep

\* Another file at path leaves what was set aside where it is.
LEMMA ReplacedKeeps ==
    ASSUME NEW d \in Directory, NEW f \in File
    PROVE  Replaced(d, f).main = f /\ Replaced(d, f).aside = d.aside
  BY DEF Directory, Replaced

\* The configuration does not change.
LEMMA ConfigFixed == [Next]_vars => UNCHANGED config
  BY DEF Next, vars, Acquire, Load, Quarantine, Reload, Create, Write, Flush,
         Rename, Return, Fail, Exit, WriteBack, PowerLoss, Damage

\* A process that leaves the files alone and opens, or leaves, keeps SaversRead.
LEMMA SaversReadHolds ==
    ASSUME IInv, SaversRead, AsideAccounted, MaxDamages <= MaxQuarantine, [Next]_vars
    PROVE  SaversRead'
  <1> SUFFICES ASSUME ~MayForget', NEW j \in Instance
               PROVE  /\ pc'[j] = "unusable" => config'.allow /\ dir'.main.kind = "junk"
                      /\ pc'[j] = "opened" /\ config'.allow => dir'.main.kind # "junk"
                      /\ pc'[j] \in {"idle", "created", "written", "flushed"}
                            => dir'.main.kind # "junk"
    BY DEF SaversRead
  <1>0. ~MayForget /\ config' = config
    BY ConfigFixed DEF MayForget
  <1>1. ASSUME NEW k \in Instance
        PROVE  /\ pc[k] = "unusable" => config.allow /\ dir.main.kind = "junk"
               /\ pc[k] = "opened" /\ config.allow => dir.main.kind # "junk"
               /\ pc[k] \in {"idle", "created", "written", "flushed"} => dir.main.kind # "junk"
    BY <1>0 DEF SaversRead
  <1>2. CASE pc'[j] = "closed" \/ pc'[j] = "locked" \/ pc'[j] = "renamed"
    BY <1>2
  <1>3. CASE UNCHANGED vars \/ WriteBack
    BY <1>1, <1>3 DEF vars, WriteBack
  <1>4. CASE PowerLoss
    BY <1>4 DEF PowerLoss
  <1>5. CASE Damage
    BY <1>2, <1>5, StoreConstants DEF Damage, IInv, TypeOK, LockExcludes
  <1>6. ASSUME NEW i \in Instance, pc[i] # "closed", Leave(i) PROVE pc'[j] = "closed"
    BY <1>6, OthersAreClosed DEF Leave, IInv, TypeOK
  <1>7. ASSUME NEW i \in Instance, pc[i] # "closed",
               NEW phase, pc' = [pc EXCEPT ![i] = phase]
        PROVE  pc'[j] = "closed" \/ (j = i /\ pc'[j] = phase)
    BY <1>7, OthersAreClosed DEF IInv, TypeOK
  <1>8. ASSUME NEW i \in Instance, Acquire(i) PROVE pc'[j] \in {"closed", "locked"}
    BY <1>8, StoreConstants DEF Acquire, IInv, TypeOK, LockExcludes
  <1>9. ASSUME NEW i \in Instance, Load(i), pc'[j] # "closed"
        PROVE  /\ pc'[j] = "unusable" => config'.allow /\ dir'.main.kind = "junk"
               /\ pc'[j] = "opened" /\ config'.allow => dir'.main.kind # "junk"
               /\ pc'[j] \in {"unusable", "opened"}
    <2>1. PICK outcome \in ReadOutcome :
             \/ /\ Reading(outcome) \in {"Ok", "NotFound"}
                /\ pc' = [pc EXCEPT ![i] = "opened"]
             \/ /\ Reading(outcome) \notin {"Ok", "NotFound"}
                /\ config.allow
                /\ pc' = [pc EXCEPT ![i] = "unusable"]
      BY <1>6, <1>9 DEF Load
    <2>2. pc[i] = "locked" /\ dir' = dir
      BY <1>9 DEF Load, files
    <2>3. config.allow => outcome = "read"
      BY <1>0, <2>1 DEF MayForget, ReadOutcome
    <2>4. dir.main = Absent \/ dir.main.kind \in {"state", "junk"}
      BY <1>0 DEF AsideAccounted, Accounted
    <2>5. config.allow =>
             /\ Reading(outcome) \in {"Ok", "NotFound"} => dir.main.kind # "junk"
             /\ Reading(outcome) \notin {"Ok", "NotFound"} => dir.main.kind = "junk"
      BY <2>3, <2>4 DEF Reading, Absent
    <2>6. CASE pc' = [pc EXCEPT ![i] = "opened"] /\ Reading(outcome) \in {"Ok", "NotFound"}
      BY <1>0, <1>7, <1>9, <2>2, <2>5, <2>6
    <2>7. CASE /\ pc' = [pc EXCEPT ![i] = "unusable"] /\ config.allow
               /\ Reading(outcome) \notin {"Ok", "NotFound"}
      BY <1>0, <1>7, <1>9, <2>2, <2>5, <2>7
    <2> QED
      BY <2>1, <2>6, <2>7
  <1>10. ASSUME NEW i \in Instance, Quarantine(i), pc'[j] # "closed"
         PROVE  pc'[j] = "opened" /\ dir'.main = Absent
    <2>1. pc[i] = "unusable" /\ config.allow /\ dir.main.kind = "junk"
      BY <1>1, <1>10 DEF Quarantine
    <2>2. Len(dir.aside) < MaxQuarantine
      <3>1. Len(dir.aside) < damages /\ damages <= MaxDamages
        BY <1>0, <2>1 DEF AsideAccounted, Accounted
      <3>2. Len(dir.aside) \in Nat /\ damages \in Nat /\ MaxDamages \in Nat /\ MaxQuarantine \in Nat
        BY StoreConstants DEF IInv, TypeOK, Directory
      <3> QED
        BY <3>1, <3>2
    <2>3. ~config.flaky
      BY <1>0, <2>1 DEF MayForget
    <2>4. dir' = [main |-> Absent, aside |-> Keep(dir.aside, dir.main)]
      BY <1>10, <2>2, <2>3 DEF Quarantine
    <2> QED
      BY <1>7, <1>10, <2>1, <2>4 DEF Quarantine
  <1>11. ASSUME NEW i \in Instance, Reload(i), pc'[j] # "closed"
         PROVE  pc'[j] = "idle" /\ dir'.main.kind # "junk"
    <2>1. PICK outcome \in ReadOutcome :
             /\ Reading(outcome) = "Ok" \/ dir.main = Absent \/ config.allow
             /\ pc' = [pc EXCEPT ![i] = "idle"]
      BY <1>6, <1>11 DEF Reload
    <2>2. pc[i] = "opened" /\ dir' = dir
      BY <1>11 DEF Reload, files
    <2>3. dir.main.kind # "junk"
      BY <1>1, <2>1, <2>2 DEF Reading, Absent
    <2> QED
      BY <1>7, <1>11, <2>1, <2>2, <2>3
  <1>12. ASSUME NEW i \in Instance, pc'[j] # "closed",
                Create(i) \/ Write(i) \/ Flush(i) \/ Fail(i) \/ Exit(i)
         PROVE  pc'[j] \in {"idle", "created", "written", "flushed"} /\ dir'.main.kind # "junk"
    <2>1. pc[i] # "closed" /\ dir' = dir
      BY <1>12 DEF Create, Write, Flush, Fail, Exit, files
    <2>2. ~Leave(i)
      BY <1>6, <1>12, <2>1
    <2>3. /\ pc[i] \in {"idle", "created", "written", "flushed"}
          /\ \E phase \in {"idle", "created", "written", "flushed"} : pc' = [pc EXCEPT ![i] = phase]
      BY <1>12, <2>2 DEF Create, Write, Flush, Fail, AfterFailure, Exit
    <2> QED
      BY <1>1, <1>7, <1>12, <2>1, <2>3
  <1>13. ASSUME NEW i \in Instance, Rename(i) PROVE pc'[j] \in {"closed", "renamed"}
    <2>1. pc[i] = "flushed" /\ pc' = [pc EXCEPT ![i] = "renamed"]
      BY <1>13 DEF Rename
    <2> QED
      BY <1>7, <2>1
  <1>14. ASSUME NEW i \in Instance, Return(i), pc'[j] # "closed"
         PROVE  pc'[j] = "idle" /\ dir'.main.kind # "junk"
    <2>1. pc[i] = "renamed" /\ pc' = [pc EXCEPT ![i] = "idle"] /\ dir' = dir
      BY <1>14 DEF Return, files
    <2>2. dir.main = Stored(base[i] + 1)
      BY <2>1 DEF IInv, RenamedHolds, Holds
    <2>3. dir.main.kind = "state"
      BY <2>2 DEF Stored
    <2> QED
      BY <1>7, <1>14, <2>1, <2>3
  <1>15. CASE \E i \in Instance :
                 \/ Acquire(i) \/ Load(i) \/ Quarantine(i) \/ Reload(i)
                 \/ Create(i) \/ Write(i) \/ Flush(i) \/ Rename(i) \/ Return(i) \/ Fail(i)
                 \/ Exit(i)
    <2>1. dir'.main = Absent => dir'.main.kind # "junk"
      BY DEF Absent
    <2> QED
      BY <1>2, <1>8, <1>9, <1>10, <1>11, <1>12, <1>13, <1>14, <1>15, <2>1
  <1> QED
    BY <1>3, <1>4, <1>5, <1>15 DEF Next

\* The files set aside are accounted for, and the unreadable bytes are kept.
LEMMA KeepingHolds ==
    ASSUME IInv, SaversRead, AsideAccounted, UnreadableBytesSurvive,
           MaxDamages <= MaxQuarantine, [Next]_vars
    PROVE  AsideAccounted' /\ UnreadableBytesSurvive'
  <1> SUFFICES ASSUME ~MayForget'
               PROVE  /\ damages' <= MaxDamages
                      /\ Accounted(dir)' /\ Accounted(stable)'
                      /\ \A n \in 1..damages' : Has(dir', n) /\ Has(stable', n)
    BY DEF AsideAccounted, UnreadableBytesSurvive, Has
  <1>0. ~MayForget
    BY ConfigFixed DEF MayForget
  <1>1. /\ damages <= MaxDamages /\ Accounted(dir) /\ Accounted(stable)
        /\ \A n \in 1..damages : Has(dir, n) /\ Has(stable, n)
    BY <1>0 DEF AsideAccounted, UnreadableBytesSurvive
  <1>2. /\ dir \in Directory /\ stable \in Directory /\ damages \in Nat
        /\ dir.aside \in Seq(File) /\ dir.main \in File
        /\ Len(dir.aside) \in Nat /\ Len(stable.aside) \in Nat
        /\ MaxDamages \in Nat
    BY StoreConstants DEF IInv, TypeOK, Directory
  <1>3. CASE UNCHANGED <<dir, stable, damages>>
    BY <1>1, <1>3 DEF Accounted
  <1>4. CASE WriteBack \/ PowerLoss
    BY <1>1, <1>4 DEF WriteBack, PowerLoss, Accounted
  <1>5. CASE Damage
    <2>1. Junk(damages + 1) \in File
      BY <1>2, FilesAreFiles
    <2>2. /\ dir'.main = Junk(damages + 1) /\ dir'.aside = dir.aside
          /\ stable' = dir' /\ damages' = damages + 1
          /\ damages + 1 <= MaxDamages
          /\ dir.main.kind = "state"
      BY <1>2, <1>5, <2>1, ReplacedKeeps DEF Damage
    <2>3. Accounted(dir)' /\ Accounted(stable)'
      BY <1>1, <1>2, <2>2 DEF Accounted, Junk
    <2>4. \A n \in 1..(damages + 1) : Has(dir', n)
      <3>1. \A n : Junk(n) # dir.main
        BY <2>2 DEF Junk
      <3>2. \A n \in 1..damages : Junk(n) \in ToSet(dir.aside)
        BY <1>1, <3>1 DEF Has
      <3> QED
        BY <1>2, <2>2, <3>2 DEF Has
    <2> QED
      BY <2>2, <2>3, <2>4
  <1>6. ASSUME NEW i \in Instance, Quarantine(i), dir' # dir
        PROVE  /\ damages' <= MaxDamages
               /\ Accounted(dir)' /\ Accounted(stable)'
               /\ \A n \in 1..damages' : Has(dir', n) /\ Has(stable', n)
    <2>1. /\ dir' = [main |-> Absent, aside |-> Keep(dir.aside, dir.main)]
          /\ UNCHANGED <<stable, damages>>
      BY <1>6 DEF Quarantine
    <2>2. dir.main.kind = "junk"
      BY <1>0, <1>6 DEF SaversRead, Quarantine
    <2>3. /\ Len(dir'.aside) = Len(dir.aside) + 1
          /\ ToSet(dir'.aside) = ToSet(dir.aside) \cup {dir.main}
          /\ dir'.main = Absent
      BY <1>2, <2>1, KeepKeeps
    <2>4. Accounted(dir)' /\ Accounted(stable)'
      BY <1>1, <1>2, <2>1, <2>2, <2>3 DEF Accounted, Absent
    <2>5. \A n \in 1..damages : Has(dir', n)
      BY <1>1, <2>3 DEF Has
    <2> QED
      BY <1>1, <2>1, <2>4, <2>5
  <1>7. ASSUME NEW i \in Instance, Rename(i)
        PROVE  /\ damages' <= MaxDamages
               /\ Accounted(dir)' /\ Accounted(stable)'
               /\ \A n \in 1..damages' : Has(dir', n) /\ Has(stable', n)
    <2>1. tmp = Stored(base[i] + 1) /\ Flushed = tmp /\ tmp \in File
      BY <1>7 DEF Rename, IInv, TypeOK, TemporaryFile, Flushed
    <2>2. /\ dir'.main = tmp /\ dir'.aside = dir.aside
          /\ stable' = dir' \/ stable' = stable
          /\ UNCHANGED damages
      BY <1>2, <1>7, <2>1, ReplacedKeeps DEF Rename
    <2>3. dir.main.kind # "junk"
      BY <1>0, <1>7 DEF SaversRead, Rename
    <2>4. Accounted(dir)'
      BY <1>1, <2>1, <2>2 DEF Accounted, Stored
    <2>5. \A n \in 1..damages : Has(dir', n)
      <3>1. \A n : Junk(n) # dir.main
        BY <2>3 DEF Junk
      <3> QED
        BY <1>1, <2>2, <3>1 DEF Has
    <2>6. Accounted(stable)'
      BY <1>1, <2>2, <2>4 DEF Accounted
    <2> QED
      BY <1>1, <2>2, <2>4, <2>5, <2>6
  <1>8. ASSUME NEW i \in Instance,
               \/ Acquire(i) \/ Load(i) \/ Reload(i) \/ Create(i) \/ Write(i) \/ Flush(i)
               \/ Return(i) \/ Fail(i) \/ Exit(i)
        PROVE  UNCHANGED <<dir, stable, damages>>
    BY <1>8 DEF Acquire, Load, Reload, Create, Write, Flush, Return, Fail, Exit, files
  <1>9. ASSUME NEW i \in Instance, Quarantine(i), dir' = dir
        PROVE  UNCHANGED <<dir, stable, damages>>
    BY <1>9 DEF Quarantine
  <1> QED
    BY <1>3, <1>4, <1>5, <1>6, <1>7, <1>8, <1>9 DEF Next, vars

\* Unreadable bytes are never discarded, as long as there are quarantine names
\* for as many stores as were damaged.
THEOREM UnreadableBytesKept ==
    ASSUME MaxDamages <= MaxQuarantine
    PROVE  Spec => []UnreadableBytesSurvive
  <1> DEFINE Keeping == SaversRead /\ AsideAccounted /\ UnreadableBytesSurvive
  <1>1. Init => Keeping
    <2> SUFFICES ASSUME Init PROVE Keeping
      OBVIOUS
    <2>1. SaversRead
      BY DEF Init, SaversRead
    <2>2. dir.main = Absent /\ Len(dir.aside) = 0 /\ stable = dir /\ damages = 0
      BY DEF Init
    <2>3. Accounted(dir) /\ Accounted(stable)
      BY <2>2 DEF Accounted, Absent
    <2>4. AsideAccounted
      BY <2>2, <2>3, StoreConstants DEF AsideAccounted
    <2>5. UnreadableBytesSurvive
      BY <2>2 DEF UnreadableBytesSurvive
    <2> QED
      BY <2>1, <2>4, <2>5
  <1>2. IInv /\ Keeping /\ [Next]_vars => Keeping'
    BY SaversReadHolds, KeepingHolds
  <1>3. Keeping => UnreadableBytesSurvive
    OBVIOUS
  <1> QED
    BY Invariance, <1>1, <1>2, <1>3, PTL DEF Spec

-----------------------------------------------------------------------------
(* The file operations implement AtomicStore *)

Calls == [j \in Instance |-> CallOf(j)]

\* A step of process i changes its own call only.
LEMMA CallChanges ==
    ASSUME NEW i \in Instance,
           \A j \in Instance : j # i => pc'[j] = pc[j] /\ base'[j] = base[j]
    PROVE  Calls' = [Calls EXCEPT ![i] = CallOf(i)']
  <1>1. \A j \in Instance : j # i => CallOf(j)' = CallOf(j)
    BY DEF CallOf
  <1> QED
    BY <1>1 DEF Calls

\* The files and the calls of a new store are those of a new abstract store.
LEMMA InitRefines == Init => Atomic!Init
  BY DEF Init, Atomic!Init, Absent, Atomic!Absent, CallOf, Atomic!Closed, Config

\* A process that leaves releases the abstract store.
LEMMA LeaveRefines ==
    ASSUME IInv, NEW i \in Instance, pc[i] # "closed", Leave(i),
           UNCHANGED <<config, dir, stable>>
    PROVE  Atomic!Release(i)
  <1>1. lock = i
    BY DEF IInv, LockExcludes
  <1>2. CallOf(i)' = Atomic!Closed
    BY DEF IInv, TypeOK, Leave, CallOf, Atomic!Closed
  <1>3. Calls' = [Calls EXCEPT ![i] = Atomic!Closed]
    BY <1>2, CallChanges DEF IInv, TypeOK, Leave
  <1> QED
    BY <1>1, <1>3 DEF Leave, Atomic!Release, Calls

\* Opening takes the ownership, and may set the store aside or give it up.
LEMMA OpeningRefines ==
    ASSUME IInv, NEW i \in Instance,
           Acquire(i) \/ Load(i) \/ Quarantine(i) \/ Reload(i)
    PROVE  [Atomic!Next]_(Atomic!vars)
  <1>1. CASE Acquire(i)
    <2>1. CallOf(i)' = Atomic!Ready
      BY <1>1 DEF IInv, TypeOK, Acquire, CallOf, Atomic!Ready
    <2>2. Calls' = [Calls EXCEPT ![i] = Atomic!Ready]
      BY <1>1, <2>1, CallChanges DEF IInv, TypeOK, Acquire
    <2>3. Atomic!Own(i)
      BY <1>1, <2>2 DEF Acquire, files, Atomic!Own, Calls
    <2> QED
      BY <2>3 DEF Atomic!Next
  <1>2. ASSUME UNCHANGED <<config, lock, dir, stable>>, pc[i] \in {"locked", "unusable", "opened"},
               NEW phase \in {"unusable", "opened", "idle"}, pc' = [pc EXCEPT ![i] = phase],
               \A j \in Instance : j # i => base'[j] = base[j]
        PROVE  UNCHANGED Atomic!vars
    <2>1. CallOf(i)' = CallOf(i)
      BY <1>2 DEF IInv, TypeOK, CallOf
    <2>2. Calls' = Calls
      BY <1>2, <2>1, CallChanges DEF IInv, TypeOK, Calls
    <2> QED
      BY <1>2, <2>2 DEF Atomic!vars, Calls
  <1>3. CASE Load(i)
    <2>1. CASE Leave(i)
      BY <1>3, <2>1, LeaveRefines DEF Load, files, Atomic!Next
    <2>2. CASE ~Leave(i)
      <3>1. \E phase \in {"unusable", "opened", "idle"} : pc' = [pc EXCEPT ![i] = phase]
        BY <1>3, <2>2 DEF Load
      <3>2. UNCHANGED <<lock, base>>
        BY <1>3, <2>2 DEF Load
      <3> QED
        BY <1>2, <1>3, <3>1, <3>2 DEF Load, files
    <2> QED
      BY <2>1, <2>2
  <1>4. CASE Quarantine(i)
    <2>1. CASE UNCHANGED dir
      BY <1>2, <1>4, <2>1 DEF Quarantine
    <2>2. CASE dir' = [main |-> Absent, aside |-> Keep(dir.aside, dir.main)]
      <3>1. lock = i /\ dir.main # Atomic!Absent
        BY <1>4 DEF IInv, LockExcludes, UnusableExists, Quarantine, Absent, Atomic!Absent
      <3>2. CallOf(i) = Atomic!Ready /\ CallOf(i)' = CallOf(i)
        BY <1>4 DEF IInv, TypeOK, Quarantine, CallOf, Atomic!Ready
      <3>3. Calls[i] = Atomic!Ready /\ Calls' = Calls
        BY <1>4, <3>2, CallChanges DEF IInv, TypeOK, Quarantine, Calls
      <3>4. Atomic!SetAside(i)
        BY <1>4, <2>2, <3>1, <3>3
        DEF Quarantine, Atomic!SetAside, Calls, Absent, Atomic!Absent, Keep
      <3> QED
        BY <3>4 DEF Atomic!Next
    <2> QED
      BY <1>4, <2>1, <2>2 DEF Quarantine
  <1>5. CASE Reload(i)
    <2>1. CASE Leave(i)
      BY <1>5, <2>1, LeaveRefines DEF Reload, files, Atomic!Next
    <2>2. CASE ~Leave(i)
      <3>1. pc' = [pc EXCEPT ![i] = "idle"] /\ UNCHANGED lock
        BY <1>5, <2>2 DEF Reload
      <3>2. \A j \in Instance : j # i => base'[j] = base[j]
        BY <1>5, <2>2 DEF Reload, IInv, TypeOK
      <3> QED
        BY <1>2, <1>5, <3>1, <3>2 DEF Reload, files
    <2> QED
      BY <2>1, <2>2
  <1> QED
    BY <1>1, <1>3, <1>4, <1>5

\* Saving is one abstract call: it begins when the temporary file is created
\* and is applied by the rename.
LEMMA SavingRefines ==
    ASSUME IInv, NEW i \in Instance,
           Create(i) \/ Write(i) \/ Flush(i) \/ Rename(i) \/ Return(i) \/ Fail(i)
    PROVE  [Atomic!Next]_(Atomic!vars)
  <1>0. base[i] + 1 \in Nat /\ MaxVersion \in Nat
    BY StoreConstants DEF IInv, TypeOK
  <1>1. lock = i
    BY DEF IInv, LockExcludes, Create, Write, Flush, Rename, Return, Fail
  <1>2. CASE Create(i)
    <2>1. CallOf(i) = Atomic!Ready /\ CallOf(i)' = Atomic!Saving(base[i] + 1)
      BY <1>2 DEF IInv, TypeOK, Create, CallOf, Atomic!Ready, Atomic!Saving
    <2>2. Calls' = [Calls EXCEPT ![i] = Atomic!Saving(base[i] + 1)]
      BY <1>2, <2>1, CallChanges DEF IInv, TypeOK, Create
    <2>3. Atomic!Begin(i, base[i] + 1)
      BY <1>1, <1>2, <2>1, <2>2 DEF Create, Atomic!Begin, Calls
    <2>4. base[i] + 1 \in 1..MaxVersion
      BY <1>0, <1>2 DEF Create, IInv, TypeOK
    <2> QED
      BY <2>3, <2>4 DEF Atomic!Next
  <1>3. CASE Write(i) \/ Flush(i)
    <2>1. CallOf(i)' = CallOf(i)
      BY <1>3 DEF IInv, TypeOK, Write, Flush, CallOf
    <2>2. Calls' = Calls
      BY <1>3, <2>1, CallChanges DEF IInv, TypeOK, Write, Flush, Calls
    <2> QED
      BY <1>3, <2>2 DEF Write, Flush, Atomic!vars, Calls
  <1>4. CASE Rename(i)
    <2>1. tmp = Atomic!Stored(base[i] + 1) /\ Flushed = tmp
      BY <1>4 DEF IInv, TemporaryFile, Rename, Flushed, Stored, Atomic!Stored
    <2>2. /\ CallOf(i) = Atomic!Saving(base[i] + 1)
          /\ CallOf(i)' = Atomic!Saved(base[i] + 1)
      BY <1>4 DEF IInv, TypeOK, Rename, CallOf, Atomic!Saving, Atomic!Saved
    <2>3. Calls' = [Calls EXCEPT ![i] = Atomic!Saved(base[i] + 1)]
      BY <1>4, <2>2, CallChanges DEF IInv, TypeOK, Rename
    <2>4. /\ dir' = [dir EXCEPT !.main = Atomic!Stored(base[i] + 1)]
          /\ stable' = IF config.platform = "Windows" THEN dir' ELSE stable
      BY <1>4, <2>1 DEF Rename, Replaced
    <2>5. Atomic!Apply(i, base[i] + 1)
      BY <1>1, <1>4, <2>2, <2>3, <2>4 DEF Rename, Atomic!Apply, Calls
    <2>6. base[i] + 1 \in 1..MaxVersion
      BY <1>0, <1>4 DEF Rename, IInv, TypeOK, TemporaryFile
    <2> QED
      BY <2>5, <2>6 DEF Atomic!Next
  <1>5. ASSUME UNCHANGED <<config, lock, dir, stable>>,
               pc[i] \in {"created", "written", "flushed", "renamed"},
               pc' = [pc EXCEPT ![i] = "idle"],
               \A j \in Instance : j # i => base'[j] = base[j]
        PROVE  Atomic!Next
    <2>1. CallOf(i).phase \in {"saving", "saved"} /\ CallOf(i)' = Atomic!Ready
      BY <1>5 DEF IInv, TypeOK, CallOf, Atomic!Ready
    <2>2. Calls' = [Calls EXCEPT ![i] = Atomic!Ready]
      BY <1>5, <2>1, CallChanges DEF IInv, TypeOK
    <2>3. Atomic!Answer(i)
      BY <1>1, <1>5, <2>1, <2>2 DEF Atomic!Answer, Calls
    <2> QED
      BY <2>3 DEF Atomic!Next
  <1>6. CASE Return(i)
    <2>1. \A j \in Instance : j # i => base'[j] = base[j]
      BY <1>6 DEF Return, IInv, TypeOK
    <2> QED
      BY <1>5, <1>6, <2>1 DEF Return, files
  <1>7. CASE Fail(i)
    <2>1. CASE up[i]
      <3>1. pc[i] \in {"created", "written", "flushed"}
        BY <1>7, <2>1 DEF Fail
      <3> QED
        BY <1>5, <1>7, <2>1, <3>1 DEF Fail, AfterFailure
    <2>2. CASE ~up[i]
      <3>1. pc[i] # "closed"
        BY <1>7 DEF Fail
      <3> QED
        BY <1>7, <2>2, <3>1, LeaveRefines DEF Fail, AfterFailure, Atomic!Next
    <2> QED
      BY <2>1, <2>2
  <1> QED
    BY <1>2, <1>3, <1>4, <1>6, <1>7

\* The environment is that of the abstract store.
LEMMA EnvironmentRefines ==
    ASSUME IInv, (\E i \in Instance : Exit(i)) \/ WriteBack \/ PowerLoss \/ Damage
    PROVE  [Atomic!Next]_(Atomic!vars)
  <1>1. ASSUME NEW i \in Instance, Exit(i) PROVE Atomic!Next
    BY <1>1, LeaveRefines DEF Exit, files, Atomic!Next
  <1>2. CASE WriteBack
    <2>1. Calls' = Calls
      BY <1>2 DEF WriteBack, Calls, CallOf
    <2>2. Atomic!WriteBack
      BY <1>2, <2>1 DEF WriteBack, Atomic!WriteBack, Calls
    <2> QED
      BY <2>2 DEF Atomic!Next
  <1>3. CASE PowerLoss
    <2>1. Calls' = [j \in Instance |-> Atomic!Closed]
      BY <1>3 DEF PowerLoss, Calls, CallOf, Atomic!Closed
    <2>2. Atomic!PowerLoss
      BY <1>3, <2>1 DEF PowerLoss, Atomic!PowerLoss, Calls
    <2> QED
      BY <2>2 DEF Atomic!Next
  <1>4. CASE Damage
    <2>1. Calls' = Calls
      BY <1>4 DEF Damage, Calls, CallOf
    <2>2. damages + 1 \in 1..MaxDamages
      BY <1>4, StoreConstants DEF Damage, IInv, TypeOK
    <2>3. dir' = [dir EXCEPT !.main = Atomic!Junk(damages + 1)]
      BY <1>4 DEF Damage, Replaced, Junk, Atomic!Junk
    <2>4. Atomic!Damage
      BY <1>4, <2>1, <2>2, <2>3 DEF Damage, Atomic!Damage, Calls
    <2> QED
      BY <2>4 DEF Atomic!Next
  <1> QED
    BY <1>1, <1>2, <1>3, <1>4

\* The store implements AtomicStore: a save takes effect in one step or not at
\* all, for the owner of the lock only, whatever fails between two of its file
\* operations.
THEOREM RefinesAtomicStore == Spec => ImplementsAtomicStore
  <1>1. IInv /\ [Next]_vars => [Atomic!Next]_(Atomic!vars)
    <2>1. CASE UNCHANGED vars
      <3>1. Calls' = Calls
        BY <2>1 DEF vars, Calls, CallOf
      <3> QED
        BY <2>1, <3>1 DEF vars, Atomic!vars, Calls
    <2> QED
      BY <2>1, OpeningRefines, SavingRefines, EnvironmentRefines DEF Next
  <1> QED
    BY InitRefines, Invariance, <1>1, PTL DEF Spec, ImplementsAtomicStore, Atomic!Spec
===============================================================================
