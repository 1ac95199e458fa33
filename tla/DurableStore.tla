----------------------------- MODULE DurableStore -----------------------------
(***************************************************************************)
(* The durable store (persistence.cpp) as Coordinator::open and persist    *)
(* use it, file operation by file operation: the lock file, the two loads  *)
(* of an opening, quarantine, and the replacement of the store through a   *)
(* temporary file.  A process may die and the power may fail between any   *)
(* two operations, every write may fail, and the store may be damaged      *)
(* while nobody owns it.                                                   *)
(*                                                                         *)
(* A PersistentState is reduced to a version: the coordinator saves        *)
(* successors of the state it found, so a version that goes back is a      *)
(* state that was rolled back.  A save that validation or the record size  *)
(* limit refuses touches no file and is a stuttering step.                 *)
(*                                                                         *)
(* Instances are processes: on POSIX the lock excludes other processes     *)
(* only.                                                                   *)
(***************************************************************************)
EXTENDS Naturals, Sequences, SequencesExt

CONSTANTS
    Instance,       \* processes that open the store
    Nobody,         \* the owner of a store that is free
    MaxQuarantine,  \* quarantine names tried, 64 in the code
    MaxVersion,     \* bound: saves
    MaxDamages      \* bound: damage done to the store

\* The platform of the build, CoordinatorConfig::allow_initialize, and whether
\* opening or renaming a file may fail for reasons of the moment.
Config == [platform : {"Windows", "POSIX"}, allow : BOOLEAN, flaky : BOOLEAN]

ASSUME StoreConstants ==
    /\ Nobody \notin Instance
    /\ {MaxQuarantine, MaxVersion, MaxDamages} \subseteq Nat

VARIABLES
    config,     \* the build and its configuration, fixed
    lock,       \* who holds path + ".lock"
    dir,        \* the file at path and the quarantine files, as processes see them
    stable,     \* the same as a loss of power would leave them
    tmp,        \* the file at path + ".tmp"
    synced,     \* were the bytes of tmp flushed to stable storage?
    pc,         \* where each process is
    base,       \* the version in the memory of each process
    up,         \* has Coordinator::open returned a coordinator?
    damages     \* how often the store was damaged

vars == <<config, lock, dir, stable, tmp, synced, pc, base, up, damages>>
files == <<dir, stable, tmp, synced>>

\* A file: missing, a complete envelope, one that was not completely written,
\* or unreadable bytes.
Absent == [kind |-> "absent", version |-> 0]
Stored(n) == [kind |-> "state", version |-> n]
Torn(n) == [kind |-> "torn", version |-> n]
Junk(n) == [kind |-> "junk", version |-> n]
File == [kind : {"absent", "state", "torn", "junk"}, version : Nat]
Directory == [main : File, aside : Seq(File)]

Phase == {"closed", "locked", "unusable", "opened", "idle",
          "created", "written", "flushed", "renamed"}

-----------------------------------------------------------------------------
(* Opening *)

\* read_file: the file is read, cannot be opened (a sharing violation, no
\* descriptor left), or cannot be read once it is open.
ReadOutcome == IF config.flaky THEN {"read", "unopened", "unread"} ELSE {"read"}

\* DurableStore::load.  A file that cannot be opened is reported as missing on
\* POSIX, and as existing on Windows.
Reading(outcome) ==
    CASE dir.main = Absent -> "NotFound"
      [] dir.main # Absent /\ outcome = "read" ->
            IF dir.main.kind = "state" THEN "Ok" ELSE "PersistenceCorrupt"
      [] dir.main # Absent /\ outcome # "read" ->
            IF outcome = "unopened" /\ config.platform = "POSIX"
            THEN "NotFound" ELSE "PersistenceUnavailable"

\* Mutant: the lock file is opened but not locked.
AcquireAnyway(i) ==
    /\ pc[i] = "closed"
    /\ lock' = i
    /\ pc' = [pc EXCEPT ![i] = "locked"]
    /\ UNCHANGED files /\ UNCHANGED <<config, base, up, damages>>

\* acquire_store_lock: refused while another owner is alive.
Acquire(i) ==
    /\ pc[i] = "closed"
    /\ lock = Nobody
    /\ lock' = i
    /\ pc' = [pc EXCEPT ![i] = "locked"]
    /\ UNCHANGED files /\ UNCHANGED <<config, base, up, damages>>

\* The process gives the store up: ~DurableStore, or the operating system.
Leave(i) ==
    /\ lock' = Nobody
    /\ pc' = [pc EXCEPT ![i] = "closed"]
    /\ base' = [base EXCEPT ![i] = 0]
    /\ up' = [up EXCEPT ![i] = FALSE]

\* DurableStore::open: the load that decides whether the store is usable.
Load(i) ==
    /\ pc[i] = "locked"
    /\ \E outcome \in ReadOutcome :
          \/ /\ Reading(outcome) \in {"Ok", "NotFound"}
             /\ pc' = [pc EXCEPT ![i] = "opened"]
             /\ UNCHANGED <<lock, base, up>>
          \/ /\ Reading(outcome) \notin {"Ok", "NotFound"}
             /\ config.allow
             /\ pc' = [pc EXCEPT ![i] = "unusable"]
             /\ UNCHANGED <<lock, base, up>>
          \/ /\ Reading(outcome) \notin {"Ok", "NotFound"}
             /\ ~config.allow
             /\ Leave(i)
    /\ UNCHANGED files /\ UNCHANGED <<config, damages>>

\* Mutant: the quarantine file of an earlier failure is replaced.
ReplacesAside(aside, file) == <<file>>

Keep(aside, file) == Append(aside, file)

\* The loop over the quarantine names: the first free one is used, and the
\* error of the rename is not looked at.
Quarantine(i) ==
    /\ pc[i] = "unusable"
    /\ \E renamed \in {TRUE, ~config.flaky} :
          dir' = IF renamed /\ Len(dir.aside) < MaxQuarantine
                 THEN [main |-> Absent, aside |-> Keep(dir.aside, dir.main)]
                 ELSE dir
    /\ pc' = [pc EXCEPT ![i] = "opened"]
    /\ UNCHANGED <<config, lock, stable, tmp, synced, base, up, damages>>

\* Coordinator::open: exists() and a second load.  A store that cannot be read
\* now is ignored when allow_initialize is set.
Reload(i) ==
    /\ pc[i] = "opened"
    /\ \E outcome \in ReadOutcome :
          \/ /\ Reading(outcome) = "Ok" \/ dir.main = Absent \/ config.allow
             /\ pc' = [pc EXCEPT ![i] = "idle"]
             /\ base' = [base EXCEPT ![i] = IF Reading(outcome) = "Ok" THEN dir.main.version ELSE 0]
             /\ UNCHANGED <<lock, up>>
          \/ /\ Reading(outcome) # "Ok" /\ dir.main # Absent /\ ~config.allow
             /\ Leave(i)
    /\ UNCHANGED files /\ UNCHANGED <<config, damages>>

-----------------------------------------------------------------------------
(* Saving: atomic_write *)

\* The temporary file is created, or truncated when an earlier save left one.
Create(i) ==
    /\ pc[i] = "idle"
    /\ base[i] < MaxVersion
    /\ tmp' = Torn(base[i] + 1)
    /\ synced' = FALSE
    /\ pc' = [pc EXCEPT ![i] = "created"]
    /\ UNCHANGED <<config, lock, dir, stable, base, up, damages>>

\* Mutant: written bytes count as flushed.
WriteWithoutFlush(i) ==
    /\ pc[i] = "created"
    /\ tmp' = Stored(base[i] + 1)
    /\ pc' = [pc EXCEPT ![i] = "flushed"]
    /\ UNCHANGED <<config, lock, dir, stable, synced, base, up, damages>>

Write(i) ==
    /\ pc[i] = "created"
    /\ tmp' = Stored(base[i] + 1)
    /\ pc' = [pc EXCEPT ![i] = "written"]
    /\ UNCHANGED <<config, lock, dir, stable, synced, base, up, damages>>

Flush(i) ==
    /\ pc[i] = "written"
    /\ synced' = TRUE
    /\ pc' = [pc EXCEPT ![i] = "flushed"]
    /\ UNCHANGED <<config, lock, dir, stable, tmp, base, up, damages>>

\* The directory with another file at path.
Replaced(d, file) == [d EXCEPT !.main = file]

\* What stable storage has of the temporary file.
Flushed == IF synced THEN tmp ELSE Torn(tmp.version)

\* The replacement.  Windows writes it through (MOVEFILE_WRITE_THROUGH); POSIX
\* does not sync the directory, so the old name may come back.
Rename(i) ==
    /\ pc[i] = "flushed"
    /\ dir' = Replaced(dir, tmp)
    /\ stable' = IF config.platform = "Windows" THEN Replaced(dir, Flushed) ELSE stable
    /\ tmp' = Absent
    /\ pc' = [pc EXCEPT ![i] = "renamed"]
    /\ UNCHANGED <<config, lock, synced, base, up, damages>>

\* save answers with success; the first one completes Coordinator::open.
Return(i) ==
    /\ pc[i] = "renamed"
    /\ pc' = [pc EXCEPT ![i] = "idle"]
    /\ base' = [base EXCEPT ![i] = @ + 1]
    /\ up' = [up EXCEPT ![i] = TRUE]
    /\ UNCHANGED files /\ UNCHANGED <<config, lock, damages>>

\* Mutant: the memory advances although the save failed.
AdvancesAnyway(i) ==
    /\ pc' = [pc EXCEPT ![i] = "idle"]
    /\ base' = [base EXCEPT ![i] = @ + 1]
    /\ UNCHANGED <<lock, up>>

\* A running coordinator stays on the state it had; one that is not open yet
\* is given up.
AfterFailure(i) ==
    IF up[i]
    THEN pc' = [pc EXCEPT ![i] = "idle"] /\ UNCHANGED <<lock, base, up>>
    ELSE Leave(i)

\* An operation of the save failed: the temporary file is deleted.
Fail(i) ==
    /\ \/ pc[i] \in {"created", "written", "flushed"}
       \/ pc[i] = "idle" /\ ~up[i]
    /\ tmp' = IF pc[i] = "idle" THEN tmp ELSE Absent
    /\ AfterFailure(i)
    /\ UNCHANGED <<config, dir, stable, synced, damages>>

-----------------------------------------------------------------------------
(* The environment *)

\* The process closes the store or is killed; files stay as they are.
Exit(i) ==
    /\ pc[i] # "closed"
    /\ Leave(i)
    /\ UNCHANGED files /\ UNCHANGED <<config, damages>>

\* The file system writes its directory back.
WriteBack ==
    /\ stable # dir
    /\ stable' = dir
    /\ UNCHANGED <<config, lock, dir, tmp, synced, pc, base, up, damages>>

PowerLoss ==
    /\ dir' = stable
    /\ tmp' \in {Absent, Torn(tmp.version)}
    /\ synced' = FALSE
    /\ lock' = Nobody
    /\ pc' = [i \in Instance |-> "closed"]
    /\ base' = [i \in Instance |-> 0]
    /\ up' = [i \in Instance |-> FALSE]
    /\ UNCHANGED <<config, stable, damages>>

Damage ==
    /\ lock = Nobody
    /\ dir.main.kind = "state"
    /\ damages < MaxDamages
    /\ damages' = damages + 1
    /\ dir' = Replaced(dir, Junk(damages + 1))
    /\ stable' = dir'
    /\ UNCHANGED <<config, lock, tmp, synced, pc, base, up>>

-----------------------------------------------------------------------------
Init ==
    /\ config \in Config
    /\ lock = Nobody
    /\ dir = [main |-> Absent, aside |-> <<>>]
    /\ stable = dir
    /\ tmp = Absent
    /\ synced = FALSE
    /\ pc = [i \in Instance |-> "closed"]
    /\ base = [i \in Instance |-> 0]
    /\ up = [i \in Instance |-> FALSE]
    /\ damages = 0

Next ==
    \/ \E i \in Instance :
          \/ Acquire(i) \/ Load(i) \/ Quarantine(i) \/ Reload(i)
          \/ Create(i) \/ Write(i) \/ Flush(i) \/ Rename(i) \/ Return(i) \/ Fail(i)
          \/ Exit(i)
    \/ WriteBack
    \/ PowerLoss
    \/ Damage

Spec == Init /\ [][Next]_vars

-----------------------------------------------------------------------------
(* Properties *)

\* How the abstract store sees a process: the file operations of a save are
\* one call, which takes effect when the temporary file is renamed.
CallOf(i) ==
    CASE pc[i] = "closed" -> [phase |-> "closed", version |-> 0]
      [] pc[i] \in {"created", "written", "flushed"} ->
            [phase |-> "saving", version |-> base[i] + 1]
      [] pc[i] = "renamed" -> [phase |-> "saved", version |-> base[i] + 1]
      [] OTHER -> [phase |-> "open", version |-> 0]

Atomic == INSTANCE AtomicStore
    WITH Version <- 1..MaxVersion,
         Garbage <- 1..MaxDamages,
         writeThrough <- (config.platform = "Windows"),
         owner <- lock,
         durable <- stable,
         call <- [i \in Instance |-> CallOf(i)]

\* The store implements AtomicStore: whatever dies or fails between two file
\* operations, nobody ever finds a state that is half written, or one that a
\* process other than the owner wrote (persistence.hpp, "Durable store with
\* atomic replacement and a durability barrier").
ImplementsAtomicStore == Atomic!Spec

\* A coordinator that is not saving answers from the state the store holds,
\* and where the replacement is written through also from the one that a loss
\* of power would leave ("save only reports success after the bytes are on
\* stable storage").
AckedIsDurable ==
    \A i \in Instance :
        up[i] /\ pc[i] = "idle" =>
            /\ dir.main = Stored(base[i])
            /\ config.platform = "Windows" => stable.main = Stored(base[i])

\* A store that cannot be read for the moment is replaced by a new one.
MayForget == config.allow /\ config.flaky

\* The stored state is never rolled back while the store stays readable, by
\* whatever sequence of owners ("A second coordinator on the same store would
\* be able to roll the durable epoch backwards"); without write-through a loss
\* of power may do it, and so may an opening that may initialise the store when
\* its second load fails.
VersionsNeverDecrease ==
    [][dir.main.kind = "state" /\ dir'.main.kind = "state" =>
          \/ dir'.main.version >= dir.main.version
          \/ MayForget
          \/ config.platform = "POSIX" /\ PowerLoss]_vars

Has(d, n) == Junk(n) = d.main \/ Junk(n) \in ToSet(d.aside)

\* Unreadable bytes are somewhere, in the store or in quarantine, now and after
\* a loss of power ("Recovery never silently discards evidence"), unless
\* moving them away fails and the opening goes on.
UnreadableBytesSurvive ==
    ~MayForget => \A n \in 1..damages : Has(dir, n) /\ Has(stable, n)

-----------------------------------------------------------------------------
(* The inductive invariant behind the safety properties *)

\* The types of the files and of the processes.
TypeOK ==
    /\ config \in Config
    /\ lock \in Instance \cup {Nobody}
    /\ dir \in Directory /\ stable \in Directory
    /\ tmp \in File
    /\ synced \in BOOLEAN
    /\ pc \in [Instance -> Phase]
    /\ base \in [Instance -> Nat]
    /\ up \in [Instance -> BOOLEAN]
    /\ damages \in Nat

\* A process that is not closed holds the lock.
LockExcludes == \A i \in Instance : pc[i] # "closed" <=> lock = i

\* What the temporary file holds at each point of a save.
TemporaryFile ==
    \A i \in Instance :
        /\ pc[i] \in {"created", "written", "flushed", "renamed"} => base[i] < MaxVersion
        /\ pc[i] \in {"written", "flushed"} => tmp = Stored(base[i] + 1)
        /\ pc[i] = "flushed" => synced

\* A process that found its store unusable has one.
UnusableExists == \A i \in Instance : pc[i] = "unusable" => dir.main # Absent

\* A coordinator that is open saves successors of what the store holds.
Holds(version) ==
    /\ dir.main = Stored(version)
    /\ config.platform = "Windows" => stable.main = Stored(version)
SavesSuccessors ==
    \A i \in Instance : up[i] =>
        \/ pc[i] \in {"idle", "created", "written", "flushed"} /\ Holds(base[i])
        \/ pc[i] = "renamed"
RenamedHolds == \A i \in Instance : pc[i] = "renamed" => Holds(base[i] + 1)

\* A process that may save has in memory the version the store holds.
FoundVersion ==
    ~MayForget => \A i \in Instance :
        pc[i] \in {"idle", "created", "written", "flushed"} /\ dir.main.kind = "state" =>
            base[i] = dir.main.version

\* Where replacements are written through, a state survives a loss of power.
WrittenThrough ==
    config.platform = "Windows" /\ dir.main.kind = "state" => stable.main = dir.main

\* Every file that was set aside is one that damage left, as long as no file
\* is taken for unreadable that is not.
Accounted(d) ==
    /\ d.main = Absent \/ d.main.kind \in {"state", "junk"}
    /\ Len(d.aside) <= damages
    /\ d.main.kind = "junk" => Len(d.aside) < damages
AsideAccounted ==
    ~MayForget => damages <= MaxDamages /\ Accounted(dir) /\ Accounted(stable)

\* Nobody who found unreadable bytes gets as far as saving.
SaversRead ==
    ~MayForget => \A i \in Instance :
        /\ pc[i] = "unusable" => config.allow /\ dir.main.kind = "junk"
        /\ pc[i] = "opened" /\ config.allow => dir.main.kind # "junk"
        /\ pc[i] \in {"idle", "created", "written", "flushed"} => dir.main.kind # "junk"
===============================================================================
