----------------------------- MODULE PerPcLock -----------------------------
(***************************************************************************)
(* The per-PC lock of ams-store (ams-store/internal/lock), taken by every  *)
(* verb that writes a store and, on Windows, by the PowerShell compactor   *)
(* (Enter-AmStoreFileLock in scripts/windows/memory-store-lib.ps1).        *)
(*                                                                         *)
(* An attempt is one call of Acquire with the process that makes it: its   *)
(* name stands for the (PID, AcquiredAt) pair the lock file records.  An   *)
(* attempt creates the file at most once, so the file on the path is named *)
(* by the attempt that created it, and it is readable once the holder has  *)
(* been written into it.  Each file operation is one step, so that other   *)
(* processes, a crash and the passing of time come between any two.        *)
(*                                                                         *)
(* Time is counted in ticks.  age[a] is the time since `now` was sampled   *)
(* for attempt a (its AcquiredAt); the age of a holder as another attempt  *)
(* c sees it is therefore age[h] - age[c].  Ages saturate where no test of *)
(* the code can tell a longer one apart.                                   *)
(***************************************************************************)
EXTENDS Naturals, FiniteSets

CONSTANTS
    Attempts,         \* the calls of Acquire
    Kind,             \* Kind[a]: "go" or "compactor"
    Session,          \* Session[a]: the logon session whose mutexes a sees
    Absent,           \* no file on the path
    Operator,         \* the operator's `ams-store lock release|break`
    Posix,            \* mutexes are no-ops, an open file can be unlinked
    StaleAfter,       \* ticks
    BreakGuardStale,  \* ticks
    MaxAcquire,       \* bound: ticks one Acquire may take
    MaxCrashes,       \* bound on crashes
    MaxOperator       \* bound on operator verbs

ASSUME LockAssumption ==
    /\ Kind \in [Attempts -> {"go", "compactor"}]
    /\ Absent \notin Attempts
    /\ Operator \notin Attempts
    /\ Posix \in BOOLEAN
    /\ StaleAfter \in Nat \ {0}
    /\ BreakGuardStale \in Nat
    /\ MaxAcquire \in Nat
    /\ MaxCrashes \in Nat
    /\ MaxOperator \in Nat

VARIABLES
    file,       \* who created the file at Options.Path, or Absent
    written,    \* attempts whose file holds a parseable Holder
    guard,      \* {} or {age} of the .breaking file
    handles,    \* open named-mutex handles, <<attempt, mutex>>
    pc, age,
    second,     \* second[a]: a is in its second create of Acquire's loop
    dead,       \* dead[a]: the holder a has judged dead, or Absent
    opPc,       \* the operator: "idle" or "remove"
    crashes, opVerbs,
    (* observers, read by no action *)
    since,      \* since[p]: who created the file after p's last look at it
    displaced   \* whose file was removed by a process that had not seen it

files   == <<file, written, guard>>
locals  == <<age, second, dead>>
counts  == <<opPc, crashes, opVerbs>>
watched == <<since, displaced>>
vars == <<files, handles, pc, locals, counts, watched>>

Actors == Attempts \cup {Operator}

(* the steps of writeExclusive, of breakDead under the guard, of Acquire   *)
(* and of Release                                                          *)
Writing   == {"write", "close"}
Guarded   == {"check", "remove", "dropRetry", "dropHeld"}
Judging   == {"guard", "check", "remove"}
Acquiring == {"mutex", "create", "read", "guard"} \cup Writing \cup Guarded
Releasing == {"relRead", "relRemove", "relBlind"}
Closing   == {"relMutex"}
Resting   == {"idle", "refused", "done", "exited"}

Init ==
    /\ file = Absent
    /\ written = {}
    /\ guard = {}
    /\ handles = {}
    /\ pc = [a \in Attempts |-> "idle"]
    /\ age = [a \in Attempts |-> 0]
    /\ second = [a \in Attempts |-> FALSE]
    /\ dead = [a \in Attempts |-> Absent]
    /\ opPc = "idle"
    /\ crashes = 0
    /\ opVerbs = 0
    /\ since = [p \in Actors |-> {}]
    /\ displaced = {}

Goto(a, l) == pc' = [pc EXCEPT ![a] = l]

(***************************************************************************)
(* What a process can tell about the file.                                 *)
(***************************************************************************)

\* ReadHolder returns an error: the file exists and does not parse.  The
\* compactor opens its file unshared, so it cannot be read before Dispose.
Unreadable ==
    /\ file # Absent
    /\ file \notin written \/ (Kind[file] = "compactor" /\ pc[file] = "close")

Names(h) == file = h /\ ~Unreadable

\* The age of holder h by the clock sampled lag ticks ago.
Older(h, lag, limit) == age[h] >= lag + limit

\* ProcessAlive: the pid runs and was started when the file says.
ProcessAlive(h) == pc[h] # "exited"

\* Mutant: the holder's age is compared with a window one tick short.
IsLiveShort(h, lag) == ~Older(h, lag, StaleAfter - 1) /\ ProcessAlive(h)

IsLive(h, lag) == ~Older(h, lag, StaleAfter) /\ ProcessAlive(h)

(***************************************************************************)
(* Removing the path.  On Windows the removal of a file somebody still has *)
(* open fails.  since[p] is what was created after p looked; seen is what  *)
(* the remover had looked at: a file outside it that is not the remover's  *)
(* own has been taken from its holder.                                     *)
(***************************************************************************)
Removable == file \in Attempts => Posix \/ pc[file] \notin Writing

Look(p) == since' = [since EXCEPT ![p] = {}]

Seen(p) == Attempts \ since[p]

Unlink(p, seen) ==
    /\ file' = Absent
    /\ displaced' = displaced \cup ({file} \ (seen \cup {p, Absent}))
    /\ Look(p)

CannotUnlink(p) ==
    /\ ~Removable
    /\ Look(p)
    /\ UNCHANGED <<file, displaced>>

\* p is between its look at the file and its removal of the path.
InGap(p) ==
    IF p = Operator THEN opPc = "remove"
                    ELSE pc[p] \in {"remove", "relRemove", "relBlind"}

(***************************************************************************)
(* The named mutexes: MutexName, then LegacyMutexName.  The compactor      *)
(* takes the second one only.  A mutex is held by having a handle open.    *)
(***************************************************************************)
Held(a, m) == \E b \in Attempts : Session[b] = Session[a] /\ <<b, m>> \in handles

\* Mutant: waiting for ownership only; a handle open elsewhere does not count.
acquireMutexUnowned(a, m) == handles' = handles \cup {<<a, m>>}

acquireMutex(a, m) ==
    /\ Posix \/ ~Held(a, m)
    /\ handles' = IF Posix THEN handles ELSE handles \cup {<<a, m>>}

releaseMutexes(a) == handles' = handles \ ({a} \X {"primary", "legacy"})

\* Acquire returns ErrHeld or another error; the caller wakes again later.
Refuse(a) ==
    /\ Goto(a, "refused")
    /\ releaseMutexes(a)
    /\ dead' = [dead EXCEPT ![a] = Absent]
    /\ age' = [age EXCEPT ![a] = 0]
    /\ second' = [second EXCEPT ![a] = FALSE]

\* Acquire, first mutex of a Go process.
TakePrimary(a) ==
    /\ pc[a] = "idle"
    /\ Kind[a] = "go"
    /\ acquireMutex(a, "primary")
    /\ Goto(a, "mutex")
    /\ age' = [age EXCEPT ![a] = 0]
    /\ UNCHANGED <<files, second, dead, counts, watched>>

\* The legacy mutex: the last one of a Go process, GUARD 0 of the compactor.
TakeLegacy(a) ==
    /\ pc[a] = IF Kind[a] = "go" THEN "mutex" ELSE "idle"
    /\ acquireMutex(a, "legacy")
    /\ Goto(a, "create")
    /\ age' = [age EXCEPT ![a] = IF Kind[a] = "go" THEN @ ELSE 0]
    /\ UNCHANGED <<files, second, dead, counts, watched>>

RefuseMutex(a) ==
    /\ \/ /\ pc[a] = "idle"
          /\ Held(a, IF Kind[a] = "go" THEN "primary" ELSE "legacy")
       \/ pc[a] = "mutex" /\ Held(a, "legacy")
    /\ ~Posix
    /\ Refuse(a)
    /\ UNCHANGED <<files, counts, watched>>

(***************************************************************************)
(* writeExclusive.                                                         *)
(***************************************************************************)
Create(a) ==
    /\ pc[a] = "create"
    /\ file = Absent
    /\ file' = a
    /\ since' = [p \in Actors |-> IF InGap(p) THEN since[p] \cup {a} ELSE {}]
    /\ Goto(a, "write")
    /\ UNCHANGED <<written, guard, handles, locals, counts, displaced>>

\* os.ErrExist: look at the holder on the first attempt, yield on the second.
CreateExists(a) ==
    /\ pc[a] = "create"
    /\ file # Absent
    /\ \/ /\ ~second[a]
          /\ Goto(a, "read")
          /\ UNCHANGED <<handles, locals>>
       \/ second[a] /\ Refuse(a)
    /\ UNCHANGED <<files, counts, watched>>

Write(a) ==
    /\ pc[a] = "write"
    /\ written' = written \cup {a}
    /\ Goto(a, "close")
    /\ UNCHANGED <<file, guard, handles, locals, counts, watched>>

\* The write or the fsync fails: a Go process removes the path, whatever is
\* on it by now; the compactor's finally only closes the stream.
WriteFails(a) ==
    /\ pc[a] \in Writing
    /\ \/ Kind[a] = "go" /\ Unlink(a, {})
       \/ Kind[a] = "compactor" /\ UNCHANGED <<file, watched>>
    /\ Goto(a, "failed")
    /\ releaseMutexes(a)
    /\ UNCHANGED <<written, guard, locals, counts>>

Close(a) ==
    /\ pc[a] = "close"
    /\ Goto(a, "held")
    /\ UNCHANGED <<files, handles, locals, counts, watched>>

\* The close fails: the error is returned and the file stays.
CloseFails(a) ==
    /\ pc[a] = "close"
    /\ Goto(a, "failed")
    /\ releaseMutexes(a)
    /\ UNCHANGED <<files, locals, counts, watched>>

(***************************************************************************)
(* Acquire, when the file was there.                                       *)
(***************************************************************************)
\* The file vanished between the create and the read: try once more.
ReadVanished(a) ==
    /\ pc[a] = "read"
    /\ file = Absent
    /\ Goto(a, "create")
    /\ second' = [second EXCEPT ![a] = TRUE]
    /\ UNCHANGED <<files, handles, age, dead, counts, watched>>

ReadRefused(a) ==
    /\ pc[a] = "read"
    /\ file # Absent
    /\ Unreadable \/ IsLive(file, age[a])
    /\ Refuse(a)
    /\ UNCHANGED <<files, counts, watched>>

ReadDead(a) ==
    /\ pc[a] = "read"
    /\ file # Absent
    /\ ~Unreadable
    /\ ~IsLive(file, age[a])
    /\ dead' = [dead EXCEPT ![a] = file]
    /\ Goto(a, "guard")
    /\ UNCHANGED <<files, handles, age, second, counts, watched>>

(***************************************************************************)
(* breakDead.                                                              *)
(***************************************************************************)
TakeGuard(a) ==
    /\ pc[a] = "guard"
    /\ guard = {}
    /\ guard' = {0}
    /\ Goto(a, "check")
    /\ UNCHANGED <<file, written, handles, locals, counts, watched>>

\* Mutant: a contender clears no guard it meets.
GuardTakenKeeps(a) ==
    /\ pc[a] = "guard"
    /\ guard # {}
    /\ Refuse(a)
    /\ UNCHANGED <<files, counts, watched>>

\* Somebody else breaks.  An abandoned guard is cleared; this contender
\* yields in both cases.  Go compares the guard with the clock it sampled at
\* the start of Acquire, the compactor with the current time.
GuardTaken(a) ==
    LET lag == IF Kind[a] = "go" THEN age[a] ELSE 0
    IN  /\ pc[a] = "guard"
        /\ guard # {}
        /\ guard' = {g \in guard : g <= lag + BreakGuardStale}
        /\ Refuse(a)
        /\ UNCHANGED <<file, written, counts, watched>>

\* Mutant: the re-read holder is not compared with the dead one.
StillDeadUnchecked(a) == ~Unreadable

\* Under the guard the holder is read again.
StillDead(a) == file = Absent \/ Names(dead[a])

CheckSame(a) ==
    /\ pc[a] = "check"
    /\ StillDead(a)
    /\ Look(a)
    /\ Goto(a, "remove")
    /\ UNCHANGED <<files, handles, locals, counts, displaced>>

CheckChanged(a) ==
    /\ pc[a] = "check"
    /\ ~StillDead(a)
    /\ Look(a)
    /\ Goto(a, "dropHeld")
    /\ UNCHANGED <<files, handles, locals, counts, displaced>>

RemoveDead(a) ==
    /\ pc[a] = "remove"
    /\ \/ /\ Removable
          /\ Unlink(a, Seen(a))
          /\ Goto(a, "dropRetry")
       \/ CannotUnlink(a) /\ Goto(a, "dropHeld")
    /\ UNCHANGED <<written, guard, handles, locals, counts>>

\* defer os.Remove(guard): the path is removed, whoever created it.
DropGuard(a) ==
    /\ pc[a] \in {"dropRetry", "dropHeld"}
    /\ guard' = {}
    /\ \/ /\ pc[a] = "dropRetry"
          /\ Goto(a, "create")
          /\ second' = [second EXCEPT ![a] = TRUE]
          /\ dead' = [dead EXCEPT ![a] = Absent]
          /\ UNCHANGED <<handles, age>>
       \/ pc[a] = "dropHeld" /\ Refuse(a)
    /\ UNCHANGED <<file, written, counts, watched>>

(***************************************************************************)
(* Release.                                                                *)
(***************************************************************************)
BeginRelease(a) ==
    /\ pc[a] = "held"
    /\ Goto(a, "relRead")
    /\ UNCHANGED <<files, handles, locals, counts, watched>>

\* The file names somebody else: it is theirs.
ReleaseForeign(a) ==
    /\ pc[a] = "relRead"
    /\ file \notin {Absent, a}
    /\ ~Unreadable
    /\ Goto(a, "relMutex")
    /\ UNCHANGED <<files, handles, locals, counts, watched>>

\* The file is absent, names this process, or could not be read: in each
\* case Release goes on to remove it.
ReleaseRead(a) ==
    /\ pc[a] = "relRead"
    /\ file \in {Absent, a} \/ Unreadable
    /\ Look(a)
    /\ Goto(a, IF Unreadable THEN "relBlind" ELSE "relRemove")
    /\ UNCHANGED <<files, handles, locals, counts, displaced>>

ReleaseRemove(a) ==
    /\ pc[a] \in {"relRemove", "relBlind"}
    /\ \/ /\ Removable
          /\ Unlink(a, IF pc[a] = "relRemove" THEN Seen(a) ELSE {})
       \/ CannotUnlink(a)
    /\ Goto(a, "relMutex")
    /\ UNCHANGED <<written, guard, handles, locals, counts>>

\* defer releaseMutexes: legacy, then primary, one after the other.
ReleaseMutexes(a) ==
    /\ pc[a] = "relMutex"
    /\ releaseMutexes(a)
    /\ Goto(a, "done")
    /\ age' = [age EXCEPT ![a] = 0]
    /\ UNCHANGED <<files, second, dead, counts, watched>>

\* The caller's next wake: RetryHeldAfter of the watcher, the next hook.
Retry(a) ==
    /\ pc[a] = "refused"
    /\ Goto(a, "idle")
    /\ UNCHANGED <<files, handles, locals, counts, watched>>

\* The process dies; the kernel closes its handles and nothing else.
Crash(a) ==
    /\ pc[a] \notin Resting
    /\ crashes < MaxCrashes
    /\ crashes' = crashes + 1
    /\ Goto(a, "exited")
    /\ releaseMutexes(a)
    /\ age' = [age EXCEPT ![a] = 0]
    /\ second' = [second EXCEPT ![a] = FALSE]
    /\ dead' = [dead EXCEPT ![a] = Absent]
    /\ UNCHANGED <<files, opPc, opVerbs, watched>>

(***************************************************************************)
(* The operator's verbs: `lock release` refuses an unreadable file and a   *)
(* live holder, and removes without the guard; `lock break` removes        *)
(* whatever is there.                                                      *)
(***************************************************************************)
CliReleaseRead ==
    /\ opPc = "idle"
    /\ opVerbs < MaxOperator
    /\ file # Absent
    /\ ~Unreadable
    /\ ~IsLive(file, 0)
    /\ opVerbs' = opVerbs + 1
    /\ opPc' = "remove"
    /\ Look(Operator)
    /\ UNCHANGED <<files, handles, pc, locals, crashes, displaced>>

CliReleaseRemove ==
    /\ opPc = "remove"
    /\ opPc' = "idle"
    /\ \/ Removable /\ Unlink(Operator, Seen(Operator))
       \/ CannotUnlink(Operator)
    /\ UNCHANGED <<written, guard, handles, pc, locals, crashes, opVerbs>>

Break ==
    /\ opPc = "idle"
    /\ opVerbs < MaxOperator
    /\ opVerbs' = opVerbs + 1
    /\ Removable
    /\ Unlink(Operator, {})
    /\ UNCHANGED <<written, guard, handles, pc, locals, opPc, crashes>>

(***************************************************************************)
(* One tick of the clock.  No Acquire lasts longer than MaxAcquire ticks.  *)
(***************************************************************************)
Cap(n, limit) == IF n < limit THEN n + 1 ELSE limit

Ageing(a) == pc[a] \notin Resting

Tick ==
    /\ \A a \in Attempts : pc[a] \in Acquiring => age[a] < MaxAcquire
    /\ age' = [a \in Attempts |->
                  IF Ageing(a) THEN Cap(age[a], StaleAfter + MaxAcquire) ELSE age[a]]
    /\ guard' = {Cap(g, BreakGuardStale + MaxAcquire + 1) : g \in guard}
    /\ UNCHANGED <<file, written, handles, pc, second, dead, counts, watched>>

Acquire(a) ==
    \/ TakePrimary(a) \/ TakeLegacy(a) \/ RefuseMutex(a)
    \/ Create(a) \/ CreateExists(a) \/ Write(a) \/ Close(a)
    \/ ReadVanished(a) \/ ReadRefused(a) \/ ReadDead(a)
    \/ TakeGuard(a) \/ GuardTaken(a)
    \/ CheckSame(a) \/ CheckChanged(a) \/ RemoveDead(a) \/ DropGuard(a)

Release(a) ==
    \/ ReleaseForeign(a) \/ ReleaseRead(a) \/ ReleaseRemove(a) \/ ReleaseMutexes(a)

Next ==
    \/ \E a \in Attempts :
           \/ Acquire(a) \/ BeginRelease(a) \/ Release(a) \/ Retry(a)
           \/ WriteFails(a) \/ CloseFails(a) \/ Crash(a)
    \/ CliReleaseRead \/ CliReleaseRemove \/ Break
    \/ Tick

Spec == Init /\ [][Next]_vars

\* Processes that are running go on, callers come back, and time passes.
\* Nothing makes a holder finish its work: it may be wedged.
FairSpec ==
    /\ Spec
    /\ \A a \in Attempts : WF_vars(Acquire(a) \/ Release(a) \/ Retry(a))
    /\ WF_vars(Tick)

-----------------------------------------------------------------------------
TypeOK ==
    /\ file \in Attempts \cup {Absent}
    /\ written \subseteq Attempts
    /\ guard \subseteq Nat
    /\ handles \subseteq Attempts \X {"primary", "legacy"}
    /\ pc \in [Attempts -> Acquiring \cup Releasing \cup Closing \cup Resting
                              \cup {"held", "failed"}]
    /\ age \in [Attempts -> Nat]
    /\ second \in [Attempts -> BOOLEAN]
    /\ dead \in [Attempts -> Attempts \cup {Absent}]
    /\ opPc \in {"idle", "remove"}
    /\ crashes \in 0..MaxCrashes
    /\ opVerbs \in 0..MaxOperator
    /\ since \in [Actors -> SUBSET Attempts]
    /\ displaced \subseteq Attempts

Holding(a) == pc[a] = "held"

Fresh(a) == age[a] < StaleAfter

\* Two processes work under the lock at the same time, both within StaleAfter
\* of taking it, only if the file of one of them was removed by a process
\* that had not seen it: it appeared after that process's last look, or there
\* was no look at all (the operator's break, a Release that could not read
\* the file, the clean-up of a failed write).  Neither a dead holder nor a
\* race of contenders for it gives the lock to two otherwise
\* (Acquire, breakDead, Release).
HoldersExclude ==
    \A a, b \in Attempts :
        a # b /\ Holding(a) /\ Holding(b) /\ Fresh(a) /\ Fresh(b)
            => a \in displaced \/ b \in displaced

\* Whoever has created the file and neither failed nor let go, within StaleAfter.
AtWork == {a \in Attempts : pc[a] \in Writing \cup {"held"} /\ Fresh(a)}

Promise == INSTANCE Lease WITH lease <- file, working <- AtWork

\* The lock keeps what Lease promises: the path is taken by a newcomer only when
\* it is free, and the file of an attempt at work is removed only by a process
\* that had not seen it (writeExclusive, breakDead, Release, lockRelease, Break).
ImplementsLease == Promise!Spec

\* In one Windows logon session the named mutexes keep two holders apart
\* whatever becomes of the file: through breaks, staleness, crashes and
\* failed writes, and between ams-store and the compactor (decision Q9).
SameSessionExclude ==
    ~Posix =>
        \A a, b \in Attempts :
            a # b /\ Holding(a) /\ Holding(b) => Session[a] # Session[b]

\* While no Acquire outlasts BreakGuardStale, only one contender at a time is
\* between taking the break guard and dropping it: a guard is only cleared
\* after the death of its owner, and nobody drops another's (breakDead).
OneBreaker ==
    MaxAcquire <= BreakGuardStale =>
        \A a, b \in Attempts : pc[a] \in Guarded /\ pc[b] \in Guarded => a = b

Contender(h) == \E b \in Attempts \ {h} : pc[b] \in Acquiring \cup {"idle", "refused"}

\* A lock file that names its holder does not outlast that holder's silence:
\* released, abandoned by a crash or kept by a wedged process, it leaves the
\* path as long as some other process still comes for the lock, also when a
\* contender dies while breaking it (Acquire, breakDead, IsLive).
GivesWay(h) == Names(h) ~> (~Names(h) \/ ~Contender(h))
=============================================================================
