------------------------- MODULE PerPcLock_proofs -------------------------
(***************************************************************************)
(* Proofs about PerPcLock, for every set of attempts, every assignment of  *)
(* kinds and sessions, both platforms, and all windows and bounds.         *)
(*                                                                         *)
(* HoldersExclude is not inductive: the strengthening says who may be on   *)
(* the path at each step of a removal.  A breaker between its second look  *)
(* and its removal finds the dead holder or a newcomer, a releaser its own *)
(* file or a newcomer, and whoever was judged dead stays so.               *)
(***************************************************************************)
EXTENDS PerPcLock, TLAPS

USE DEF Goto, files, locals, counts, watched

-----------------------------------------------------------------------------
(* The inductive invariant. *)

\* The steps of an attempt that has created the file.
Created == Writing \cup Releasing \cup Closing \cup {"held", "failed", "done", "exited"}

\* The file on the path was created by an attempt that got that far.
FileInv == file \in Attempts => pc[file] \in Created

\* The lock of h may be taken from it: the process is gone or the window over.
Doomed(h) ==
    /\ pc[h] \in Created
    /\ pc[h] \in {"done", "exited"} \/ age[h] >= StaleAfter

\* A holder judged dead is doomed, and stays so while it is being broken.
JudgedInv == \A a \in Attempts :
    pc[a] \in Judging => dead[a] \in Attempts /\ Doomed(dead[a])

\* What a remover can meet on the path: what it saw, or a newcomer.
BreakGap == \A a \in Attempts :
    pc[a] = "remove" /\ file # Absent /\ file \notin since[a] => file = dead[a]

ReleaseGap == \A a \in Attempts :
    pc[a] = "relRemove" /\ file # Absent /\ file \notin since[a] => file = a

OperatorGap ==
    opPc = "remove" /\ file # Absent /\ file \notin since[Operator] => Doomed(file)

\* A holder still has its file, or lost it to one that had not seen it, or is
\* past the window.
OwnInv == \A a \in Attempts :
    pc[a] \in Writing \cup {"held"} =>
        file = a \/ a \in displaced \/ age[a] >= StaleAfter

\* The mutexes: a handle is open from the legacy mutex on, one per session.
Locked == (Acquiring \ {"mutex"}) \cup {"held"} \cup Releasing \cup Closing

HandleInv == ~Posix => \A a \in Attempts : pc[a] \in Locked => <<a, "legacy">> \in handles

MutexInv == \A a, b \in Attempts : \A m \in {"primary", "legacy"} :
    <<a, m>> \in handles /\ <<b, m>> \in handles /\ Session[a] = Session[b] => a = b

\* The guard is on disk while its only owner works, and no older than the
\* owner's Acquire.
AcquireInv == \A a \in Attempts : pc[a] \in Acquiring => age[a] <= MaxAcquire

GuardInv == MaxAcquire <= BreakGuardStale =>
    \A a \in Attempts : pc[a] \in Guarded =>
        guard # {} /\ \A g \in guard : g <= age[a]

-----------------------------------------------------------------------------
(* Type correctness. *)


\* Every step keeps the type invariant.
LEMMA TypeStep == TypeOK /\ [Next]_vars => TypeOK'
<1> SUFFICES ASSUME TypeOK, [Next]_vars PROVE TypeOK'
    OBVIOUS
<1> USE LockAssumption DEF TypeOK, Acquiring, Releasing, Closing, Resting,
       Writing, Guarded, Actors
<1>1. ASSUME NEW a \in Attempts, TakePrimary(a) PROVE TypeOK'
    BY <1>1 DEF TakePrimary, acquireMutex
<1>2. ASSUME NEW a \in Attempts, TakeLegacy(a) PROVE TypeOK'
    BY <1>2 DEF TakeLegacy, acquireMutex
<1>3. ASSUME NEW a \in Attempts, RefuseMutex(a) PROVE TypeOK'
    BY <1>3 DEF RefuseMutex, Refuse, releaseMutexes
<1>4. ASSUME NEW a \in Attempts, Create(a) PROVE TypeOK'
    BY <1>4 DEF Create
<1>5. ASSUME NEW a \in Attempts, CreateExists(a) PROVE TypeOK'
    <2>1. CASE second[a]
        <3>1. Refuse(a) /\ UNCHANGED <<files, counts, watched>>
            BY <1>5, <2>1 DEF CreateExists, DropGuard
        <3>2. guard' = guard \/ guard' = {}
            BY <1>5, <2>1 DEF CreateExists, DropGuard
        <3> QED
            BY <3>1, <3>2 DEF Refuse, releaseMutexes
    <2>2. CASE ~(second[a])
        BY <1>5, <2>2 DEF CreateExists, DropGuard
    <2> QED
        BY <2>1, <2>2
<1>6. ASSUME NEW a \in Attempts, Write(a) PROVE TypeOK'
    BY <1>6 DEF Write
<1>7. ASSUME NEW a \in Attempts, Close(a) PROVE TypeOK'
    BY <1>7 DEF Close
<1>8. ASSUME NEW a \in Attempts, ReadVanished(a) PROVE TypeOK'
    BY <1>8 DEF ReadVanished
<1>9. ASSUME NEW a \in Attempts, ReadRefused(a) PROVE TypeOK'
    BY <1>9 DEF ReadRefused, Refuse, releaseMutexes
<1>10. ASSUME NEW a \in Attempts, ReadDead(a) PROVE TypeOK'
    BY <1>10 DEF ReadDead
<1>11. ASSUME NEW a \in Attempts, TakeGuard(a) PROVE TypeOK'
    BY <1>11 DEF TakeGuard
<1>12. ASSUME NEW a \in Attempts, GuardTaken(a) PROVE TypeOK'
    BY <1>12 DEF GuardTaken, Refuse, releaseMutexes
<1>13. ASSUME NEW a \in Attempts, CheckSame(a) PROVE TypeOK'
    BY <1>13 DEF CheckSame, Look
<1>14. ASSUME NEW a \in Attempts, CheckChanged(a) PROVE TypeOK'
    BY <1>14 DEF CheckChanged, Look
<1>15. ASSUME NEW a \in Attempts, RemoveDead(a) PROVE TypeOK'
    BY <1>15 DEF RemoveDead, Unlink, CannotUnlink, Look
<1>16. ASSUME NEW a \in Attempts, DropGuard(a) PROVE TypeOK'
    <2>1. CASE pc[a] = "dropHeld"
        <3>1. Refuse(a) /\ UNCHANGED <<file, written, counts, watched>>
            BY <1>16, <2>1 DEF CreateExists, DropGuard
        <3>2. guard' = guard \/ guard' = {}
            BY <1>16, <2>1 DEF CreateExists, DropGuard
        <3> QED
            BY <3>1, <3>2 DEF Refuse, releaseMutexes
    <2>2. CASE ~(pc[a] = "dropHeld")
        <3>1. /\ guard' = {} /\ Goto(a, "create")
              /\ second' = [second EXCEPT ![a] = TRUE]
              /\ dead' = [dead EXCEPT ![a] = Absent]
              /\ UNCHANGED <<handles, age, file, written, counts, watched>>
            BY <1>16, <2>2 DEF DropGuard
        <3> QED
            BY <3>1
    <2> QED
        BY <2>1, <2>2
<1>17. ASSUME NEW a \in Attempts, BeginRelease(a) PROVE TypeOK'
    BY <1>17 DEF BeginRelease
<1>18. ASSUME NEW a \in Attempts, ReleaseForeign(a) PROVE TypeOK'
    BY <1>18 DEF ReleaseForeign
<1>19. ASSUME NEW a \in Attempts, ReleaseRead(a) PROVE TypeOK'
    BY <1>19 DEF ReleaseRead, Look
<1>20. ASSUME NEW a \in Attempts, ReleaseRemove(a) PROVE TypeOK'
    BY <1>20 DEF ReleaseRemove, Unlink, CannotUnlink, Look
<1>21. ASSUME NEW a \in Attempts, ReleaseMutexes(a) PROVE TypeOK'
    BY <1>21 DEF ReleaseMutexes, releaseMutexes
<1>22. ASSUME NEW a \in Attempts, Retry(a) PROVE TypeOK'
    BY <1>22 DEF Retry
<1>23. ASSUME NEW a \in Attempts, WriteFails(a) PROVE TypeOK'
    BY <1>23 DEF WriteFails, Unlink, Look, releaseMutexes
<1>24. ASSUME NEW a \in Attempts, CloseFails(a) PROVE TypeOK'
    BY <1>24 DEF CloseFails, releaseMutexes
<1>25. ASSUME NEW a \in Attempts, Crash(a) PROVE TypeOK'
    BY <1>25 DEF Crash, releaseMutexes
<1>26. CASE CliReleaseRead
    BY <1>26 DEF CliReleaseRead, Look
<1>27. CASE CliReleaseRemove
    BY <1>27 DEF CliReleaseRemove, Unlink, CannotUnlink, Look
<1>28. CASE Break
    BY <1>28 DEF Break, Unlink, Look
<1>29. CASE Tick
    BY <1>29 DEF Tick, Cap
<1>30. CASE UNCHANGED vars
    BY <1>30 DEF vars
<1> QED
    BY <1>1, <1>2, <1>3, <1>4, <1>5, <1>6, <1>7, <1>8, <1>9, <1>10, <1>11,
       <1>12, <1>13, <1>14, <1>15, <1>16, <1>17, <1>18, <1>19, <1>20, <1>21,
       <1>22, <1>23, <1>24, <1>25, <1>26, <1>27, <1>28, <1>29, <1>30 DEF
       Next, Acquire, Release

\* The lock protocol stays within its types, for all bounds (Acquire, breakDead,
\* Release, Break and the operator's verbs).
THEOREM LockTypeCorrect == Spec => []TypeOK
<1>1. Init => TypeOK
    BY LockAssumption DEF Init, TypeOK, Actors, Resting
<1> QED
    BY <1>1, TypeStep, PTL DEF Spec


\* Only Create puts a file on the path, and a creator never goes back to Acquire.
LEMMA FileStep == TypeOK /\ FileInv /\ [Next]_vars => FileInv'
<1> SUFFICES ASSUME TypeOK /\ FileInv, [Next]_vars PROVE FileInv'
    OBVIOUS
<1> USE LockAssumption DEF TypeOK, FileInv, Created, Acquiring, Releasing,
       Closing, Resting, Writing, Guarded
<1>1. ASSUME NEW a \in Attempts,
           TakePrimary(a) \/ TakeLegacy(a) \/ RefuseMutex(a)
     PROVE  FileInv'
    BY <1>1 DEF TakePrimary, acquireMutex, TakeLegacy, RefuseMutex, Refuse,
       releaseMutexes
<1>2. ASSUME NEW a \in Attempts,
           Create(a) \/ Write(a) \/ Close(a) \/ WriteFails(a) \/
           CloseFails(a)
     PROVE  FileInv'
    BY <1>2 DEF Create, Write, Close, WriteFails, Unlink, Look,
       releaseMutexes, CloseFails
<1>3. ASSUME NEW a \in Attempts, CreateExists(a) PROVE FileInv'
    BY <1>3 DEF CreateExists, Refuse, releaseMutexes
<1>4. ASSUME NEW a \in Attempts,
           ReadVanished(a) \/ ReadRefused(a) \/ ReadDead(a)
     PROVE  FileInv'
    BY <1>4 DEF ReadVanished, ReadRefused, Refuse, releaseMutexes, ReadDead
<1>5. ASSUME NEW a \in Attempts,
           TakeGuard(a) \/ CheckSame(a) \/ CheckChanged(a) \/
           RemoveDead(a)
     PROVE  FileInv'
    BY <1>5 DEF TakeGuard, CheckSame, Look, CheckChanged, RemoveDead,
       Unlink, CannotUnlink
<1>6. ASSUME NEW a \in Attempts, GuardTaken(a) PROVE FileInv'
    BY <1>6 DEF GuardTaken, Refuse, releaseMutexes
<1>7. ASSUME NEW a \in Attempts, DropGuard(a) PROVE FileInv'
    BY <1>7 DEF DropGuard, Refuse, releaseMutexes
<1>8. ASSUME NEW a \in Attempts,
           BeginRelease(a) \/ ReleaseForeign(a) \/ ReleaseRead(a) \/
           ReleaseRemove(a) \/ ReleaseMutexes(a)
     PROVE  FileInv'
    BY <1>8 DEF BeginRelease, ReleaseForeign, ReleaseRead, Look,
       ReleaseRemove, Unlink, CannotUnlink, ReleaseMutexes, releaseMutexes
<1>9. ASSUME NEW a \in Attempts,
           Retry(a) \/ Crash(a)
     PROVE  FileInv'
    BY <1>9 DEF Retry, Crash, releaseMutexes
<1>10. CASE CliReleaseRead \/ CliReleaseRemove \/ Break
    BY <1>10 DEF CliReleaseRead, Look, CliReleaseRemove, Unlink,
       CannotUnlink, Break
<1>11. CASE Tick
    BY <1>11 DEF Tick, Cap
<1>12. CASE UNCHANGED vars
    BY <1>12 DEF vars
<1> QED
    BY <1>1, <1>2, <1>3, <1>4, <1>5, <1>6, <1>7, <1>8, <1>9, <1>10, <1>11,
       <1>12 DEF Next, Acquire, Release

\* IsLive said no: gone or past the window by an older clock; both are stable.
LEMMA JudgedStep == TypeOK /\ FileInv /\ JudgedInv /\ [Next]_vars => JudgedInv'
<1> SUFFICES ASSUME TypeOK /\ FileInv /\ JudgedInv, [Next]_vars PROVE JudgedInv'
    OBVIOUS
<1> USE LockAssumption DEF TypeOK, JudgedInv, FileInv, Doomed, Judging,
       Created, Acquiring, Releasing, Closing, Resting, Writing, Guarded
<1>1. ASSUME NEW a \in Attempts,
           TakePrimary(a) \/ TakeLegacy(a) \/ RefuseMutex(a)
     PROVE  JudgedInv'
    BY <1>1 DEF TakePrimary, acquireMutex, TakeLegacy, RefuseMutex, Refuse,
       releaseMutexes
<1>2. ASSUME NEW a \in Attempts,
           Create(a) \/ Write(a) \/ Close(a) \/ WriteFails(a) \/
           CloseFails(a)
     PROVE  JudgedInv'
    BY <1>2 DEF Create, Write, Close, WriteFails, Unlink, Look,
       releaseMutexes, CloseFails
<1>3. ASSUME NEW a \in Attempts, CreateExists(a) PROVE JudgedInv'
    BY <1>3 DEF CreateExists, Refuse, releaseMutexes
<1>4. ASSUME NEW a \in Attempts,
           ReadVanished(a) \/ ReadRefused(a) \/ ReadDead(a)
     PROVE  JudgedInv'
    BY <1>4 DEF ReadVanished, ReadRefused, Refuse, releaseMutexes, ReadDead,
       IsLive, Older, ProcessAlive, Unreadable
<1>5. ASSUME NEW a \in Attempts,
           TakeGuard(a) \/ CheckSame(a) \/ CheckChanged(a) \/
           RemoveDead(a)
     PROVE  JudgedInv'
    BY <1>5 DEF TakeGuard, CheckSame, Look, CheckChanged, RemoveDead,
       Unlink, CannotUnlink
<1>6. ASSUME NEW a \in Attempts, GuardTaken(a) PROVE JudgedInv'
    BY <1>6 DEF GuardTaken, Refuse, releaseMutexes
<1>7. ASSUME NEW a \in Attempts, DropGuard(a) PROVE JudgedInv'
    BY <1>7 DEF DropGuard, Refuse, releaseMutexes
<1>8. ASSUME NEW a \in Attempts,
           BeginRelease(a) \/ ReleaseForeign(a) \/ ReleaseRead(a) \/
           ReleaseRemove(a) \/ ReleaseMutexes(a)
     PROVE  JudgedInv'
    BY <1>8 DEF BeginRelease, ReleaseForeign, ReleaseRead, Look,
       ReleaseRemove, Unlink, CannotUnlink, ReleaseMutexes, releaseMutexes
<1>9. ASSUME NEW a \in Attempts,
           Retry(a) \/ Crash(a)
     PROVE  JudgedInv'
    BY <1>9 DEF Retry, Crash, releaseMutexes
<1>10. CASE CliReleaseRead \/ CliReleaseRemove \/ Break
    BY <1>10 DEF CliReleaseRead, Look, CliReleaseRemove, Unlink,
       CannotUnlink, Break
<1>11. CASE Tick
    BY <1>11 DEF Tick, Cap, Ageing
<1>12. CASE UNCHANGED vars
    BY <1>12 DEF vars
<1> QED
    BY <1>1, <1>2, <1>3, <1>4, <1>5, <1>6, <1>7, <1>8, <1>9, <1>10, <1>11,
       <1>12 DEF Next, Acquire, Release

\* CheckSame saw the dead holder or nothing; whatever comes later is in since.
LEMMA BreakGapStep == TypeOK /\ BreakGap /\ [Next]_vars => BreakGap'
<1> SUFFICES ASSUME TypeOK /\ BreakGap, [Next]_vars PROVE BreakGap'
    OBVIOUS
<1> USE LockAssumption DEF TypeOK, BreakGap, Actors, Created, Acquiring,
       Releasing, Closing, Resting, Writing, Guarded
<1>1. ASSUME NEW a \in Attempts,
           TakePrimary(a) \/ TakeLegacy(a) \/ RefuseMutex(a)
     PROVE  BreakGap'
    BY <1>1 DEF TakePrimary, acquireMutex, TakeLegacy, RefuseMutex, Refuse,
       releaseMutexes
<1>2. ASSUME NEW a \in Attempts,
           Create(a) \/ Write(a) \/ Close(a) \/ WriteFails(a) \/
           CloseFails(a)
     PROVE  BreakGap'
    BY <1>2 DEF Create, InGap, Actors, Write, Close, WriteFails, Unlink,
       Look, releaseMutexes, CloseFails
<1>3. ASSUME NEW a \in Attempts, CreateExists(a) PROVE BreakGap'
    BY <1>3 DEF CreateExists, Refuse, releaseMutexes
<1>4. ASSUME NEW a \in Attempts,
           ReadVanished(a) \/ ReadRefused(a) \/ ReadDead(a)
     PROVE  BreakGap'
    BY <1>4 DEF ReadVanished, ReadRefused, Refuse, releaseMutexes, ReadDead
<1>5. ASSUME NEW a \in Attempts,
           TakeGuard(a) \/ CheckSame(a) \/ CheckChanged(a) \/
           RemoveDead(a)
     PROVE  BreakGap'
    BY <1>5 DEF TakeGuard, CheckSame, Look, StillDead, Names, CheckChanged,
       RemoveDead, Unlink, CannotUnlink
<1>6. ASSUME NEW a \in Attempts, GuardTaken(a) PROVE BreakGap'
    BY <1>6 DEF GuardTaken, Refuse, releaseMutexes
<1>7. ASSUME NEW a \in Attempts, DropGuard(a) PROVE BreakGap'
    BY <1>7 DEF DropGuard, Refuse, releaseMutexes
<1>8. ASSUME NEW a \in Attempts,
           BeginRelease(a) \/ ReleaseForeign(a) \/ ReleaseRead(a) \/
           ReleaseRemove(a) \/ ReleaseMutexes(a)
     PROVE  BreakGap'
    BY <1>8 DEF BeginRelease, ReleaseForeign, ReleaseRead, Look,
       ReleaseRemove, Unlink, CannotUnlink, ReleaseMutexes, releaseMutexes
<1>9. ASSUME NEW a \in Attempts,
           Retry(a) \/ Crash(a)
     PROVE  BreakGap'
    BY <1>9 DEF Retry, Crash, releaseMutexes
<1>10. CASE CliReleaseRead \/ CliReleaseRemove \/ Break
    BY <1>10 DEF CliReleaseRead, Look, CliReleaseRemove, Unlink,
       CannotUnlink, Break
<1>11. CASE Tick
    BY <1>11 DEF Tick, Cap
<1>12. CASE UNCHANGED vars
    BY <1>12 DEF vars
<1> QED
    BY <1>1, <1>2, <1>3, <1>4, <1>5, <1>6, <1>7, <1>8, <1>9, <1>10, <1>11,
       <1>12 DEF Next, Acquire, Release

\* ReleaseRead saw its own file or nothing; whatever comes later is in since.
LEMMA ReleaseGapStep == TypeOK /\ ReleaseGap /\ [Next]_vars => ReleaseGap'
<1> SUFFICES ASSUME TypeOK /\ ReleaseGap, [Next]_vars PROVE ReleaseGap'
    OBVIOUS
<1> USE LockAssumption DEF TypeOK, ReleaseGap, Actors, Created, Acquiring,
       Releasing, Closing, Resting, Writing, Guarded
<1>1. ASSUME NEW a \in Attempts,
           TakePrimary(a) \/ TakeLegacy(a) \/ RefuseMutex(a)
     PROVE  ReleaseGap'
    BY <1>1 DEF TakePrimary, acquireMutex, TakeLegacy, RefuseMutex, Refuse,
       releaseMutexes
<1>2. ASSUME NEW a \in Attempts,
           Create(a) \/ Write(a) \/ Close(a) \/ WriteFails(a) \/
           CloseFails(a)
     PROVE  ReleaseGap'
    BY <1>2 DEF Create, InGap, Actors, Write, Close, WriteFails, Unlink,
       Look, releaseMutexes, CloseFails
<1>3. ASSUME NEW a \in Attempts, CreateExists(a) PROVE ReleaseGap'
    BY <1>3 DEF CreateExists, Refuse, releaseMutexes
<1>4. ASSUME NEW a \in Attempts,
           ReadVanished(a) \/ ReadRefused(a) \/ ReadDead(a)
     PROVE  ReleaseGap'
    BY <1>4 DEF ReadVanished, ReadRefused, Refuse, releaseMutexes, ReadDead
<1>5. ASSUME NEW a \in Attempts,
           TakeGuard(a) \/ CheckSame(a) \/ CheckChanged(a) \/
           RemoveDead(a)
     PROVE  ReleaseGap'
    BY <1>5 DEF TakeGuard, CheckSame, Look, CheckChanged, RemoveDead,
       Unlink, CannotUnlink
<1>6. ASSUME NEW a \in Attempts, GuardTaken(a) PROVE ReleaseGap'
    BY <1>6 DEF GuardTaken, Refuse, releaseMutexes
<1>7. ASSUME NEW a \in Attempts, DropGuard(a) PROVE ReleaseGap'
    BY <1>7 DEF DropGuard, Refuse, releaseMutexes
<1>8. ASSUME NEW a \in Attempts,
           BeginRelease(a) \/ ReleaseForeign(a) \/ ReleaseRead(a) \/
           ReleaseRemove(a) \/ ReleaseMutexes(a)
     PROVE  ReleaseGap'
    BY <1>8 DEF BeginRelease, ReleaseForeign, ReleaseRead, Look,
       ReleaseRemove, Unlink, CannotUnlink, ReleaseMutexes, releaseMutexes
<1>9. ASSUME NEW a \in Attempts,
           Retry(a) \/ Crash(a)
     PROVE  ReleaseGap'
    BY <1>9 DEF Retry, Crash, releaseMutexes
<1>10. CASE CliReleaseRead \/ CliReleaseRemove \/ Break
    BY <1>10 DEF CliReleaseRead, Look, CliReleaseRemove, Unlink,
       CannotUnlink, Break
<1>11. CASE Tick
    BY <1>11 DEF Tick, Cap
<1>12. CASE UNCHANGED vars
    BY <1>12 DEF vars
<1> QED
    BY <1>1, <1>2, <1>3, <1>4, <1>5, <1>6, <1>7, <1>8, <1>9, <1>10, <1>11,
       <1>12 DEF Next, Acquire, Release

\* CliReleaseRead saw a holder that is not live; it stays doomed.
LEMMA OperatorGapStep == TypeOK /\ FileInv /\ OperatorGap /\ [Next]_vars => OperatorGap'
<1> SUFFICES ASSUME TypeOK /\ FileInv /\ OperatorGap, [Next]_vars PROVE OperatorGap'
    OBVIOUS
<1> USE LockAssumption DEF TypeOK, OperatorGap, Actors, FileInv, Doomed,
       Created, Acquiring, Releasing, Closing, Resting, Writing, Guarded
<1>1. ASSUME NEW a \in Attempts,
           TakePrimary(a) \/ TakeLegacy(a) \/ RefuseMutex(a)
     PROVE  OperatorGap'
    BY <1>1 DEF TakePrimary, acquireMutex, TakeLegacy, RefuseMutex, Refuse,
       releaseMutexes
<1>2. ASSUME NEW a \in Attempts,
           Create(a) \/ Write(a) \/ Close(a) \/ WriteFails(a) \/
           CloseFails(a)
     PROVE  OperatorGap'
    BY <1>2 DEF Create, InGap, Actors, Write, Close, WriteFails, Unlink,
       Look, releaseMutexes, CloseFails
<1>3. ASSUME NEW a \in Attempts, CreateExists(a) PROVE OperatorGap'
    BY <1>3 DEF CreateExists, Refuse, releaseMutexes
<1>4. ASSUME NEW a \in Attempts,
           ReadVanished(a) \/ ReadRefused(a) \/ ReadDead(a)
     PROVE  OperatorGap'
    BY <1>4 DEF ReadVanished, ReadRefused, Refuse, releaseMutexes, ReadDead
<1>5. ASSUME NEW a \in Attempts,
           TakeGuard(a) \/ CheckSame(a) \/ CheckChanged(a) \/
           RemoveDead(a)
     PROVE  OperatorGap'
    BY <1>5 DEF TakeGuard, CheckSame, Look, CheckChanged, RemoveDead,
       Unlink, CannotUnlink
<1>6. ASSUME NEW a \in Attempts, GuardTaken(a) PROVE OperatorGap'
    BY <1>6 DEF GuardTaken, Refuse, releaseMutexes
<1>7. ASSUME NEW a \in Attempts, DropGuard(a) PROVE OperatorGap'
    BY <1>7 DEF DropGuard, Refuse, releaseMutexes
<1>8. ASSUME NEW a \in Attempts,
           BeginRelease(a) \/ ReleaseForeign(a) \/ ReleaseRead(a) \/
           ReleaseRemove(a) \/ ReleaseMutexes(a)
     PROVE  OperatorGap'
    BY <1>8 DEF BeginRelease, ReleaseForeign, ReleaseRead, Look,
       ReleaseRemove, Unlink, CannotUnlink, ReleaseMutexes, releaseMutexes
<1>9. ASSUME NEW a \in Attempts,
           Retry(a) \/ Crash(a)
     PROVE  OperatorGap'
    BY <1>9 DEF Retry, Crash, releaseMutexes
<1>10. CASE CliReleaseRead \/ CliReleaseRemove \/ Break
    BY <1>10 DEF CliReleaseRead, Look, IsLive, Older, ProcessAlive,
       Unreadable, CliReleaseRemove, Unlink, CannotUnlink, Break
<1>11. CASE Tick
    BY <1>11 DEF Tick, Cap, Ageing
<1>12. CASE UNCHANGED vars
    BY <1>12 DEF vars
<1> QED
    BY <1>1, <1>2, <1>3, <1>4, <1>5, <1>6, <1>7, <1>8, <1>9, <1>10, <1>11,
       <1>12 DEF Next, Acquire, Release

\* A holder loses its file by its own release, to a remover that had not seen it
\* (displaced), or to one that rightly judged it dead (past the window).
LEMMA OwnStep == TypeOK /\ FileInv /\ JudgedInv /\ BreakGap /\ ReleaseGap /\ OperatorGap /\ OwnInv /\ [Next]_vars => OwnInv'
<1> SUFFICES ASSUME TypeOK /\ FileInv /\ JudgedInv /\ BreakGap /\ ReleaseGap /\ OperatorGap /\ OwnInv, [Next]_vars PROVE OwnInv'
    OBVIOUS
<1> USE LockAssumption DEF TypeOK, OwnInv, FileInv, JudgedInv, BreakGap,
       ReleaseGap, OperatorGap, Doomed, Judging, Created, Acquiring,
       Releasing, Closing, Resting, Writing, Guarded
<1>1. ASSUME NEW a \in Attempts,
           TakePrimary(a) \/ TakeLegacy(a) \/ RefuseMutex(a)
     PROVE  OwnInv'
    BY <1>1 DEF TakePrimary, acquireMutex, TakeLegacy, RefuseMutex, Refuse,
       releaseMutexes
<1>2. ASSUME NEW a \in Attempts,
           Create(a) \/ Write(a) \/ Close(a) \/ WriteFails(a) \/
           CloseFails(a)
     PROVE  OwnInv'
    BY <1>2 DEF Create, Write, Close, WriteFails, Unlink, Look,
       releaseMutexes, CloseFails
<1>3. ASSUME NEW a \in Attempts, CreateExists(a) PROVE OwnInv'
    BY <1>3 DEF CreateExists, Refuse, releaseMutexes
<1>4. ASSUME NEW a \in Attempts,
           ReadVanished(a) \/ ReadRefused(a) \/ ReadDead(a)
     PROVE  OwnInv'
    BY <1>4 DEF ReadVanished, ReadRefused, Refuse, releaseMutexes, ReadDead
<1>5. ASSUME NEW a \in Attempts,
           TakeGuard(a) \/ CheckSame(a) \/ CheckChanged(a) \/
           RemoveDead(a)
     PROVE  OwnInv'
    BY <1>5 DEF TakeGuard, CheckSame, Look, CheckChanged, RemoveDead,
       Unlink, CannotUnlink, Seen
<1>6. ASSUME NEW a \in Attempts, GuardTaken(a) PROVE OwnInv'
    BY <1>6 DEF GuardTaken, Refuse, releaseMutexes
<1>7. ASSUME NEW a \in Attempts, DropGuard(a) PROVE OwnInv'
    BY <1>7 DEF DropGuard, Refuse, releaseMutexes
<1>8. ASSUME NEW a \in Attempts,
           BeginRelease(a) \/ ReleaseForeign(a) \/ ReleaseRead(a) \/
           ReleaseRemove(a) \/ ReleaseMutexes(a)
     PROVE  OwnInv'
    BY <1>8 DEF BeginRelease, ReleaseForeign, ReleaseRead, Look,
       ReleaseRemove, Unlink, CannotUnlink, Seen, ReleaseMutexes,
       releaseMutexes
<1>9. ASSUME NEW a \in Attempts,
           Retry(a) \/ Crash(a)
     PROVE  OwnInv'
    BY <1>9 DEF Retry, Crash, releaseMutexes
<1>10. CASE CliReleaseRead \/ CliReleaseRemove \/ Break
    BY <1>10 DEF CliReleaseRead, Look, CliReleaseRemove, Unlink,
       CannotUnlink, Seen, Break
<1>11. CASE Tick
    BY <1>11 DEF Tick, Cap, Ageing
<1>12. CASE UNCHANGED vars
    BY <1>12 DEF vars
<1> QED
    BY <1>1, <1>2, <1>3, <1>4, <1>5, <1>6, <1>7, <1>8, <1>9, <1>10, <1>11,
       <1>12 DEF Next, Acquire, Release

\* The handle is opened by TakeLegacy and closed with the attempt.
LEMMA HandleStep == TypeOK /\ HandleInv /\ [Next]_vars => HandleInv'
<1> SUFFICES ASSUME TypeOK /\ HandleInv, [Next]_vars PROVE HandleInv'
    OBVIOUS
<1> USE LockAssumption DEF TypeOK, HandleInv, Locked, Acquiring, Releasing,
       Closing, Resting, Writing, Guarded
<1>1. ASSUME NEW a \in Attempts,
           TakePrimary(a) \/ TakeLegacy(a) \/ RefuseMutex(a)
     PROVE  HandleInv'
    BY <1>1 DEF TakePrimary, acquireMutex, TakeLegacy, RefuseMutex, Refuse,
       releaseMutexes
<1>2. ASSUME NEW a \in Attempts,
           Create(a) \/ Write(a) \/ Close(a) \/ WriteFails(a) \/
           CloseFails(a)
     PROVE  HandleInv'
    BY <1>2 DEF Create, Write, Close, WriteFails, Unlink, Look,
       releaseMutexes, CloseFails
<1>3. ASSUME NEW a \in Attempts, CreateExists(a) PROVE HandleInv'
    BY <1>3 DEF CreateExists, Refuse, releaseMutexes
<1>4. ASSUME NEW a \in Attempts,
           ReadVanished(a) \/ ReadRefused(a) \/ ReadDead(a)
     PROVE  HandleInv'
    BY <1>4 DEF ReadVanished, ReadRefused, Refuse, releaseMutexes, ReadDead
<1>5. ASSUME NEW a \in Attempts,
           TakeGuard(a) \/ CheckSame(a) \/ CheckChanged(a) \/
           RemoveDead(a)
     PROVE  HandleInv'
    BY <1>5 DEF TakeGuard, CheckSame, Look, CheckChanged, RemoveDead,
       Unlink, CannotUnlink
<1>6. ASSUME NEW a \in Attempts, GuardTaken(a) PROVE HandleInv'
    BY <1>6 DEF GuardTaken, Refuse, releaseMutexes
<1>7. ASSUME NEW a \in Attempts, DropGuard(a) PROVE HandleInv'
    BY <1>7 DEF DropGuard, Refuse, releaseMutexes
<1>8. ASSUME NEW a \in Attempts,
           BeginRelease(a) \/ ReleaseForeign(a) \/ ReleaseRead(a) \/
           ReleaseRemove(a) \/ ReleaseMutexes(a)
     PROVE  HandleInv'
    BY <1>8 DEF BeginRelease, ReleaseForeign, ReleaseRead, Look,
       ReleaseRemove, Unlink, CannotUnlink, ReleaseMutexes, releaseMutexes
<1>9. ASSUME NEW a \in Attempts,
           Retry(a) \/ Crash(a)
     PROVE  HandleInv'
    BY <1>9 DEF Retry, Crash, releaseMutexes
<1>10. CASE CliReleaseRead \/ CliReleaseRemove \/ Break
    BY <1>10 DEF CliReleaseRead, Look, CliReleaseRemove, Unlink,
       CannotUnlink, Break
<1>11. CASE Tick
    BY <1>11 DEF Tick, Cap
<1>12. CASE UNCHANGED vars
    BY <1>12 DEF vars
<1> QED
    BY <1>1, <1>2, <1>3, <1>4, <1>5, <1>6, <1>7, <1>8, <1>9, <1>10, <1>11,
       <1>12 DEF Next, Acquire, Release

\* CreateMutex tells the second opener of a session that it is not the first.
LEMMA MutexStep == TypeOK /\ MutexInv /\ [Next]_vars => MutexInv'
<1> SUFFICES ASSUME TypeOK /\ MutexInv, [Next]_vars PROVE MutexInv'
    OBVIOUS
<1> USE LockAssumption DEF TypeOK, MutexInv
<1>1. ASSUME NEW a \in Attempts,
           TakePrimary(a) \/ TakeLegacy(a) \/ RefuseMutex(a)
     PROVE  MutexInv'
    <2>1. ASSUME NEW m \in {"primary", "legacy"}, acquireMutex(a, m)
          PROVE  MutexInv'
        BY <2>1 DEF acquireMutex, Held
    <2>2. CASE TakePrimary(a) \/ TakeLegacy(a)
        BY <2>1, <2>2 DEF TakePrimary, TakeLegacy
    <2>3. CASE RefuseMutex(a)
        BY <2>3 DEF RefuseMutex, Refuse, releaseMutexes
    <2> QED
        BY <1>1, <2>2, <2>3
<1>2. ASSUME NEW a \in Attempts,
           Create(a) \/ Write(a) \/ Close(a) \/ WriteFails(a) \/
           CloseFails(a)
     PROVE  MutexInv'
    BY <1>2 DEF Create, Write, Close, WriteFails, Unlink, Look,
       releaseMutexes, CloseFails
<1>3. ASSUME NEW a \in Attempts, CreateExists(a) PROVE MutexInv'
    BY <1>3 DEF CreateExists, Refuse, releaseMutexes
<1>4. ASSUME NEW a \in Attempts,
           ReadVanished(a) \/ ReadRefused(a) \/ ReadDead(a)
     PROVE  MutexInv'
    BY <1>4 DEF ReadVanished, ReadRefused, Refuse, releaseMutexes, ReadDead
<1>5. ASSUME NEW a \in Attempts,
           TakeGuard(a) \/ CheckSame(a) \/ CheckChanged(a) \/
           RemoveDead(a)
     PROVE  MutexInv'
    BY <1>5 DEF TakeGuard, CheckSame, Look, CheckChanged, RemoveDead,
       Unlink, CannotUnlink
<1>6. ASSUME NEW a \in Attempts, GuardTaken(a) PROVE MutexInv'
    BY <1>6 DEF GuardTaken, Refuse, releaseMutexes
<1>7. ASSUME NEW a \in Attempts, DropGuard(a) PROVE MutexInv'
    BY <1>7 DEF DropGuard, Refuse, releaseMutexes
<1>8. ASSUME NEW a \in Attempts,
           BeginRelease(a) \/ ReleaseForeign(a) \/ ReleaseRead(a) \/
           ReleaseRemove(a) \/ ReleaseMutexes(a)
     PROVE  MutexInv'
    BY <1>8 DEF BeginRelease, ReleaseForeign, ReleaseRead, Look,
       ReleaseRemove, Unlink, CannotUnlink, ReleaseMutexes, releaseMutexes
<1>9. ASSUME NEW a \in Attempts,
           Retry(a) \/ Crash(a)
     PROVE  MutexInv'
    BY <1>9 DEF Retry, Crash, releaseMutexes
<1>10. CASE CliReleaseRead \/ CliReleaseRemove \/ Break
    BY <1>10 DEF CliReleaseRead, Look, CliReleaseRemove, Unlink,
       CannotUnlink, Break
<1>11. CASE Tick
    BY <1>11 DEF Tick, Cap
<1>12. CASE UNCHANGED vars
    BY <1>12 DEF vars
<1> QED
    BY <1>1, <1>2, <1>3, <1>4, <1>5, <1>6, <1>7, <1>8, <1>9, <1>10, <1>11,
       <1>12 DEF Next, Acquire, Release

\* Tick waits for every Acquire that has used up MaxAcquire.
LEMMA AcquireStep == TypeOK /\ AcquireInv /\ [Next]_vars => AcquireInv'
<1> SUFFICES ASSUME TypeOK /\ AcquireInv, [Next]_vars PROVE AcquireInv'
    OBVIOUS
<1> USE LockAssumption DEF TypeOK, AcquireInv, Acquiring, Releasing, Closing,
       Resting, Writing, Guarded
<1>1. ASSUME NEW a \in Attempts,
           TakePrimary(a) \/ TakeLegacy(a) \/ RefuseMutex(a)
     PROVE  AcquireInv'
    BY <1>1 DEF TakePrimary, acquireMutex, TakeLegacy, RefuseMutex, Refuse,
       releaseMutexes
<1>2. ASSUME NEW a \in Attempts,
           Create(a) \/ Write(a) \/ Close(a) \/ WriteFails(a) \/
           CloseFails(a)
     PROVE  AcquireInv'
    BY <1>2 DEF Create, Write, Close, WriteFails, Unlink, Look,
       releaseMutexes, CloseFails
<1>3. ASSUME NEW a \in Attempts, CreateExists(a) PROVE AcquireInv'
    BY <1>3 DEF CreateExists, Refuse, releaseMutexes
<1>4. ASSUME NEW a \in Attempts,
           ReadVanished(a) \/ ReadRefused(a) \/ ReadDead(a)
     PROVE  AcquireInv'
    BY <1>4 DEF ReadVanished, ReadRefused, Refuse, releaseMutexes, ReadDead
<1>5. ASSUME NEW a \in Attempts,
           TakeGuard(a) \/ CheckSame(a) \/ CheckChanged(a) \/
           RemoveDead(a)
     PROVE  AcquireInv'
    BY <1>5 DEF TakeGuard, CheckSame, Look, CheckChanged, RemoveDead,
       Unlink, CannotUnlink
<1>6. ASSUME NEW a \in Attempts, GuardTaken(a) PROVE AcquireInv'
    BY <1>6 DEF GuardTaken, Refuse, releaseMutexes
<1>7. ASSUME NEW a \in Attempts, DropGuard(a) PROVE AcquireInv'
    BY <1>7 DEF DropGuard, Refuse, releaseMutexes
<1>8. ASSUME NEW a \in Attempts,
           BeginRelease(a) \/ ReleaseForeign(a) \/ ReleaseRead(a) \/
           ReleaseRemove(a) \/ ReleaseMutexes(a)
     PROVE  AcquireInv'
    BY <1>8 DEF BeginRelease, ReleaseForeign, ReleaseRead, Look,
       ReleaseRemove, Unlink, CannotUnlink, ReleaseMutexes, releaseMutexes
<1>9. ASSUME NEW a \in Attempts,
           Retry(a) \/ Crash(a)
     PROVE  AcquireInv'
    BY <1>9 DEF Retry, Crash, releaseMutexes
<1>10. CASE CliReleaseRead \/ CliReleaseRemove \/ Break
    BY <1>10 DEF CliReleaseRead, Look, CliReleaseRemove, Unlink,
       CannotUnlink, Break
<1>11. CASE Tick
    BY <1>11 DEF Tick, Cap, Ageing
<1>12. CASE UNCHANGED vars
    BY <1>12 DEF vars
<1> QED
    BY <1>1, <1>2, <1>3, <1>4, <1>5, <1>6, <1>7, <1>8, <1>9, <1>10, <1>11,
       <1>12 DEF Next, Acquire, Release

\* The guard outlives its owner's work, so it is never cleared under it, and a
\* second breaker finds it; the two are preserved together.
LEMMA GuardStep == TypeOK /\ AcquireInv /\ GuardInv /\ OneBreaker /\ [Next]_vars => (GuardInv /\ OneBreaker)'
<1> SUFFICES ASSUME TypeOK /\ AcquireInv /\ GuardInv /\ OneBreaker, [Next]_vars PROVE (GuardInv /\ OneBreaker)'
    OBVIOUS
<1> USE LockAssumption DEF TypeOK, AcquireInv, GuardInv, OneBreaker,
       Acquiring, Releasing, Closing, Resting, Writing, Guarded
<1>1. ASSUME NEW a \in Attempts, TakePrimary(a) PROVE (GuardInv /\ OneBreaker)'
    BY <1>1 DEF TakePrimary, acquireMutex
<1>2. ASSUME NEW a \in Attempts, TakeLegacy(a) PROVE (GuardInv /\ OneBreaker)'
    BY <1>2 DEF TakeLegacy, acquireMutex
<1>3. ASSUME NEW a \in Attempts, RefuseMutex(a) PROVE (GuardInv /\ OneBreaker)'
    BY <1>3 DEF RefuseMutex, Refuse, releaseMutexes
<1>4. ASSUME NEW a \in Attempts, Create(a) PROVE (GuardInv /\ OneBreaker)'
    BY <1>4 DEF Create
<1>5. ASSUME NEW a \in Attempts, CreateExists(a) PROVE (GuardInv /\ OneBreaker)'
    BY <1>5 DEF CreateExists, Refuse, releaseMutexes
<1>6. ASSUME NEW a \in Attempts, Write(a) PROVE (GuardInv /\ OneBreaker)'
    BY <1>6 DEF Write
<1>7. ASSUME NEW a \in Attempts, Close(a) PROVE (GuardInv /\ OneBreaker)'
    BY <1>7 DEF Close
<1>8. ASSUME NEW a \in Attempts, ReadVanished(a) PROVE (GuardInv /\ OneBreaker)'
    BY <1>8 DEF ReadVanished
<1>9. ASSUME NEW a \in Attempts, ReadRefused(a) PROVE (GuardInv /\ OneBreaker)'
    BY <1>9 DEF ReadRefused, Refuse, releaseMutexes
<1>10. ASSUME NEW a \in Attempts, ReadDead(a) PROVE (GuardInv /\ OneBreaker)'
    BY <1>10 DEF ReadDead
<1>11. ASSUME NEW a \in Attempts, TakeGuard(a) PROVE (GuardInv /\ OneBreaker)'
    BY <1>11 DEF TakeGuard
<1>12. ASSUME NEW a \in Attempts, GuardTaken(a) PROVE (GuardInv /\ OneBreaker)'
    <2>1. guard' = {g \in guard : g <= (IF Kind[a] = "go" THEN age[a] ELSE 0) + BreakGuardStale}
        BY <1>12 DEF GuardTaken
    <2>2. /\ pc' = [pc EXCEPT ![a] = "refused"]
          /\ \A b \in Attempts : b # a => age'[b] = age[b]
        BY <1>12 DEF GuardTaken, Refuse
    <2>3. \A b \in Attempts : pc'[b] \in Guarded => b # a /\ pc[b] \in Guarded
        BY <2>2
    <2>4. ASSUME MaxAcquire <= BreakGuardStale, NEW b \in Attempts, pc[b] \in Guarded
          PROVE  guard' = guard
        <3>1. \A g \in guard : g <= age[b] /\ age[b] <= MaxAcquire /\ g \in Nat
            BY <2>4
        <3>2. (IF Kind[a] = "go" THEN age[a] ELSE 0) \in Nat
            OBVIOUS
        <3> QED
            BY <2>1, <2>4, <3>1, <3>2
    <2>5. GuardInv'
        BY <2>2, <2>3, <2>4
    <2> QED
        BY <2>3, <2>5
<1>13. ASSUME NEW a \in Attempts, CheckSame(a) PROVE (GuardInv /\ OneBreaker)'
    BY <1>13 DEF CheckSame, Look
<1>14. ASSUME NEW a \in Attempts, CheckChanged(a) PROVE (GuardInv /\ OneBreaker)'
    BY <1>14 DEF CheckChanged, Look
<1>15. ASSUME NEW a \in Attempts, RemoveDead(a) PROVE (GuardInv /\ OneBreaker)'
    BY <1>15 DEF RemoveDead, Unlink, CannotUnlink, Look
<1>16. ASSUME NEW a \in Attempts, DropGuard(a) PROVE (GuardInv /\ OneBreaker)'
    BY <1>16 DEF DropGuard, Refuse, releaseMutexes
<1>17. ASSUME NEW a \in Attempts, BeginRelease(a) PROVE (GuardInv /\ OneBreaker)'
    BY <1>17 DEF BeginRelease
<1>18. ASSUME NEW a \in Attempts, ReleaseForeign(a) PROVE (GuardInv /\ OneBreaker)'
    BY <1>18 DEF ReleaseForeign
<1>19. ASSUME NEW a \in Attempts, ReleaseRead(a) PROVE (GuardInv /\ OneBreaker)'
    BY <1>19 DEF ReleaseRead, Look
<1>20. ASSUME NEW a \in Attempts, ReleaseRemove(a) PROVE (GuardInv /\ OneBreaker)'
    BY <1>20 DEF ReleaseRemove, Unlink, CannotUnlink, Look
<1>21. ASSUME NEW a \in Attempts, ReleaseMutexes(a) PROVE (GuardInv /\ OneBreaker)'
    BY <1>21 DEF ReleaseMutexes, releaseMutexes
<1>22. ASSUME NEW a \in Attempts, Retry(a) PROVE (GuardInv /\ OneBreaker)'
    BY <1>22 DEF Retry
<1>23. ASSUME NEW a \in Attempts, WriteFails(a) PROVE (GuardInv /\ OneBreaker)'
    BY <1>23 DEF WriteFails, Unlink, Look, releaseMutexes
<1>24. ASSUME NEW a \in Attempts, CloseFails(a) PROVE (GuardInv /\ OneBreaker)'
    BY <1>24 DEF CloseFails, releaseMutexes
<1>25. ASSUME NEW a \in Attempts, Crash(a) PROVE (GuardInv /\ OneBreaker)'
    BY <1>25 DEF Crash, releaseMutexes
<1>26. CASE CliReleaseRead
    BY <1>26 DEF CliReleaseRead, Look
<1>27. CASE CliReleaseRemove
    BY <1>27 DEF CliReleaseRemove, Unlink, CannotUnlink, Look
<1>28. CASE Break
    BY <1>28 DEF Break, Unlink, Look
<1>29. CASE Tick
    <2>1. /\ guard' = {Cap(g, BreakGuardStale + MaxAcquire + 1) : g \in guard}
          /\ UNCHANGED pc
        BY <1>29 DEF Tick
    <2>2. \A a \in Attempts : pc[a] \in Guarded => age'[a] = age[a] + 1
        BY <1>29 DEF Tick, Cap, Ageing
    <2>3. \A g \in Nat : Cap(g, BreakGuardStale + MaxAcquire + 1) <= g + 1
        BY DEF Cap
    <2>4. ASSUME MaxAcquire <= BreakGuardStale, NEW a \in Attempts, pc[a] \in Guarded,
                 NEW h \in guard'
          PROVE  h <= age'[a]
        <3>1. PICK g \in guard : h = Cap(g, BreakGuardStale + MaxAcquire + 1)
            BY <2>1
        <3>2. g \in Nat /\ g <= age[a] /\ h \in Nat
            BY <2>4, <3>1 DEF Cap
        <3> QED
            BY <2>2, <2>3, <2>4, <3>1, <3>2
    <2>5. ASSUME NEW g \in guard PROVE guard' # {}
        <3>1. Cap(g, BreakGuardStale + MaxAcquire + 1) \in guard'
            BY <2>1
        <3> QED
            BY <3>1
    <2> QED
        BY <2>1, <2>4, <2>5
<1>30. CASE UNCHANGED vars
    BY <1>30 DEF vars
<1> QED
    BY <1>1, <1>2, <1>3, <1>4, <1>5, <1>6, <1>7, <1>8, <1>9, <1>10, <1>11,
       <1>12, <1>13, <1>14, <1>15, <1>16, <1>17, <1>18, <1>19, <1>20, <1>21,
       <1>22, <1>23, <1>24, <1>25, <1>26, <1>27, <1>28, <1>29, <1>30 DEF
       Next, Acquire, Release

-----------------------------------------------------------------------------
(* The theorems. *)

IInv ==
    /\ TypeOK /\ FileInv /\ JudgedInv
    /\ BreakGap /\ ReleaseGap /\ OperatorGap
    /\ OwnInv

LEMMA AlwaysIInv == Spec => []IInv
<1>1. Init => IInv
    BY LockAssumption DEF Init, IInv, TypeOK, Actors, Resting, FileInv, JudgedInv, Judging,
       BreakGap, ReleaseGap, OperatorGap, OwnInv, Writing
<1>2. IInv /\ [Next]_vars => IInv'
    BY TypeStep, FileStep, JudgedStep, BreakGapStep, ReleaseGapStep, OperatorGapStep, OwnStep
       DEF IInv
<1> QED
    BY <1>1, <1>2, PTL DEF Spec

\* Two fresh holders only if one was displaced: of breakDead, Acquire and
\* Release, with any number of contenders, crashes and operator verbs.
THEOREM FreshHoldersExcludeUnlessDisplaced == Spec => []HoldersExclude
<1>1. IInv => HoldersExclude
    BY LockAssumption DEF IInv, TypeOK, OwnInv, HoldersExclude, Holding, Fresh
<1> QED
    BY <1>1, AlwaysIInv, PTL

\* In one Windows session the mutexes alone keep holders apart (acquireMutex,
\* releaseMutexes, the compactor's GUARD 0).
THEOREM MutexesExcludeInOneSession == Spec => []SameSessionExclude
<1> DEFINE Inv == TypeOK /\ HandleInv /\ MutexInv
<1>1. Init => Inv
    BY LockAssumption DEF Init, TypeOK, Actors, Resting, HandleInv, Locked, MutexInv,
       Acquiring, Releasing, Closing, Writing, Guarded
<1>2. Inv /\ [Next]_vars => Inv'
    BY TypeStep, HandleStep, MutexStep
<1>3. Inv => SameSessionExclude
    BY DEF HandleInv, Locked, MutexInv, SameSessionExclude, Holding
<1> QED
    BY <1>1, <1>2, <1>3, PTL DEF Spec

\* With Acquires no longer than BreakGuardStale, one breaker at a time
\* (breakDead's guard).
THEOREM BreakersExclude == Spec => []OneBreaker
<1> DEFINE Inv == TypeOK /\ AcquireInv /\ GuardInv /\ OneBreaker
<1>1. Init => Inv
    BY LockAssumption DEF Init, TypeOK, Actors, Resting, AcquireInv, GuardInv, OneBreaker,
       Acquiring, Writing, Guarded
<1>2. Inv /\ [Next]_vars => Inv'
    BY TypeStep, AcquireStep, GuardStep
<1>3. Inv => OneBreaker
    OBVIOUS
<1> QED
    BY <1>1, <1>2, <1>3, PTL DEF Spec

-----------------------------------------------------------------------------
(* The lock implements the lease. *)

\* Only who has had the file can have lost it.
DisplacedInv == \A a \in displaced : pc[a] \in Created

LEMMA DisplacedStep == TypeOK /\ FileInv /\ DisplacedInv /\ [Next]_vars => DisplacedInv'
<1> SUFFICES ASSUME TypeOK, FileInv, DisplacedInv, [Next]_vars PROVE DisplacedInv'
    OBVIOUS
<1> USE LockAssumption DEF TypeOK, FileInv, DisplacedInv, Created, Acquiring, Releasing,
       Closing, Resting, Writing, Guarded
<1>1. ASSUME NEW a \in Attempts, TakePrimary(a) \/ TakeLegacy(a) \/ RefuseMutex(a)
      PROVE  DisplacedInv'
    BY <1>1 DEF TakePrimary, TakeLegacy, RefuseMutex, Refuse
<1>2. ASSUME NEW a \in Attempts,
             Create(a) \/ CreateExists(a) \/ Write(a) \/ Close(a) \/ CloseFails(a)
      PROVE  DisplacedInv'
    BY <1>2 DEF Create, CreateExists, Refuse, Write, Close, CloseFails
<1>3. ASSUME NEW a \in Attempts, ReadVanished(a) \/ ReadRefused(a) \/ ReadDead(a)
      PROVE  DisplacedInv'
    BY <1>3 DEF ReadVanished, ReadRefused, ReadDead, Refuse
<1>4. ASSUME NEW a \in Attempts,
             TakeGuard(a) \/ GuardTaken(a) \/ CheckSame(a) \/ CheckChanged(a) \/ DropGuard(a)
      PROVE  DisplacedInv'
    BY <1>4 DEF TakeGuard, GuardTaken, CheckSame, CheckChanged, DropGuard, Refuse
<1>5. ASSUME NEW a \in Attempts, WriteFails(a) \/ RemoveDead(a) \/ ReleaseRemove(a)
      PROVE  DisplacedInv'
    BY <1>5 DEF WriteFails, RemoveDead, ReleaseRemove, Unlink, CannotUnlink
<1>6. ASSUME NEW a \in Attempts,
             BeginRelease(a) \/ ReleaseForeign(a) \/ ReleaseRead(a) \/ ReleaseMutexes(a)
             \/ Retry(a) \/ Crash(a)
      PROVE  DisplacedInv'
    BY <1>6 DEF BeginRelease, ReleaseForeign, ReleaseRead, ReleaseMutexes, Retry, Crash
<1>7. CASE CliReleaseRead \/ CliReleaseRemove \/ Break
    BY <1>7 DEF CliReleaseRead, CliReleaseRemove, Break, Unlink, CannotUnlink
<1>8. CASE Tick \/ UNCHANGED vars
    BY <1>8 DEF Tick, vars
<1> QED
    BY <1>1, <1>2, <1>3, <1>4, <1>5, <1>6, <1>7, <1>8 DEF Next, Acquire, Release

\* The path is free, it is taken by its owner's own doing or when its owner has
\* stopped, or its owner is displaced.
FreedWell == /\ file' \in {file, Absent}
             /\ displaced' \in {displaced, displaced \cup ({file} \ {Absent})}
             /\ displaced' # displaced => file' = Absent
             /\ file' # file /\ file \in AtWork' => file \in displaced'

LEMMA FreedIsPromised ==
    ASSUME FreedWell, AtWork' \subseteq AtWork
    PROVE  Promise!Next \/ UNCHANGED Promise!lock
<1>1. CASE file' = file /\ displaced' = displaced
    BY <1>1 DEF Promise!Next
<1>2. CASE file' # file
    BY <1>2 DEF FreedWell, Promise!Next, Promise!Lose
<1>3. CASE file' = file /\ displaced' # displaced
    BY <1>3 DEF FreedWell
<1> QED
    BY <1>1, <1>2, <1>3

\* Every step but a creation ends the work of some, if it does anything.
LEMMA WorkStep ==
    ASSUME TypeOK, [Next]_vars, \A a \in Attempts : ~Create(a)
    PROVE  AtWork' \subseteq AtWork
<1> SUFFICES ASSUME NEW b \in Attempts, b \in AtWork' PROVE b \in AtWork
    BY DEF AtWork
<1> USE LockAssumption DEF TypeOK, AtWork, Fresh, Acquiring, Releasing, Closing, Resting, Writing,
       Guarded
<1>1. ASSUME NEW a \in Attempts, TakePrimary(a) \/ TakeLegacy(a) \/ RefuseMutex(a)
      PROVE  b \in AtWork
    BY <1>1 DEF TakePrimary, TakeLegacy, RefuseMutex, Refuse
<1>2. ASSUME NEW a \in Attempts, CreateExists(a) \/ Write(a) \/ Close(a) \/ CloseFails(a)
      PROVE  b \in AtWork
    BY <1>2 DEF CreateExists, Refuse, Write, Close, CloseFails
<1>3. ASSUME NEW a \in Attempts, ReadVanished(a) \/ ReadRefused(a) \/ ReadDead(a)
      PROVE  b \in AtWork
    BY <1>3 DEF ReadVanished, ReadRefused, ReadDead, Refuse
<1>4. ASSUME NEW a \in Attempts,
             TakeGuard(a) \/ GuardTaken(a) \/ CheckSame(a) \/ CheckChanged(a) \/ DropGuard(a)
      PROVE  b \in AtWork
    BY <1>4 DEF TakeGuard, GuardTaken, CheckSame, CheckChanged, DropGuard, Refuse
<1>5. ASSUME NEW a \in Attempts, WriteFails(a) \/ RemoveDead(a) \/ ReleaseRemove(a)
      PROVE  b \in AtWork
    BY <1>5 DEF WriteFails, RemoveDead, ReleaseRemove
<1>6. ASSUME NEW a \in Attempts,
             BeginRelease(a) \/ ReleaseForeign(a) \/ ReleaseRead(a) \/ ReleaseMutexes(a)
             \/ Retry(a) \/ Crash(a)
      PROVE  b \in AtWork
    BY <1>6 DEF BeginRelease, ReleaseForeign, ReleaseRead, ReleaseMutexes, Retry, Crash
<1>7. CASE CliReleaseRead \/ CliReleaseRemove \/ Break
    BY <1>7 DEF CliReleaseRead, CliReleaseRemove, Break
<1>8. CASE Tick
    BY <1>8 DEF Tick, Cap
<1>9. CASE UNCHANGED vars
    BY <1>9 DEF vars
<1> QED
    BY <1>1, <1>2, <1>3, <1>4, <1>5, <1>6, <1>7, <1>8, <1>9 DEF Next, Acquire, Release

\* Who removes the path has seen that its owner stopped, or displaces it.
LEMMA FreeStep ==
    ASSUME IInv, [Next]_vars, \A a \in Attempts : ~Create(a)
    PROVE  FreedWell
<1> USE LockAssumption DEF IInv, TypeOK, FreedWell
<1> USE DEF AtWork, Fresh, Doomed, Created, Acquiring, Releasing, Closing, Resting, Writing,
        Guarded
<1>1. ASSUME NEW a \in Attempts, WriteFails(a) PROVE FreedWell
    BY <1>1 DEF WriteFails, Unlink
<1>2. ASSUME NEW a \in Attempts, RemoveDead(a) PROVE FreedWell
    <2>1. CASE CannotUnlink(a)
        BY <1>2, <2>1 DEF CannotUnlink
    <2>2. CASE Unlink(a, Seen(a)) /\ file = Absent
        BY <2>2 DEF Unlink
    <2>3. CASE Unlink(a, Seen(a)) /\ file \in since[a]
        BY <1>2, <2>3 DEF Unlink, Seen, RemoveDead
    <2>4. CASE Unlink(a, Seen(a)) /\ file # Absent /\ file \notin since[a]
        <3>1. file = dead[a] /\ Doomed(file)
            BY <1>2, <2>4 DEF RemoveDead, BreakGap, JudgedInv, Judging
        <3> QED
            BY <1>2, <2>4, <3>1 DEF Unlink, RemoveDead
    <2> QED
        BY <1>2, <2>1, <2>2, <2>3, <2>4 DEF RemoveDead
<1>3. ASSUME NEW a \in Attempts, ReleaseRemove(a) PROVE FreedWell
    <2>1. pc'[a] = "relMutex" /\ a \notin AtWork'
        BY <1>3 DEF ReleaseRemove
    <2>2. CASE CannotUnlink(a)
        BY <2>2 DEF CannotUnlink
    <2>3. CASE pc[a] = "relRemove" /\ Unlink(a, Seen(a))
        <3>1. file \in {Absent, a} \cup since[a]
            BY <2>3 DEF ReleaseGap
        <3> QED
            BY <2>1, <2>3, <3>1 DEF Unlink, Seen
    <2>4. CASE pc[a] # "relRemove" /\ Unlink(a, {})
        BY <2>1, <2>4 DEF Unlink
    <2> QED
        BY <1>3, <2>2, <2>3, <2>4 DEF ReleaseRemove
<1>4. CASE CliReleaseRemove
    <2>1. CASE CannotUnlink(Operator)
        BY <2>1 DEF CannotUnlink
    <2>2. CASE Unlink(Operator, Seen(Operator)) /\ file \in since[Operator] \cup {Absent}
        BY <1>4, <2>2 DEF Unlink, Seen, CliReleaseRemove
    <2>3. CASE Unlink(Operator, Seen(Operator)) /\ file \notin since[Operator] \cup {Absent}
        <3>1. Doomed(file)
            BY <1>4, <2>3 DEF CliReleaseRemove, OperatorGap
        <3> QED
            BY <1>4, <2>3, <3>1 DEF Unlink, CliReleaseRemove
    <2> QED
        BY <1>4, <2>1, <2>2, <2>3 DEF CliReleaseRemove
<1>5. CASE Break
    BY <1>5 DEF Break, Unlink
<1>6. ASSUME NEW a \in Attempts,
             ~(WriteFails(a) \/ RemoveDead(a) \/ ReleaseRemove(a)),
             Acquire(a) \/ BeginRelease(a) \/ Release(a) \/ Retry(a) \/ CloseFails(a) \/ Crash(a)
      PROVE  UNCHANGED <<file, displaced>>
    BY <1>6 DEF Acquire, Release, TakePrimary, TakeLegacy, RefuseMutex, CreateExists, Write, Close,
       ReadVanished, ReadRefused, ReadDead, TakeGuard, GuardTaken, CheckSame, CheckChanged,
       DropGuard, BeginRelease, ReleaseForeign, ReleaseRead, ReleaseMutexes, Retry, CloseFails,
       Crash
<1>7. CASE CliReleaseRead \/ Tick \/ UNCHANGED vars
    BY <1>7 DEF CliReleaseRead, Tick, vars
<1> QED
    BY <1>1, <1>2, <1>3, <1>4, <1>5, <1>6, <1>7 DEF Next, Release, Acquire

LEMMA CreateTakes ==
    ASSUME TypeOK, DisplacedInv, NEW a \in Attempts, Create(a)
    PROVE  Promise!Take(a)
<1>1. file = Absent /\ file' = a /\ displaced' = displaced /\ age' = age
    BY DEF Create
<1>2. a \notin AtWork \cup displaced
    BY DEF Create, AtWork, Writing, DisplacedInv, Created, Releasing, Closing
<1>3. AtWork' \in {AtWork, AtWork \cup {a}}
    <2>1. \A b \in Attempts \ {a} : pc'[b] = pc[b]
        BY DEF Create, TypeOK
    <2>2. AtWork' \ {a} = AtWork
        BY <1>1, <1>2, <2>1 DEF AtWork, Fresh
    <2> QED
        BY <2>2
<1> QED
    BY <1>1, <1>2, <1>3 DEF Promise!Take

\* The per-PC lock keeps the promise of the lease, for any number of contenders,
\* crashes and operator verbs, on both platforms: nobody at work loses its file
\* to a process that had seen it (Acquire, breakDead, Release).
THEOREM LockImplementsLease == Spec => ImplementsLease
<1>1. Init => Promise!Init /\ DisplacedInv
    BY DEF Init, Promise!Init, AtWork, Writing, DisplacedInv
<1>2. IInv /\ DisplacedInv /\ [Next]_vars => DisplacedInv'
    BY DisplacedStep DEF IInv
<1>3. IInv /\ DisplacedInv /\ [Next]_vars => [Promise!Next]_(Promise!lock)
    <2> SUFFICES ASSUME IInv, DisplacedInv, [Next]_vars
                 PROVE  Promise!Next \/ UNCHANGED Promise!lock
        OBVIOUS
    <2>1. CASE \E a \in Attempts : Create(a)
        BY <2>1, CreateTakes DEF IInv, Promise!Next
    <2>2. CASE \A a \in Attempts : ~Create(a)
        BY <2>2, WorkStep, FreeStep, FreedIsPromised DEF IInv
    <2> QED
        BY <2>1, <2>2
<1> QED
    BY <1>1, <1>2, <1>3, AlwaysIInv, PTL DEF Spec, ImplementsLease, Promise!Spec

\* Whoever takes the lease at its word has exclusion: of two at work, one has
\* been displaced.
THEOREM LeaseExcludes == Promise!Spec => []Promise!OneWorks
<1> DEFINE Owns == \A a \in AtWork : a = file \/ a \in displaced
<1>1. Promise!Init => Owns
    BY DEF Promise!Init
<1>2. Owns /\ [Promise!Next]_(Promise!lock) => Owns'
    <2> SUFFICES ASSUME Owns, Promise!Next \/ UNCHANGED Promise!lock PROVE Owns'
        OBVIOUS
    <2>1. ASSUME NEW a \in Attempts, Promise!Take(a) PROVE Owns'
        <3>1. \A b \in AtWork : b \in displaced
            BY <2>1, LockAssumption DEF Promise!Take, AtWork
        <3> QED
            BY <2>1, <3>1 DEF Promise!Take
    <2>2. CASE AtWork' \subseteq AtWork /\ Promise!Lose
        BY <2>2 DEF Promise!Lose
    <2>3. CASE AtWork' \subseteq AtWork /\ UNCHANGED <<file, displaced>>
        BY <2>3
    <2>4. CASE UNCHANGED Promise!lock
        BY <2>4 DEF Promise!lock
    <2> QED
        BY <2>1, <2>2, <2>3, <2>4 DEF Promise!Next
<1>3. Owns => Promise!OneWorks
    BY DEF Promise!OneWorks
<1> QED
    BY <1>1, <1>2, <1>3, PTL DEF Promise!Spec
=============================================================================
