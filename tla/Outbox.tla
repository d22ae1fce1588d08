------------------------------- MODULE Outbox -------------------------------
(***************************************************************************)
(* The offline outbox of the memory stack: the shim's writer (_queue_op in *)
(* scripts/wsl/mem0-mcp-shim.py) and the drainer (scripts/wsl/replay-ops.py)*)
(* that replays the queued mutations to the authority.                     *)
(*                                                                         *)
(* A file is the sequence of the records in it; an absent file and an      *)
(* empty one are the same value, because every exists() test of the code   *)
(* leads to an effect that is void on an empty file.  A record stands for  *)
(* its uuid4 key.  A drainer takes one step per file operation or request, *)
(* so that a writer, an online session and a crash come between any two.   *)
(***************************************************************************)
EXTENDS Naturals, Sequences, FiniteSets

CONSTANTS
    Ops,         \* the mutations that sessions make offline, one key each
    Kind,        \* Kind[k]: what dispatch() makes of the record of k
    Target,      \* Target[k]: the memory k mutates
    Drainers,    \* replay-ops.py processes
    None,        \* no drainer
    Role,        \* the box's role file: "brain", "replica" or "client"
    MaxCrashes,  \* bound on drainer crashes
    MaxBatch     \* bound on the records a stopped drain writes back

Kinds == {"add", "update", "tier", "mutation", "canonize", "malformed", "torn"}

ASSUME OutboxAssumption ==
    /\ Kind \in [Ops -> Kinds]
    /\ DOMAIN Target = Ops
    /\ None \notin Drainers
    /\ Role \in {"brain", "replica", "client"}
    /\ MaxCrashes \in Nat
    /\ MaxBatch \in Nat

Memories == {Target[k] : k \in Ops}

VARIABLES
    (* the files under ~/.mem0 *)
    outbox,      \* outbox.jsonl
    rotating,    \* outbox.rotating.jsonl
    replaying,   \* outbox.replaying.jsonl
    ledger,      \* keys in outbox.replayed.jsonl
    conflicts,   \* <<key, reason>> in mutation-conflicts.jsonl
    lock,        \* holder of the flock on replay-ops.lock
    (* the writers: fd[k] is the inode the writer of k has open *)
    fd,
    (* locals of each drainer *)
    pc, recs, cur, past, kept, done, sshDown, dst,
    (* the authority *)
    applied,     \* keys the authority has applied
    stale,       \* queued keys whose target was stamped after queued_ts
    direct,      \* memories an online session has updated directly
    (* observers, read by no action *)
    repeated,    \* keys the authority has applied more than once
    late,        \* records written to a rotated file after it was read
    torn,        \* records in memory when a crash hit the final rewrite
    crashes

files    == <<outbox, rotating, replaying, ledger, conflicts>>
locals   == <<recs, cur, past, kept, done, sshDown, dst>>
remote   == <<applied, stale, direct, repeated>>
vars == <<files, lock, fd, pc, locals, remote, late, torn, crashes>>

(***************************************************************************)
(* Sequences of records.                                                   *)
(***************************************************************************)
Elems(s) == {s[i] : i \in DOMAIN s}

Without(s, i) == [j \in 1..(Len(s) - 1) |-> IF j < i THEN s[j] ELSE s[j + 1]]

\* recs.sort(...) is stable with the adds first, and the loop runs over the
\* sorted list: the record at i is next when no add remains or it is one,
\* and nothing before it is as early a choice.
Earliest(s, i) ==
    LET adds == {j \in DOMAIN s : Kind[s[j]] = "add"}
        S    == IF adds = {} THEN DOMAIN s ELSE adds
    IN  i \in S /\ \A j \in S : i <= j

Reasons == {"superseded", "refused", "malformed", "unparseable"}

OnDisk == Elems(outbox) \cup Elems(rotating) \cup Elems(replaying)
ConflictKeys == {k \in Ops : \E r \in Reasons : <<k, r>> \in conflicts}
Settled == ledger \cup ConflictKeys
Queued == {k \in Ops : fd[k] = "closed"}

PCs == {"idle", "foldLeftover", "unlinkLeftover", "rotate", "fold", "unlink",
        "load", "parse", "loop", "dispatch", "ledger", "rewrite"}

Init ==
    /\ outbox = <<>> /\ rotating = <<>> /\ replaying = <<>>
    /\ ledger = {} /\ conflicts = {}
    /\ lock = None
    /\ fd = [k \in Ops |-> "unopened"]
    /\ pc = [d \in Drainers |-> "idle"]
    /\ recs = [d \in Drainers |-> <<>>]
    /\ cur = [d \in Drainers |-> None]
    /\ past = [d \in Drainers |-> <<>>]
    /\ kept = [d \in Drainers |-> <<>>]
    /\ done = [d \in Drainers |-> {}]
    /\ sshDown = [d \in Drainers |-> FALSE]
    /\ dst = [d \in Drainers |-> "authority"]
    /\ applied = {} /\ stale = {} /\ direct = {} /\ repeated = {}
    /\ late = {} /\ torn = {} /\ crashes = 0
-----------------------------------------------------------------------------
(***************************************************************************)
(* The writers and the online session.                                     *)
(***************************************************************************)

\* _queue_op: queued_ts is stamped, then open("a") yields a descriptor of
\* whatever inode outbox.jsonl names now (a fresh one when it names none).
QueueOpen(k) ==
    /\ fd[k] = "unopened"
    /\ fd' = [fd EXCEPT ![k] = "outbox"]
    /\ UNCHANGED <<files, lock, pc, locals, remote, late, torn, crashes>>

\* _queue_op: the buffered line reaches the inode when the file is closed,
\* under whatever name the inode has by then.
QueueWrite(k) ==
    /\ fd[k] \in {"outbox", "rotating", "unlinked"}
    /\ outbox' = IF fd[k] = "outbox" THEN Append(outbox, k) ELSE outbox
    /\ rotating' = IF fd[k] = "rotating" THEN Append(rotating, k) ELSE rotating
    /\ late' = IF \/ fd[k] = "unlinked"
                  \/ /\ fd[k] = "rotating"
                     /\ \E d \in Drainers : pc[d] \in {"unlinkLeftover", "unlink"}
               THEN late \cup {k} ELSE late
    /\ fd' = [fd EXCEPT ![k] = "closed"]
    /\ UNCHANGED <<replaying, ledger, conflicts, lock, pc, locals, remote, torn, crashes>>

\* The queued keys on m, whose queued_ts is older than a stamp given to m now.
QueuedOn(m) == {k \in Ops : Target[k] = m /\ fd[k] # "unopened"}

\* A session that reaches the authority updates m there: updated_at moves past
\* the queued_ts of everything queued on m so far.
DirectUpdate(m) ==
    /\ m \notin direct
    /\ direct' = direct \cup {m}
    /\ stale' = stale \cup QueuedOn(m)
    /\ UNCHANGED <<files, lock, fd, pc, locals, applied, repeated, late, torn, crashes>>
-----------------------------------------------------------------------------
(***************************************************************************)
(* The drainer.                                                            *)
(***************************************************************************)
Goto(d, label) == pc' = [pc EXCEPT ![d] = label]

\* The process ends: the kernel drops its flock, its memory is gone.
Exit(d) ==
    /\ Goto(d, "idle")
    /\ lock' = IF lock = d THEN None ELSE lock
    /\ recs' = [recs EXCEPT ![d] = <<>>]
    /\ cur' = [cur EXCEPT ![d] = None]
    /\ past' = [past EXCEPT ![d] = <<>>]
    /\ kept' = [kept EXCEPT ![d] = <<>>]
    /\ done' = [done EXCEPT ![d] = {}]
    /\ sshDown' = [sshDown EXCEPT ![d] = FALSE]
    /\ dst' = [dst EXCEPT ![d] = "authority"]

\* On a replica or a client, loopback is a store that is not the authority.
Destinations == IF Role = "brain" THEN {"authority"} ELSE {"authority", "local"}

\* Mutant: the One-Brain guard is gone.
RefusesNothing(x) == FALSE

RefusesDestination(x) == Role \in {"replica", "client"} /\ x = "local"

\* replay-ops.py main and the head of replay(): a non-blocking flock, the
\* One-Brain guard, something pending in one of the three files, /health ok.
Begin(d) ==
    /\ pc[d] = "idle"
    /\ lock = None
    /\ \E x \in Destinations :
          /\ ~ RefusesDestination(x)
          /\ dst' = [dst EXCEPT ![d] = x]
    /\ outbox # <<>> \/ replaying # <<>> \/ rotating # <<>>
    /\ lock' = d
    /\ Goto(d, "foldLeftover")
    /\ UNCHANGED <<files, fd, recs, cur, past, kept, done, sshDown, remote, late, torn, crashes>>

\* Mutant: the trigger before 2026-09-01 looked at the live outbox alone.
ShimDrainOutboxOnly(d) == outbox # <<>> /\ Begin(d)

\* _drain_outbox_async at every session start: only these two files are looked at.
ShimDrain(d) ==
    /\ outbox # <<>> \/ replaying # <<>>
    /\ Begin(d)

\* offline-watcher go_online, or a run by hand: replay-ops.py without that test.
GoOnlineDrain(d) == Begin(d)

\* Append the content of outbox.rotating.jsonl to the replaying file.
FoldRotating(d, label) ==
    /\ replaying' = replaying \o rotating
    /\ Goto(d, label)
    /\ UNCHANGED <<outbox, rotating, ledger, conflicts, lock, fd, locals, remote, late, torn, crashes>>

\* tmp.unlink(): descriptors open on the inode stay open on it.
UnlinkRotating(d, label) ==
    /\ rotating' = <<>>
    /\ fd' = [k \in Ops |-> IF fd[k] = "rotating" THEN "unlinked" ELSE fd[k]]
    /\ Goto(d, label)
    /\ UNCHANGED <<outbox, replaying, ledger, conflicts, lock, locals, remote, late, torn, crashes>>

\* Mutant: a leftover rotating file is not folded before the next rotation.
FoldLeftoverSkipped(d) ==
    /\ pc[d] = "foldLeftover"
    /\ Goto(d, "rotate")
    /\ UNCHANGED <<files, lock, fd, locals, remote, late, torn, crashes>>

FoldLeftover(d)   == pc[d] = "foldLeftover" /\ FoldRotating(d, "unlinkLeftover")
UnlinkLeftover(d) == pc[d] = "unlinkLeftover" /\ UnlinkRotating(d, "rotate")

\* os.replace(outbox, tmp): the inode moves, and its open descriptors with it.
Rotate(d) ==
    /\ pc[d] = "rotate"
    /\ rotating' = outbox
    /\ outbox' = <<>>
    /\ fd' = [k \in Ops |-> IF fd[k] = "outbox" THEN "rotating" ELSE fd[k]]
    /\ Goto(d, "fold")
    /\ UNCHANGED <<replaying, ledger, conflicts, lock, locals, remote, late, torn, crashes>>

Fold(d)   == pc[d] = "fold" /\ FoldRotating(d, "unlink")
Unlink(d) == pc[d] = "unlink" /\ UnlinkRotating(d, "load")

\* Read the ledger and the batch.
Load(d) ==
    /\ pc[d] = "load"
    /\ done' = [done EXCEPT ![d] = ledger]
    /\ recs' = [recs EXCEPT ![d] = replaying]
    /\ past' = [past EXCEPT ![d] = <<>>]
    /\ kept' = [kept EXCEPT ![d] = <<>>]
    /\ sshDown' = [sshDown EXCEPT ![d] = FALSE]
    /\ Goto(d, "parse")
    /\ UNCHANGED <<files, lock, fd, cur, dst, remote, late, torn, crashes>>

\* A line that does not parse goes to the conflict log as raw bytes.
Unparseable(d) ==
    /\ pc[d] = "parse"
    /\ \E i \in DOMAIN recs[d] :
          /\ Kind[recs[d][i]] = "torn"
          /\ \A j \in 1..(i - 1) : Kind[recs[d][j]] # "torn"
          /\ conflicts' = conflicts \cup {<<recs[d][i], "unparseable">>}
          /\ recs' = [recs EXCEPT ![d] = Without(recs[d], i)]
    /\ UNCHANGED <<outbox, rotating, replaying, ledger, lock, fd, pc, cur, past, kept,
                   done, sshDown, dst, remote, late, torn, crashes>>

Parsed(d) ==
    /\ pc[d] = "parse"
    /\ \A k \in Elems(recs[d]) : Kind[k] # "torn"
    /\ Goto(d, "loop")
    /\ UNCHANGED <<files, lock, fd, locals, remote, late, torn, crashes>>

\* The loop reaches the record at i.
Visit(d, i) ==
    /\ pc[d] = "loop"
    /\ Earliest(recs[d], i)
    /\ recs' = [recs EXCEPT ![d] = Without(recs[d], i)]

Remember(d, k) == past' = [past EXCEPT ![d] = Append(past[d], k)]
Keep(d, k)     == kept' = [kept EXCEPT ![d] = Append(kept[d], k)]

\* `if k in done_keys: continue`
SkipDone(d) ==
    /\ \E i \in DOMAIN recs[d] :
          /\ Visit(d, i)
          /\ recs[d][i] \in done[d]
          /\ Remember(d, recs[d][i])
    /\ UNCHANGED <<files, lock, fd, pc, cur, kept, done, sshDown, dst, remote, late, torn, crashes>>

\* `if ssh_down and op == canonize`: kept untried.
ParkCanonize(d) ==
    /\ \E i \in DOMAIN recs[d] :
          /\ Visit(d, i)
          /\ recs[d][i] \notin done[d]
          /\ sshDown[d] /\ Kind[recs[d][i]] = "canonize"
          /\ Keep(d, recs[d][i])
          /\ Remember(d, recs[d][i])
    /\ UNCHANGED <<files, lock, fd, pc, cur, done, sshDown, dst, remote, late, torn, crashes>>

Untried(d, k) == k \notin done[d] /\ ~(sshDown[d] /\ Kind[k] = "canonize")

\* Mutant: the test for a newer stamp comes before the test of done_keys.
ConflictBeforeDone(d) ==
    /\ \E i \in DOMAIN recs[d] :
          /\ Visit(d, i)
          /\ Kind[recs[d][i]] = "update"
          /\ recs[d][i] \in stale
          /\ conflicts' = conflicts \cup {<<recs[d][i], "superseded">>}
          /\ Remember(d, recs[d][i])
    /\ UNCHANGED <<outbox, rotating, replaying, ledger, lock, fd, pc, cur, kept, done,
                   sshDown, dst, remote, late, torn, crashes>>

\* update_superseded answered True: the target was stamped after queued_ts.
ConflictSuperseded(d) ==
    /\ \E i \in DOMAIN recs[d] :
          /\ Visit(d, i)
          /\ Untried(d, recs[d][i])
          /\ Kind[recs[d][i]] = "update"
          /\ recs[d][i] \in stale
          /\ conflicts' = conflicts \cup {<<recs[d][i], "superseded">>}
          /\ Remember(d, recs[d][i])
    /\ UNCHANGED <<outbox, rotating, replaying, ledger, lock, fd, pc, cur, kept, done,
                   sshDown, dst, remote, late, torn, crashes>>

\* The record is about to be dispatched.  An update is here because its guard
\* found no newer stamp, or because the guard's GET failed (it fails open).
ToDispatch(d) ==
    /\ \E i \in DOMAIN recs[d] :
          /\ Visit(d, i)
          /\ Untried(d, recs[d][i])
          /\ cur' = [cur EXCEPT ![d] = recs[d][i]]
    /\ Goto(d, "dispatch")
    /\ UNCHANGED <<files, lock, fd, past, kept, done, sshDown, dst, remote, late, torn, crashes>>

\* The store that dst[d] names executes k.  Only the real authority counts;
\* PUT and the tier PATCH stamp updated_at.
Stamps(k) == Kind[k] \in {"update", "tier"}
Deliver(d, k) ==
    IF dst[d] = "authority"
      THEN /\ applied' = applied \cup {k}
           /\ repeated' = IF k \in applied THEN repeated \cup {k} ELSE repeated
           /\ stale' = IF Stamps(k) THEN stale \cup QueuedOn(Target[k]) ELSE stale
           /\ UNCHANGED direct
      ELSE UNCHANGED remote

Dispatchable(k) == Kind[k] # "malformed"

\* dispatch() returned: the ledger line is appended next.
DispatchOk(d) ==
    /\ pc[d] = "dispatch"
    /\ Dispatchable(cur[d])
    /\ Deliver(d, cur[d])
    /\ Goto(d, "ledger")
    /\ UNCHANGED <<files, lock, fd, locals, late, torn, crashes>>

\* Mutant: done_keys.add(k) is missing.
LedgerAppendNoDone(d) ==
    /\ pc[d] = "ledger"
    /\ ledger' = ledger \cup {cur[d]}
    /\ Remember(d, cur[d])
    /\ Goto(d, "loop")
    /\ UNCHANGED <<outbox, rotating, replaying, conflicts, lock, fd, recs, cur, kept, done,
                   sshDown, dst, remote, late, torn, crashes>>

LedgerAppend(d) ==
    /\ pc[d] = "ledger"
    /\ ledger' = ledger \cup {cur[d]}
    /\ done' = [done EXCEPT ![d] = done[d] \cup {cur[d]}]
    /\ Remember(d, cur[d])
    /\ Goto(d, "loop")
    /\ UNCHANGED <<outbox, rotating, replaying, conflicts, lock, fd, recs, cur, kept,
                   sshDown, dst, remote, late, torn, crashes>>

\* `except Exception`: the connection failed, the answer did not come in time
\* (the authority may have executed the request), or the ledger append failed.
KeepTransient(d) ==
    /\ \/ pc[d] = "dispatch" /\ Dispatchable(cur[d]) /\ Deliver(d, cur[d])
       \/ pc[d] = "dispatch" /\ Dispatchable(cur[d]) /\ UNCHANGED remote
       \/ pc[d] = "ledger" /\ UNCHANGED remote
    /\ Keep(d, cur[d])
    /\ Remember(d, cur[d])
    /\ Goto(d, "loop")
    /\ UNCHANGED <<files, lock, fd, recs, cur, done, sshDown, dst, late, torn, crashes>>

\* Mutant: an unanswered ssh is taken for a confirmation.
KeepSSHAsDone(d) ==
    /\ pc[d] = "dispatch"
    /\ Kind[cur[d]] = "canonize"
    /\ Goto(d, "ledger")
    /\ UNCHANGED <<files, lock, fd, locals, remote, late, torn, crashes>>

\* `except TransientSSH`: ssh exit 255, before or after the remote command ran.
KeepSSH(d) ==
    /\ pc[d] = "dispatch"
    /\ Kind[cur[d]] = "canonize"
    /\ Deliver(d, cur[d]) \/ UNCHANGED remote
    /\ Keep(d, cur[d])
    /\ Remember(d, cur[d])
    /\ sshDown' = [sshDown EXCEPT ![d] = TRUE]
    /\ Goto(d, "loop")
    /\ UNCHANGED <<files, lock, fd, recs, cur, done, dst, late, torn, crashes>>

\* recs[recs.index(rec) + 1:] of the sorted list: index() finds the FIRST
\* record equal to this one, which a batch folded twice has visited before.
RestAfter(d) ==
    LET k == cur[d]
        seen == {j \in DOMAIN past[d] : past[d][j] = k}
    IN  IF seen = {}
          THEN recs[d]
          ELSE LET first == CHOOSE j \in seen : \A n \in seen : j <= n
               IN  SubSeq(past[d], first + 1, Len(past[d])) \o <<k>> \o recs[d]

\* A retryable status: keep this record and everything after it, stop.
StopRetryable(d) ==
    /\ pc[d] = "dispatch"
    /\ Kind[cur[d]] \notin {"canonize", "malformed"}
    /\ Len(kept[d]) + 1 + Len(RestAfter(d)) <= MaxBatch
    /\ kept' = [kept EXCEPT ![d] = (kept[d] \o <<cur[d]>>) \o RestAfter(d)]
    /\ recs' = [recs EXCEPT ![d] = <<>>]
    /\ Goto(d, "loop")
    /\ UNCHANGED <<files, lock, fd, cur, past, done, sshDown, dst, remote, late, torn, crashes>>

\* Any other status, a refusal over ssh, or a record dispatch() cannot map.
ConflictRefused(d) ==
    /\ pc[d] = "dispatch"
    /\ conflicts' = conflicts \cup
          {<<cur[d], IF Dispatchable(cur[d]) THEN "refused" ELSE "malformed">>}
    /\ Remember(d, cur[d])
    /\ Goto(d, "loop")
    /\ UNCHANGED <<outbox, rotating, replaying, ledger, lock, fd, recs, cur, kept, done,
                   sshDown, dst, remote, late, torn, crashes>>

\* Nothing kept: the replaying file is unlinked and the flock released.
FinishClean(d) ==
    /\ pc[d] = "loop" /\ recs[d] = <<>>
    /\ kept[d] = <<>>
    /\ replaying' = <<>>
    /\ Exit(d)
    /\ UNCHANGED <<outbox, rotating, ledger, conflicts, fd, remote, late, torn, crashes>>

\* replaying.write_text(...): open("w") truncates the file first ...
Truncate(d) ==
    /\ pc[d] = "loop" /\ recs[d] = <<>>
    /\ kept[d] # <<>>
    /\ replaying' = <<>>
    /\ Goto(d, "rewrite")
    /\ UNCHANGED <<outbox, rotating, ledger, conflicts, lock, fd, locals, remote, late, torn, crashes>>

\* ... and the kept records are written after that.
Rewrite(d) ==
    /\ pc[d] = "rewrite"
    /\ replaying' = kept[d]
    /\ Exit(d)
    /\ UNCHANGED <<outbox, rotating, ledger, conflicts, fd, remote, late, torn, crashes>>

\* The drainer process dies at any point.
Crash(d) ==
    /\ pc[d] # "idle"
    /\ crashes < MaxCrashes
    /\ crashes' = crashes + 1
    /\ torn' = IF pc[d] = "rewrite" THEN torn \cup Elems(kept[d]) ELSE torn
    /\ Exit(d)
    /\ UNCHANGED <<files, fd, remote, late>>
-----------------------------------------------------------------------------
Drain(d) ==
    \/ FoldLeftover(d) \/ UnlinkLeftover(d) \/ Rotate(d) \/ Fold(d) \/ Unlink(d)
    \/ Load(d) \/ Unparseable(d) \/ Parsed(d)
    \/ SkipDone(d) \/ ParkCanonize(d) \/ ConflictSuperseded(d) \/ ToDispatch(d)
    \/ DispatchOk(d) \/ LedgerAppend(d) \/ KeepTransient(d) \/ KeepSSH(d)
    \/ StopRetryable(d) \/ ConflictRefused(d)
    \/ FinishClean(d) \/ Truncate(d) \/ Rewrite(d)

Next ==
    \/ \E k \in Ops : QueueOpen(k) \/ QueueWrite(k)
    \/ \E m \in Memories : DirectUpdate(m)
    \/ \E d \in Drainers : ShimDrain(d) \/ GoOnlineDrain(d) \/ Drain(d) \/ Crash(d)

Spec == Init /\ [][Next]_vars

\* Sessions keep starting, so the shim's drain is triggered again and again; a
\* started process runs on; and the authority does not refuse to serve a
\* record for ever once it is dispatched again and again.
Fairness ==
    /\ \A k \in Ops : WF_vars(QueueWrite(k))
    /\ WF_vars(\E d \in Drainers : ShimDrain(d))
    /\ \A d \in Drainers : WF_vars(Drain(d))
    /\ \A k \in Ops : SF_vars(\E d \in Drainers : cur[d] = k /\ (DispatchOk(d) \/ ConflictRefused(d)))
    /\ \A k \in Ops : SF_vars(\E d \in Drainers : cur[d] = k /\ LedgerAppend(d))

FairSpec == Spec /\ Fairness
-----------------------------------------------------------------------------
(***************************************************************************)
(* Properties.                                                             *)
(***************************************************************************)
TypeOK ==
    /\ outbox \in Seq(Ops) /\ rotating \in Seq(Ops) /\ replaying \in Seq(Ops)
    /\ ledger \subseteq Ops
    /\ conflicts \subseteq Ops \X Reasons
    /\ lock \in Drainers \cup {None}
    /\ fd \in [Ops -> {"unopened", "outbox", "rotating", "unlinked", "closed"}]
    /\ pc \in [Drainers -> PCs]
    /\ recs \in [Drainers -> Seq(Ops)]
    /\ cur \in [Drainers -> Ops \cup {None}]
    /\ past \in [Drainers -> Seq(Ops)]
    /\ kept \in [Drainers -> Seq(Ops)]
    /\ done \in [Drainers -> SUBSET Ops]
    /\ sshDown \in [Drainers -> BOOLEAN]
    /\ dst \in [Drainers -> {"authority", "local"}]
    /\ applied \subseteq Ops /\ stale \subseteq Ops /\ repeated \subseteq Ops
    /\ direct \subseteq Memories
    /\ late \subseteq Ops /\ torn \subseteq Ops
    /\ crashes \in Nat

\* What a drainer holds while the replaying file is truncated.
Rewriting == {k \in Ops : \E d \in Drainers : pc[d] = "rewrite" /\ k \in Elems(kept[d])}

\* A queued record is in one of the three files, in the ledger or in the
\* conflict log, whatever interleaving of writers, drains and crashes brought
\* the system here; the only two ways out are a line written to the rotated
\* inode after it was read, and a crash inside the final rewrite.
LostOnlyInTheTwoWindows ==
    Queued \subseteq OnDisk \cup Settled \cup Rewriting \cup late \cup torn

\* Once a key is in the replayed-key ledger no drain sends it again, not even
\* when a crash between fold and unlink put its record in the batch twice.
LedgeredNeverSentAgain ==
    [][\A k \in ledger : k \in repeated' => k \in repeated]_vars

\* Seen as a queue whose pending records are those on disk or in the hands of
\* the final rewrite, the outbox accounts for every record at every step: it
\* ledgers only what was executed, and neither sends nor conflict-logs a
\* ledgered record, though a crash may have put it in the batch twice and its
\* own stamp makes the copy look superseded.
Pending == OnDisk \cup Rewriting
Lost == late \cup torn

Queue == INSTANCE Delivery WITH
    Messages <- Ops, accepted <- Queued, pending <- Pending, executed <- applied,
    acknowledged <- ledger, setAside <- ConflictKeys, lost <- Lost

ImplementsDelivery == Queue!Spec

\* The ledger vouches only for mutations the authority itself has executed:
\* none is written off against a replica's disposable local store.
LedgeredMeansDelivered == ledger \subseteq applied

\* A queued record is eventually applied and ledgered, or conflict-logged
\* (or it is one of those the two windows lose).
EventuallySettled ==
    \A k \in Ops : fd[k] = "closed" ~> k \in Settled \cup late \cup torn

\* offline-outbox-replay.md: "Every mutation made offline eventually lands on
\* the authority": an update is set aside as superseded only when someone
\* updated the memory online in the meantime, or when it has itself landed.
SupersededOnlyByTheWorld ==
    \A c \in conflicts : c[2] = "superseded" => Target[c[1]] \in direct \/ c[1] \in applied
=============================================================================
