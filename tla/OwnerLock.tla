----------------------------- MODULE OwnerLock -----------------------------
(***************************************************************************)
(* core/file_lock.py: a lock that is a file created with O_EXCL holding    *)
(* "pid:token".  Every hook event runs in its own process, so the file is  *)
(* the only thing the processes share.  A waiter that finds the record of  *)
(* a dead process, or an empty record older than STALE_LOCK_SECONDS,       *)
(* unlinks the file and tries again.                                       *)
(*                                                                         *)
(* Each system call is a step of its own: reading the record, comparing it *)
(* again and unlinking the PATH are three steps, and the file at the path  *)
(* may be another one each time.                                           *)
(*                                                                         *)
(* Guarded = TRUE is core/agent_log.ledger_transaction on POSIX, which     *)
(* takes an flock before the owner file; Guarded = FALSE is owner_lock as  *)
(* core/state_layout.state_write_scope and the migration use it (and       *)
(* ledger_transaction on Windows).                                         *)
(***************************************************************************)
EXTENDS Naturals, FiniteSets

CONSTANTS
  Procs,      \* processes; one may lock several times, each with a new token
  None,       \* no process, no file, no text in the file
  MaxRounds,  \* bound: acquisitions attempted per process
  MaxFaults,  \* bound: process deaths and failed writes together
  Guarded,    \* is the owner file taken under the flock guard?
  MayStall    \* may a live creator sleep past STALE_LOCK_SECONDS before it
              \* has written its record?

\* One acquisition: "pid:uuid" names the process and its round.
Token == Procs \X (0 .. MaxRounds)

ASSUME LockAssumption ==
  /\ MaxRounds \in Nat /\ MaxFaults \in Nat
  /\ Guarded \in BOOLEAN /\ MayStall \in BOOLEAN
  /\ None \notin Procs /\ None \notin Token

VARIABLES
  file,    \* the file at the path, named by the token of its creator
  rec,     \* what read_owner_record returns for it; None: still empty
  old,     \* its mtime is more than STALE_LOCK_SECONDS ago
  guard,   \* holder of the flock
  pc,      \* where each process is in acquire / body / release
  round,   \* acquisitions begun by each process (its current uuid)
  seen,    \* the local "stale": the record acquire_owner_lock means to remove
  faults   \* deaths and failed writes so far

vars == <<file, rec, old, guard, pc, round, seen, faults>>
fileVars == <<file, rec, old>>

Label == {"idle", "guard", "open", "write", "inspect", "stat", "match",
          "unlink", "wait", "held", "relmatch", "relunlink", "leave", "dead"}

Tok(p) == <<p, round[p]>>
Dead(p) == pc[p] = "dead"

TypeOK ==
  /\ file \in Token \cup {None}
  /\ rec \in Token \cup {None}
  /\ old \in BOOLEAN
  /\ guard \in Procs \cup {None}
  /\ pc \in [Procs -> Label]
  /\ round \in [Procs -> 0 .. MaxRounds]
  /\ seen \in [Procs -> Token \cup {None}]
  /\ faults \in 0 .. MaxFaults

Init ==
  /\ file = None /\ rec = None /\ old = FALSE
  /\ guard = None
  /\ pc = [p \in Procs |-> "idle"]
  /\ round = [p \in Procs |-> 0]
  /\ seen = [p \in Procs |-> None]
  /\ faults = 0

Goto(p, l) == pc' = [pc EXCEPT ![p] = l]

\* The path no longer names a file.
NoFile == file' = None /\ rec' = None /\ old' = FALSE

-----------------------------------------------------------------------------
(* Acquiring.                                                              *)

\* owner_lock / _owned_lock: a fresh uuid, then the guard or the file.
Begin(p) ==
  /\ pc[p] = "idle" /\ round[p] < MaxRounds
  /\ round' = [round EXCEPT ![p] = @ + 1]
  /\ Goto(p, IF Guarded THEN "guard" ELSE "open")
  /\ UNCHANGED <<fileVars, guard, seen, faults>>

\* Variant: LOCK_SH where LOCK_EX is meant.
TakeGuardShared(p) ==
  /\ pc[p] = "guard"
  /\ guard' = p
  /\ Goto(p, "open")
  /\ UNCHANGED <<fileVars, round, seen, faults>>

TakeGuard(p) ==
  /\ pc[p] = "guard" /\ guard = None
  /\ guard' = p
  /\ Goto(p, "open")
  /\ UNCHANGED <<fileVars, round, seen, faults>>

\* flock failed with EAGAIN and the deadline is over.
GuardExpires(p) ==
  /\ pc[p] = "guard" /\ guard # None
  /\ Goto(p, "idle")
  /\ UNCHANGED <<fileVars, guard, round, seen, faults>>

\* os.open with O_CREAT | O_EXCL: a new, empty file, or FileExistsError.
Open(p) ==
  /\ pc[p] = "open"
  /\ \/ /\ file = None
        /\ file' = Tok(p) /\ rec' = None /\ old' = FALSE
        /\ Goto(p, "write")
     \/ /\ file # None
        /\ Goto(p, "inspect") /\ UNCHANGED fileVars
  /\ UNCHANGED <<guard, round, seen, faults>>

\* os.write goes to the descriptor: it reaches the path's file only while
\* that is still the one this process created.
WriteTo(p) == rec' = IF file = Tok(p) THEN Tok(p) ELSE rec

Write(p) ==
  /\ pc[p] = "write"
  /\ WriteTo(p)
  /\ Goto(p, "held")
  /\ UNCHANGED <<file, old, guard, round, seen, faults>>

\* os.write or os.fsync raises: the caller gets the OSError, and nothing in
\* acquire_owner_lock takes the file away again.
WriteFails(p) ==
  /\ pc[p] = "write" /\ faults < MaxFaults
  /\ faults' = faults + 1
  /\ WriteTo(p) \/ rec' = rec
  /\ Goto(p, "leave")
  /\ UNCHANGED <<file, old, guard, round, seen>>

\* Variant: every pid counts as alive.
InspectTrustsAll(p) ==
  /\ pc[p] = "inspect"
  /\ \/ (file = None \/ rec # None) /\ Goto(p, "wait")
     \/ file # None /\ rec = None /\ Goto(p, "stat")
  /\ UNCHANGED <<fileVars, guard, round, seen, faults>>

\* stale_owner_record: only the record of a dead process is stale.
Inspect(p) ==
  /\ pc[p] = "inspect"
  /\ \/ file = None /\ Goto(p, "wait") /\ UNCHANGED seen
     \/ file # None /\ rec = None /\ Goto(p, "stat") /\ UNCHANGED seen
     \/ rec # None /\ ~Dead(rec[1]) /\ Goto(p, "wait") /\ UNCHANGED seen
     \/ /\ rec # None /\ Dead(rec[1])
        /\ seen' = [seen EXCEPT ![p] = rec] /\ Goto(p, "match")
  /\ UNCHANGED <<fileVars, guard, round, faults>>

\* ... or an unreadable one, by the mtime of whatever is at the path now.
Stat(p) ==
  /\ pc[p] = "stat"
  /\ \/ file # None /\ old
        /\ seen' = [seen EXCEPT ![p] = None] /\ Goto(p, "match")
     \/ ~(file # None /\ old) /\ Goto(p, "wait") /\ UNCHANGED seen
  /\ UNCHANGED <<fileVars, guard, round, faults>>

\* unlink_matching_owner: compare ...
Match(p) ==
  /\ pc[p] = "match"
  /\ Goto(p, IF file # None /\ rec = seen[p] THEN "unlink" ELSE "wait")
  /\ UNCHANGED <<fileVars, guard, round, seen, faults>>

\* ... and unlink the path; a missing file is False, not an error.
Unlink(p) ==
  /\ pc[p] = "unlink"
  /\ NoFile
  /\ Goto(p, IF file # None THEN "open" ELSE "wait")
  /\ UNCHANGED <<guard, round, seen, faults>>

\* Before the deadline: sleep and try again.
Retry(p) ==
  /\ pc[p] = "wait"
  /\ Goto(p, "open")
  /\ UNCHANGED <<fileVars, guard, round, seen, faults>>

\* Variant: the deadline is not looked at.
ExpireRetries(p) ==
  /\ pc[p] = "wait"
  /\ Goto(p, "open")
  /\ UNCHANGED <<fileVars, guard, round, seen, faults>>

\* After it: TimeoutError.
Expire(p) ==
  /\ pc[p] = "wait"
  /\ Goto(p, "leave")
  /\ UNCHANGED <<fileVars, guard, round, seen, faults>>

-----------------------------------------------------------------------------
(* Releasing.                                                              *)

\* The with-body ends, normally or by an exception.
EndBody(p) ==
  /\ pc[p] = "held"
  /\ Goto(p, "relmatch")
  /\ UNCHANGED <<fileVars, guard, round, seen, faults>>

\* release_owner_lock: a missing file or another owner's record is left alone.
ReleaseMatch(p) ==
  /\ pc[p] = "relmatch"
  /\ Goto(p, IF file # None /\ rec = Tok(p) THEN "relunlink" ELSE "leave")
  /\ UNCHANGED <<fileVars, guard, round, seen, faults>>

ReleaseUnlink(p) ==
  /\ pc[p] = "relunlink"
  /\ NoFile /\ Goto(p, "leave")
  /\ UNCHANGED <<guard, round, seen, faults>>

\* The finally of _posix_guard: LOCK_UN, after the owner file was dealt with.
Leave(p) ==
  /\ pc[p] = "leave"
  /\ guard' = IF guard = p THEN None ELSE guard
  /\ Goto(p, "idle")
  /\ UNCHANGED <<fileVars, round, seen, faults>>

-----------------------------------------------------------------------------
(* The environment.                                                        *)

\* The process dies; the kernel drops its flock, the owner file stays.
Crash(p) ==
  /\ ~Dead(p) /\ faults < MaxFaults
  /\ faults' = faults + 1
  /\ guard' = IF guard = p THEN None ELSE guard
  /\ Goto(p, "dead")
  /\ UNCHANGED <<fileVars, round, seen>>

\* STALE_LOCK_SECONDS pass over an empty file.
Age ==
  /\ file # None /\ rec = None /\ ~old
  /\ MayStall \/ ~(pc[file[1]] = "write" /\ Tok(file[1]) = file)
  /\ old' = TRUE
  /\ UNCHANGED <<file, rec, guard, pc, round, seen, faults>>

Step(p) ==
  \/ Begin(p) \/ TakeGuard(p) \/ GuardExpires(p)
  \/ Open(p) \/ Write(p) \/ WriteFails(p)
  \/ Inspect(p) \/ Stat(p) \/ Match(p) \/ Unlink(p) \/ Retry(p) \/ Expire(p)
  \/ EndBody(p) \/ ReleaseMatch(p) \/ ReleaseUnlink(p) \/ Leave(p)
  \/ Crash(p)

Next == Age \/ \E p \in Procs : Step(p)

Spec == Init /\ [][Next]_vars

\* The scheduler runs every process, bodies end and deadlines pass; deaths,
\* failed writes and new acquisitions are never owed.
Fairness ==
  \A p \in Procs :
    /\ WF_vars(Open(p) \/ Write(p) \/ Inspect(p) \/ Stat(p) \/ Match(p)
               \/ Unlink(p) \/ Retry(p) \/ EndBody(p) \/ ReleaseMatch(p)
               \/ ReleaseUnlink(p) \/ Leave(p))
    /\ SF_vars(TakeGuard(p)) /\ SF_vars(GuardExpires(p)) /\ SF_vars(Expire(p))

FairSpec == Spec /\ Fairness

-----------------------------------------------------------------------------
(* Properties.                                                             *)

\* Two bodies never run at once: the ledger and the layout barrier rest on it.
MutualExclusion ==
  \A p, q \in Procs : pc[p] = "held" /\ pc[q] = "held" => p = q

\* The record of a live holder stays on disk until it is released: nobody's
\* reclaim of a dead record may have hit the successor's file instead.
HolderOwnsFile ==
  \A p \in Procs : pc[p] \in {"held", "relmatch", "relunlink"}
                     => file = Tok(p) /\ rec = Tok(p)

\* A waiter gives up on an attempt, and so comes to its deadline, only over a
\* file whose owner is alive or cannot be told yet: a dead owner's record, or
\* a file already gone, never costs a waiter its deadline.
WaitOnlyIfUndecided ==
  [][\A p \in Procs : pc[p] # "wait" /\ pc'[p] = "wait" =>
       file # None /\ (rec = None \/ ~Dead(rec[1]))]_vars

\* A lock operation ends: by the body's end, by the deadline, or by death.
EveryCallReturns ==
  \A p \in Procs : pc[p] # "idle" ~> pc[p] \in {"idle", "dead"}

\* A waiter that finds a dead owner's record gets rid of it, unless it dies.
DeadOwnerReclaimed ==
  \A p \in Procs, t \in Token :
    (pc[p] = "open" /\ rec = t /\ Dead(t[1])) ~> (rec # t \/ Dead(p))

\* Seen from outside, the lock is the abstract mutex.
Holder == IF \E p \in Procs : pc[p] = "held"
          THEN CHOOSE p \in Procs : pc[p] = "held"
          ELSE None

M == INSTANCE Mutex WITH holder <- Holder

ImplementsMutex == M!Spec
=============================================================================
