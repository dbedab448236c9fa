------------------------------ MODULE ApplyLock ------------------------------
(***************************************************************************)
(* The workspace apply lock (runtime/workspace_lock.py): a file created    *)
(* with O_CREAT | O_EXCL, filled with the owner's token in a second step,  *)
(* and unlinked by the owner after it has read its own token back.  A      *)
(* waiter polls until a deadline.  Nothing ever breaks a lock: the file of *)
(* a process that died, or whose release failed, stays until a human       *)
(* removes it (docs/safety.md, last paragraph).                            *)
(*                                                                         *)
(* A token is a fresh uuid, so the file's content is either the process    *)
(* that still holds the matching handle, or Stale when no live handle      *)
(* matches it any more.                                                    *)
(***************************************************************************)
CONSTANTS Proc,    \* processes (CLI, Web server, bots) of one workspace
          Free,    \* no lock file
          Stale    \* a lock file whose token no live handle knows

ASSUME LockAssumption == Free \notin Proc /\ Stale \notin Proc /\ Free # Stale

VARIABLES lockFile,   \* .pp-agent/locks/apply.lock
          lk          \* each process's progress through acquire and release

lockVars == <<lockFile, lk>>

LockPhases == {"idle", "polling", "created", "held", "unlinking"}
Owning     == {"created", "held", "unlinking"}

LockTypeOK == /\ lockFile \in Proc \cup {Free, Stale}
              /\ lk \in [Proc -> LockPhases]

LockInit == lockFile = Free /\ lk = [p \in Proc |-> "idle"]

MoveLock(p, phase) == lk' = [lk EXCEPT ![p] = phase]

\* acquire(): the deadline starts to run.
StartPolling(p) == lk[p] = "idle" /\ MoveLock(p, "polling") /\ UNCHANGED lockFile

\* Mutants: without O_EXCL, and taking over a lock whose owner seems dead.
CreateLockNotExclusive(p) == lk[p] = "polling" /\ lockFile' = p /\ MoveLock(p, "created")
CreateLockBreaksStale(p) == /\ lk[p] = "polling"
                            /\ lockFile \in {Free, Stale}
                            /\ lockFile' = p
                            /\ MoveLock(p, "created")

\* os.open(O_CREAT | O_EXCL) succeeds only if there is no file.
CreateLock(p) == /\ lk[p] = "polling"
                 /\ lockFile = Free
                 /\ lockFile' = p
                 /\ MoveLock(p, "created")

\* Mutant: the deadline is never compared while the file is somebody's leftover.
GiveUpOnlyOnLive(p) == /\ lk[p] = "polling"
                       /\ lockFile \in Proc
                       /\ MoveLock(p, "idle")
                       /\ UNCHANGED lockFile

\* FileExistsError with the deadline behind us.
GiveUp(p) == /\ lk[p] = "polling"
             /\ lockFile # Free
             /\ MoveLock(p, "idle")
             /\ UNCHANGED lockFile

\* The payload is written and the handle returned.
WriteToken(p) == lk[p] = "created" /\ MoveLock(p, "held") /\ UNCHANGED lockFile

\* The payload cannot be written and the error is raised.  The file is removed
\* first, but an error of that unlink is swallowed: then it stays.
WriteTokenFails(p) == /\ lk[p] = "created"
                      /\ MoveLock(p, "idle")
                      /\ lockFile' \in {Free, Stale}

\* release(), first half: the file is read and its token compared.
ReadToken(p) == /\ lk[p] = "held"
                /\ lockFile = p
                /\ MoveLock(p, "unlinking")
                /\ UNCHANGED lockFile

\* release(), second half.
UnlinkLock(p) == lk[p] = "unlinking" /\ lockFile' = Free /\ MoveLock(p, "idle")

\* The file cannot be read or removed: the handle is dropped, the file stays.
ReleaseFails(p) == /\ lk[p] \in {"held", "unlinking"}
                   /\ lockFile' = Stale
                   /\ MoveLock(p, "idle")

\* The process dies, or a KeyboardInterrupt leaves the apply without release.
LoseHandle(p) == /\ lockFile' = IF lk[p] \in Owning THEN Stale ELSE lockFile
                 /\ MoveLock(p, "idle")

\* A human removes a lock that no live process owns.
CleanUp == lockFile = Stale /\ lockFile' = Free /\ UNCHANGED lk

LockInvariant == \A p \in Proc : lk[p] \in Owning <=> lockFile = p
=============================================================================
