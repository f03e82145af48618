------------------------------- MODULE PidLock -------------------------------
(***************************************************************************)
(* _acquire_pid_lock and _release_pid_lock of run_live.py: several         *)
(* processes of one user, one file. Each file operation is a step of its   *)
(* own, and a process can die between any two of them.                     *)
(***************************************************************************)
EXTENDS Naturals, FiniteSets

CONSTANTS
  Procs,  \* processes ever launched, each with a PID of its own
  None    \* no file; also old_pid = None

ASSUME LockAssumption == None \notin Procs

VARIABLES
  pc,       \* [Procs -> Steps]
  file,     \* who created the olympus.pid that is there, None if none is
  written,  \* whether its creator has written its PID into it
  old,      \* [Procs -> Procs \cup {None}]: old_pid
  overlap,  \* history: whether two were inside _acquire_pid_lock at once
  taken     \* history: whether the file of a living process was removed by another

lockVars == <<pc, file, written, old, overlap, taken>>

Steps == {"new", "open", "write", "read", "kill", "unlink", "running", "stopped"}

Acquiring == {p \in Procs : pc[p] \in {"open", "write", "read", "kill", "unlink"}}
Living    == {p \in Procs : pc[p] \notin {"new", "stopped"}}
Running   == {p \in Procs : pc[p] = "running"}

LockInit ==
  /\ pc = [p \in Procs |-> "new"] /\ file = None /\ written = FALSE
  /\ old = [p \in Procs |-> None]
  /\ overlap = FALSE /\ taken = FALSE

Go(p, from, to) == pc[p] = from /\ pc' = [pc EXCEPT ![p] = to]

Launch(p) ==
  /\ Go(p, "new", "open")
  /\ overlap' = (overlap \/ Acquiring # {})
  /\ UNCHANGED <<file, written, old, taken>>

\* os.open(_PID_FILE, O_CREAT | O_EXCL | O_WRONLY) (mutant: without O_EXCL)
CreateAnyway(p) ==
  /\ file' = p /\ written' = FALSE
  /\ Go(p, "open", "write") /\ UNCHANGED <<old, overlap, taken>>
Create(p) ==
  /\ file = None /\ file' = p /\ written' = FALSE
  /\ Go(p, "open", "write") /\ UNCHANGED <<old, overlap, taken>>

Exists(p) ==
  /\ file # None
  /\ Go(p, "open", "read") /\ UNCHANGED <<file, written, old, overlap, taken>>

\* handle.write(str(os.getpid())) reaches the file p created, which may have
\* been unlinked and replaced since.
Write(p) ==
  /\ Go(p, "write", "running")
  /\ written' = (written \/ file = p)
  /\ UNCHANGED <<file, old, overlap, taken>>

\* int(_PID_FILE.read_text()): an empty or vanished file gives None.
ReadPid(p) ==
  /\ Go(p, "read", "kill")
  /\ old' = [old EXCEPT ![p] = IF written THEN file ELSE None]
  /\ UNCHANGED <<file, written, overlap, taken>>

\* The file that is there is unlinked, whosever it is by now.
Removed(p) ==
  /\ file' = None /\ written' = FALSE
  /\ taken' = (taken \/ file \in Living \ {p})
  /\ UNCHANGED <<old, overlap>>

\* os.kill(old_pid, 0) found the process: sys.exit(1) (mutant: releasing on exit).
RefuseReleasing(p) ==
  /\ old[p] \in Living
  /\ Go(p, "kill", "stopped") /\ Removed(p)

Refuse(p) ==
  /\ old[p] \in Living
  /\ Go(p, "kill", "stopped") /\ UNCHANGED <<file, written, old, overlap, taken>>

\* The process is gone, or there was no PID to ask about (mutants: not asked; tried
\* again at once when there was no PID).
StaleAlways(p) ==
  Go(p, "kill", "unlink") /\ UNCHANGED <<file, written, old, overlap, taken>>
StaleIfNamed(p) ==
  /\ old[p] \notin Living
  /\ IF old[p] = None THEN Go(p, "kill", "open") ELSE Go(p, "kill", "unlink")
  /\ UNCHANGED <<file, written, old, overlap, taken>>
Stale(p) ==
  /\ old[p] \notin Living
  /\ Go(p, "kill", "unlink") /\ UNCHANGED <<file, written, old, overlap, taken>>

\* _PID_FILE.unlink(missing_ok=True); continue.
Unlink(p) == Go(p, "unlink", "open") /\ Removed(p)

\* An OSError of unlink is swallowed: sleep, and continue.
UnlinkFails(p) ==
  /\ Go(p, "unlink", "open") /\ UNCHANGED <<file, written, old, overlap, taken>>

\* Clean shutdown: _release_pid_lock unlinks whatever file is there.
Release(p) == Go(p, "running", "stopped") /\ Removed(p)

\* A crash, or an exit that leaves the file behind.
Die(p) ==
  /\ p \in Living
  /\ pc' = [pc EXCEPT ![p] = "stopped"] /\ UNCHANGED <<file, written, old, overlap, taken>>

Step(p) ==
  \/ Create(p) \/ Exists(p) \/ Write(p) \/ ReadPid(p) \/ Refuse(p) \/ Stale(p)
  \/ Unlink(p) \/ UnlinkFails(p)

LockNext == \E p \in Procs : Launch(p) \/ Step(p) \/ Release(p) \/ Die(p)

LockSpec == LockInit /\ [][LockNext]_lockVars

\* A process inside _acquire_pid_lock keeps executing it until it dies.
FairLockSpec == LockSpec /\ \A p \in Procs : WF_lockVars(Step(p))

--------------------------------------------------------------------------------
\* Steps, file and memory of the file keep their types.
LockTypeOK ==
  /\ pc \in [Procs -> Steps]
  /\ file \in Procs \cup {None} /\ written \in BOOLEAN
  /\ old \in [Procs -> Procs \cup {None}]
  /\ {overlap, taken} \subseteq BOOLEAN

\* When no two processes acquire the lock at the same time, at most one runs,
\* however many of them crash and leave their file behind.
SerialMutex == ~overlap => \A p, q \in Running : p = q

\* A running process that is alone can always be found through its file.
RunnerIsNamed == ~overlap => \A p \in Running : file = p /\ written

\* When launches do overlap, two processes run together only if one of them removed
\* the file of a process that lives: it judged the file that was there before, or
\* this one before its PID was in it. No other interleaving lets a second one in.
MutexUnlessTaken == ~taken => \A p, q \in Running : p = q

\* A launch ends, in a run, in a refusal or in a crash, unless the removal of a stale
\* file keeps failing.
LaunchEnds ==
  (\A p \in Procs : SF_lockVars(Unlink(p)))
    => \A p \in Procs : pc[p] = "open" ~> pc[p] \in {"running", "stopped"}
===============================================================================
