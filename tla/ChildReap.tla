------------------------------ MODULE ChildReap ------------------------------
(***************************************************************************)
(* The life of one session's child on Unix (pty-daemon session.rs): the    *)
(* gate the pump thread is started behind, the reaping loop after the PTY  *)
(* closes, the exit latch, and kill_child / kill_and_wait from request     *)
(* handlers and the shutdown sweep.                                        *)
(*                                                                         *)
(* A kill signals a NUMBER.  waitpid gives the number back to the kernel,  *)
(* and the process that gets it next is not ours.                          *)
(***************************************************************************)
CONSTANTS
    Killers,   \* threads that call kill_and_wait, once each
    Free       \* the lifecycle lock is free

ASSUME ReapAssumption == Free \notin Killers /\ Free # "pump" /\ "pump" \notin Killers

VARIABLES
    spawn,       \* Session::spawn: the worker, the child, the gate, the outcome
    gate,        \* PumpWorkerStart
    pump,        \* where the pump thread is
    code,        \* ... and the exit code it has in hand
    child,       \* the process (kernel)
    pid,         \* whom the child's number names (kernel)
    eof,         \* the PTY is closed (kernel)
    signalled,   \* the child has been signalled (kernel)
    exited,      \* the exit latch
    signalSafe,  \* ChildKillerState.signal_safe
    lock,        \* the lock around ChildKillerState
    kpc,         \* where each killer is
    result       \* what its kill_and_wait returned

kernelVars == <<child, pid, eof, signalled>>
killVars   == <<kpc, result>>
vars == <<spawn, gate, pump, code, kernelVars, exited, signalSafe, lock, killVars>>

Codes == {"none", "code", "unknown"}

TypeOK ==
    /\ spawn \in {"worker", "child", "publish", "abort", "ok", "failed"}
    /\ gate \in {"pending", "started", "aborted"}
    /\ pump \in {"none", "gate", "read", "lock", "probe", "latch", "sleep", "wait", "relock",
                 "notify", "gone"}
    /\ code \in Codes /\ exited \in Codes
    /\ child \in {"none", "running", "zombie", "reaped"}
    /\ pid \in {"free", "ours", "other"}
    /\ eof \in BOOLEAN /\ signalled \in BOOLEAN /\ signalSafe \in BOOLEAN
    /\ lock \in Killers \cup {"pump", Free}
    /\ kpc \in [Killers -> {"idle", "want", "check", "signal", "poll", "done"}]
    /\ result \in [Killers -> {"none", "reaped", "timeout"}]
    /\ lock = "pump" <=> pump \in {"probe", "latch"}
    /\ \A k \in Killers : lock = k <=> kpc[k] \in {"check", "signal"}

Init ==
    /\ spawn = "worker" /\ gate = "pending"
    /\ pump = "none" /\ code = "none"
    /\ child = "none" /\ pid = "free" /\ eof = FALSE /\ signalled = FALSE
    /\ exited = "none" /\ signalSafe = TRUE /\ lock = Free
    /\ kpc = [k \in Killers |-> "idle"]
    /\ result = [k \in Killers |-> "none"]

-----------------------------------------------------------------------------
(* Session::spawn *)

\* Mutation: the failure to create the thread is ignored.
MutStartWorker ==
    /\ spawn = "worker"
    /\ spawn' = "child" /\ pump' \in {"none", "gate"}
    /\ UNCHANGED <<gate, code, kernelVars, exited, signalSafe, lock, killVars>>

\* The pump thread is created before the child; if that fails there is none.
StartWorker ==
    /\ spawn = "worker"
    /\ \/ spawn' = "child" /\ pump' = "gate"
       \/ spawn' = "failed" /\ UNCHANGED pump
    /\ UNCHANGED <<gate, code, kernelVars, exited, signalSafe, lock, killVars>>

SpawnChild ==
    /\ spawn = "child"
    /\ \/ spawn' = "publish" /\ child' = "running" /\ pid' = "ours"
       \/ spawn' = "abort" /\ UNCHANGED <<child, pid>>
    /\ UNCHANGED <<gate, pump, code, eof, signalled, exited, signalSafe, lock, killVars>>

\* The worker is handed the child, or told that there is none.
OpenGate ==
    /\ spawn \in {"publish", "abort"}
    /\ gate' = IF spawn = "publish" THEN "started" ELSE "aborted"
    /\ spawn' = IF spawn = "publish" THEN "ok" ELSE "failed"
    /\ UNCHANGED <<pump, code, kernelVars, exited, signalSafe, lock, killVars>>

-----------------------------------------------------------------------------
(* The kernel (external). *)

\* The child may close its side of the PTY and go on.
ChildCloses ==
    /\ child = "running" /\ ~ eof
    /\ eof' = TRUE
    /\ UNCHANGED <<spawn, gate, pump, code, child, pid, signalled, exited, signalSafe, lock,
                   killVars>>

\* It exits, on its own or signalled; its terminal is hung up.
ChildExits ==
    /\ child = "running"
    /\ child' = "zombie" /\ eof' = TRUE
    /\ UNCHANGED <<spawn, gate, pump, code, pid, signalled, exited, signalSafe, lock, killVars>>

\* The number of a collected process is given to another one.
PidReused ==
    /\ child = "reaped" /\ pid = "free"
    /\ pid' = "other"
    /\ UNCHANGED <<spawn, gate, pump, code, child, eof, signalled, exited, signalSafe, lock,
                   killVars>>

-----------------------------------------------------------------------------
(* The pump thread.  What it does with output is SessionStream's. *)

PassGate ==
    /\ pump = "gate" /\ gate # "pending"
    /\ pump' = IF gate = "started" THEN "read" ELSE "gone"
    /\ UNCHANGED <<spawn, gate, code, kernelVars, exited, signalSafe, lock, killVars>>

ReadEof ==
    /\ pump = "read" /\ eof
    /\ pump' = "lock"
    /\ UNCHANGED <<spawn, gate, code, kernelVars, exited, signalSafe, lock, killVars>>

PumpLocks ==
    /\ pump \in {"lock", "relock"} /\ lock = Free
    /\ lock' = "pump"
    /\ pump' = IF pump = "lock" THEN "probe" ELSE "latch"
    /\ UNCHANGED <<spawn, gate, code, kernelVars, exited, signalSafe, killVars>>

\* Mutation: the lock is released between waitpid and the latch.
MutTryWait ==
    /\ pump = "probe"
    /\ \/ /\ child = "zombie"
          /\ child' = "reaped" /\ pid' = "free"
          /\ code' = "code" /\ pump' = "relock" /\ lock' = Free
          /\ UNCHANGED signalSafe
       \/ /\ pump' = "sleep" /\ lock' = Free
          /\ UNCHANGED <<child, pid, code, signalSafe>>
       \/ /\ signalSafe' = FALSE
          /\ pump' = "wait" /\ lock' = Free
          /\ UNCHANGED <<child, pid, code>>
    /\ UNCHANGED <<spawn, gate, eof, signalled, exited, killVars>>

\* try_wait: the child is collected and the lock kept for the latch; or
\* there is nothing yet, or a signal interrupted it; or it failed hard.
TryWait ==
    /\ pump = "probe"
    /\ \/ /\ child = "zombie"
          /\ child' = "reaped" /\ pid' = "free"
          /\ code' = "code" /\ pump' = "latch"
          /\ UNCHANGED <<signalSafe, lock>>
       \/ /\ pump' = "sleep" /\ lock' = Free
          /\ UNCHANGED <<child, pid, code, signalSafe>>
       \/ /\ signalSafe' = FALSE
          /\ pump' = "wait" /\ lock' = Free
          /\ UNCHANGED <<child, pid, code>>
    /\ UNCHANGED <<spawn, gate, eof, signalled, exited, killVars>>

\* The backoff between two probes.
Slept ==
    /\ pump = "sleep"
    /\ pump' = "lock"
    /\ UNCHANGED <<spawn, gate, code, kernelVars, exited, signalSafe, lock, killVars>>

\* Mutation: the blocking wait is made under the lock.
MutBlockingWait ==
    /\ pump = "wait" /\ lock \in {Free, "pump"}
    /\ \/ lock = Free /\ lock' = "pump" /\ UNCHANGED <<pump, child, pid, code>>
       \/ /\ lock = "pump" /\ child = "zombie"
          /\ child' = "reaped" /\ pid' = "free" /\ code' = "code"
          /\ pump' = "relock" /\ lock' = Free
    /\ UNCHANGED <<spawn, gate, eof, signalled, exited, signalSafe, killVars>>

\* The fallback: a blocking wait, without the lock.  It may fail too.
BlockingWait ==
    /\ pump = "wait"
    /\ pump' = "relock"
    /\ \/ child = "zombie" /\ child' = "reaped" /\ pid' = "free" /\ code' = "code"
       \/ code' = "unknown" /\ UNCHANGED <<child, pid>>
    /\ UNCHANGED <<spawn, gate, eof, signalled, exited, signalSafe, lock, killVars>>

\* The latch is set and further signals are disabled under the lock.
Latch ==
    /\ pump = "latch"
    /\ exited' = code /\ signalSafe' = FALSE /\ lock' = Free
    /\ pump' = "notify"
    /\ UNCHANGED <<spawn, gate, code, kernelVars, killVars>>

\* The exit is broadcast and the thread ends.
NotifyExit ==
    /\ pump = "notify"
    /\ pump' = "gone"
    /\ UNCHANGED <<spawn, gate, code, kernelVars, exited, signalSafe, lock, killVars>>

-----------------------------------------------------------------------------
(* kill_and_wait: kill_child and then a bounded wait for the latch. *)

CallKill(k) ==
    /\ spawn = "ok" /\ kpc[k] = "idle"
    /\ kpc' = [kpc EXCEPT ![k] = "want"]
    /\ UNCHANGED <<spawn, gate, pump, code, kernelVars, exited, signalSafe, lock, result>>

KillLocks(k) ==
    /\ kpc[k] = "want" /\ lock = Free
    /\ lock' = k
    /\ kpc' = [kpc EXCEPT ![k] = "check"]
    /\ UNCHANGED <<spawn, gate, pump, code, kernelVars, exited, signalSafe, result>>

\* kill_if_safe
KillChecks(k) ==
    /\ kpc[k] = "check"
    /\ IF signalSafe /\ exited = "none"
       THEN kpc' = [kpc EXCEPT ![k] = "signal"] /\ UNCHANGED lock
       ELSE kpc' = [kpc EXCEPT ![k] = "poll"] /\ lock' = Free
    /\ UNCHANGED <<spawn, gate, pump, code, kernelVars, exited, signalSafe, result>>

KillSignals(k) ==
    /\ kpc[k] = "signal"
    /\ signalled' = (signalled \/ pid = "ours")
    /\ kpc' = [kpc EXCEPT ![k] = "poll"] /\ lock' = Free
    /\ UNCHANGED <<spawn, gate, pump, code, child, pid, eof, exited, signalSafe, result>>

\* The latch is seen, or the deadline passes first.
KillReturns(k) ==
    /\ kpc[k] = "poll"
    /\ kpc' = [kpc EXCEPT ![k] = "done"]
    /\ result' = [result EXCEPT ![k] = IF exited # "none" THEN "reaped" ELSE "timeout"]
    /\ UNCHANGED <<spawn, gate, pump, code, kernelVars, exited, signalSafe, lock>>

-----------------------------------------------------------------------------
Next ==
    \/ StartWorker \/ SpawnChild \/ OpenGate
    \/ ChildCloses \/ ChildExits \/ PidReused
    \/ PassGate \/ ReadEof \/ PumpLocks \/ TryWait \/ Slept \/ BlockingWait \/ Latch
    \/ NotifyExit
    \/ \E k \in Killers : CallKill(k) \/ KillLocks(k) \/ KillChecks(k) \/ KillSignals(k)
                          \/ KillReturns(k)

Spec == Init /\ [][Next]_vars

\* Threads run; a mutex that is free again and again is obtained (the pump
\* sleeps between probes); waitpid finds a child that has died.  Nothing makes
\* a signalled child die: one SIGHUP is sent, and it may ignore that.
Fairness ==
    /\ WF_vars(StartWorker) /\ WF_vars(SpawnChild) /\ WF_vars(OpenGate)
    /\ WF_vars(PassGate) /\ WF_vars(ReadEof) /\ SF_vars(PumpLocks) /\ WF_vars(Slept)
    /\ WF_vars(TryWait) /\ SF_vars(TryWait /\ child' = "reaped")
    /\ WF_vars(child = "zombie" /\ BlockingWait) /\ WF_vars(Latch) /\ WF_vars(NotifyExit)
    /\ \A k \in Killers : SF_vars(KillLocks(k)) /\ WF_vars(KillChecks(k))
                          /\ WF_vars(KillSignals(k)) /\ WF_vars(KillReturns(k))

FairSpec == Spec /\ Fairness

-----------------------------------------------------------------------------
(* Properties. *)

\* A signal only ever goes to our own child: between the check and the
\* signal, or after waitpid has given the number back, no killer can reach
\* another process (the lock spans waitpid and the latch, and the check and
\* the signal; session.rs ChildKillerState).
NoStraySignal == \A k \in Killers : kpc[k] = "signal" => pid = "ours"

\* A child has a thread that will reap it: it is never spawned without one
\* (the worker is started first, behind its gate), and the thread ends before
\* the child is collected only where the blocking wait has failed.
ChildHasReaper ==
    child \in {"running", "zombie"} => pump \notin {"none", "gone"} \/ exited = "unknown"

\* A latched exit code proves that the process was collected.  The latch that
\* a failed wait sets proves nothing: see LatchProvesCollected.
CodeProvesReaped == exited = "code" => child = "reaped"

\* Every child is accounted for until its exit is latched, and a latched code
\* accounts for the child.
ReapAccounted == ChildHasReaper /\ CodeProvesReaped

\* What kill_and_wait documents and can_reclaim relies on: a set latch, with a
\* code or without, proves that the process-table entry was collected.
\* Refuted: when try_wait and then wait fail, the pump latches "unknown" and
\* knows nothing of the child.
LatchProvesCollected == exited # "none" => child = "reaped"

\* The exit of a dead child is latched, a kill returns even when the child
\* ignores the signal or the pump waits for it without end, and the worker of
\* a failed spawn ends.
NobodyWaitsForEver ==
    /\ child = "zombie" ~> exited # "none"
    /\ \A k \in Killers : kpc[k] = "want" ~> kpc[k] = "done"
    /\ spawn = "failed" ~> pump \in {"none", "gone"}
=============================================================================
