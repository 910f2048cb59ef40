--------------------------- MODULE ChildReap_proofs ---------------------------
(***************************************************************************)
(* Proofs about ChildReap, for any set of killers: a kill never signals a  *)
(* process that is not the session's child, every child keeps a thread     *)
(* that will collect it until its exit is latched, and a latched code      *)
(* proves that it was collected.                                           *)
(***************************************************************************)
EXTENDS ChildReap, TLAPS

\* The steps of the killers, apart from those of the session's own threads.
Kills == \E k \in Killers : CallKill(k) \/ KillLocks(k) \/ KillChecks(k) \/ KillSignals(k)
                            \/ KillReturns(k)

-----------------------------------------------------------------------------
(* Types and the holder of the lock. *)

\* The worker is created once; without this a second one could start while
\* the pump holds the lock.
TypeInv == TypeOK /\ (spawn = "worker" => pump = "none")

\* The initial state is well typed and nobody holds the lock.
LEMMA InitTyped == Init => TypeInv
BY ReapAssumption DEF Init, TypeInv, TypeOK, Codes

\* Every step keeps the types, and the lock with the thread that took it.
LEMMA StepTyped == TypeInv /\ [Next]_vars => TypeInv'
<1> SUFFICES ASSUME TypeInv, [Next]_vars PROVE TypeInv'
  OBVIOUS
<1> USE ReapAssumption DEF TypeInv, TypeOK, Codes
<1>1. CASE StartWorker
  BY <1>1 DEF StartWorker, kernelVars, killVars
<1>2. CASE SpawnChild
  BY <1>2 DEF SpawnChild, killVars
<1>3. CASE OpenGate
  BY <1>3 DEF OpenGate, kernelVars, killVars
<1>4. CASE ChildCloses
  BY <1>4 DEF ChildCloses, killVars
<1>5. CASE ChildExits
  BY <1>5 DEF ChildExits, killVars
<1>6. CASE PidReused
  BY <1>6 DEF PidReused, killVars
<1>7. CASE PassGate \/ ReadEof \/ Slept \/ NotifyExit
  BY <1>7 DEF PassGate, ReadEof, Slept, NotifyExit, kernelVars, killVars
<1>8. CASE PumpLocks
  BY <1>8 DEF PumpLocks, kernelVars, killVars
<1>9. CASE TryWait
  <2>1. pump = "probe" /\ lock = "pump" /\ spawn' = spawn /\ spawn # "worker"
    BY <1>9 DEF TryWait
  <2>2. CASE pump' = "latch"
    <3>1. UNCHANGED <<lock, kpc, result, exited, gate, eof, signalled, signalSafe>>
      BY <1>9, <2>2 DEF TryWait, killVars
    <3>2. child' = "reaped" /\ pid' = "free" /\ code' = "code"
      BY <1>9, <2>2 DEF TryWait
    <3> QED
      BY <2>1, <2>2, <3>1, <3>2
  <2>3. CASE pump' \in {"sleep", "wait"}
    <3>1. UNCHANGED <<spawn, gate, child, pid, code, eof, signalled, exited, kpc, result>>
      BY <1>9, <2>3 DEF TryWait, killVars
    <3>2. lock' = Free /\ signalSafe' \in BOOLEAN
      BY <1>9, <2>3 DEF TryWait
    <3>3. \A k \in Killers : lock' # k /\ kpc[k] \notin {"check", "signal"}
      BY <2>1, <3>2
    <3>4. lock' # "pump" /\ pump' \notin {"probe", "latch"}
      BY <2>3, <3>2
    <3> QED
      BY <2>1, <2>3, <3>1, <3>2, <3>3, <3>4
  <2> QED
    BY <1>9, <2>2, <2>3 DEF TryWait
<1>10. CASE BlockingWait
  BY <1>10 DEF BlockingWait, killVars
<1>11. CASE Latch
  <2>1. lock = "pump" /\ lock' = Free /\ pump' = "notify" /\ spawn # "worker"
    BY <1>11 DEF Latch
  <2>2. exited' = code /\ signalSafe' = FALSE
    BY <1>11 DEF Latch
  <2>3. UNCHANGED <<spawn, gate, code, child, pid, eof, signalled, kpc, result>>
    BY <1>11 DEF Latch, kernelVars, killVars
  <2>4. \A k \in Killers : lock' # k /\ kpc[k] \notin {"check", "signal"}
    BY <2>1
  <2> QED
    BY <2>1, <2>2, <2>3, <2>4
<1>12. CASE Kills
  <2> PICK k \in Killers : CallKill(k) \/ KillLocks(k) \/ KillChecks(k) \/ KillSignals(k)
                           \/ KillReturns(k)
    BY <1>12 DEF Kills
  <2>1. CASE CallKill(k)
    BY <2>1 DEF CallKill, kernelVars
  <2>2. CASE KillLocks(k)
    BY <2>2 DEF KillLocks, kernelVars
  <2>3. CASE KillChecks(k)
    BY <2>3 DEF KillChecks, kernelVars
  <2>4. CASE KillSignals(k)
    BY <2>4 DEF KillSignals
  <2>5. CASE KillReturns(k)
    BY <2>5 DEF KillReturns, kernelVars
  <2> QED
    BY <2>1, <2>2, <2>3, <2>4, <2>5
<1>13. CASE UNCHANGED vars
  BY <1>13 DEF vars, kernelVars, killVars
<1> QED
  BY <1>1, <1>2, <1>3, <1>4, <1>5, <1>6, <1>7, <1>8, <1>9, <1>10, <1>11, <1>12, <1>13
     DEF Next, Kills

\* Types, and the lock of ChildKillerState is held by exactly the thread that
\* is between its acquisition and its release.
THEOREM ReapTyped == Spec => []TypeOK
<1>1. TypeInv => TypeOK
  BY DEF TypeInv
<1> QED
  BY <1>1, InitTyped, StepTyped, PTL DEF Spec

-----------------------------------------------------------------------------
(* Signals.  A killer looks at signalSafe under the lock and signals under   *)
(* the same lock.  What makes that enough: as long as signalSafe holds and   *)
(* the pump is not between waitpid and the latch, which it is only with the  *)
(* lock, the number names our child.                                         *)

\* While signals are allowed the child's number is still ours.
SafeIsOurs == spawn \in {"publish", "ok"} /\ signalSafe /\ pump # "latch" => pid = "ours"
\* The fallback that waits without the lock has disabled signals.
UnlockedWaitUnsafe == pump \in {"wait", "relock"} => ~ signalSafe
\* Nobody kills before the session is published.
KillsPublished == \A k \in Killers : kpc[k] # "idle" => spawn = "ok"
\* What a killer has checked is still true when it signals.
CheckHolds == \A k \in Killers : kpc[k] = "signal" => signalSafe

SignalInv == SafeIsOurs /\ UnlockedWaitUnsafe /\ KillsPublished /\ CheckHolds

\* The initial state has no child and no killer at work.
LEMMA InitSignal == Init => SignalInv
BY DEF Init, SignalInv, SafeIsOurs, UnlockedWaitUnsafe, KillsPublished, CheckHolds

\* Every step keeps the signal invariant.
LEMMA StepSignal == TypeInv /\ SignalInv /\ [Next]_vars => SignalInv'
<1> SUFFICES ASSUME TypeInv, SignalInv, [Next]_vars PROVE SignalInv'
  OBVIOUS
<1> USE ReapAssumption DEF TypeInv, TypeOK, SignalInv, SafeIsOurs, UnlockedWaitUnsafe,
                           KillsPublished, CheckHolds
<1>1. CASE StartWorker
  BY <1>1 DEF StartWorker, kernelVars, killVars
<1>2. CASE SpawnChild
  BY <1>2 DEF SpawnChild, killVars
<1>3. CASE OpenGate
  BY <1>3 DEF OpenGate, kernelVars, killVars
<1>4. CASE ChildCloses \/ ChildExits \/ PidReused
  BY <1>4 DEF ChildCloses, ChildExits, PidReused, killVars
<1>5. CASE PassGate \/ ReadEof \/ Slept \/ NotifyExit
  BY <1>5 DEF PassGate, ReadEof, Slept, NotifyExit, kernelVars, killVars
<1>6. CASE PumpLocks
  BY <1>6 DEF PumpLocks, kernelVars, killVars
<1>7. CASE TryWait
  BY <1>7 DEF TryWait, killVars
<1>8. CASE BlockingWait
  BY <1>8 DEF BlockingWait, killVars
<1>9. CASE Latch
  BY <1>9 DEF Latch, kernelVars, killVars
<1>10. CASE Kills
  <2> PICK k \in Killers : CallKill(k) \/ KillLocks(k) \/ KillChecks(k) \/ KillSignals(k)
                           \/ KillReturns(k)
    BY <1>10 DEF Kills
  <2>1. CASE CallKill(k)
    BY <2>1 DEF CallKill, kernelVars
  <2>2. CASE KillLocks(k)
    BY <2>2 DEF KillLocks, kernelVars
  <2>3. CASE KillChecks(k)
    BY <2>3 DEF KillChecks, kernelVars
  <2>4. CASE KillSignals(k)
    BY <2>4 DEF KillSignals
  <2>5. CASE KillReturns(k)
    BY <2>5 DEF KillReturns, kernelVars
  <2> QED
    BY <2>1, <2>2, <2>3, <2>4, <2>5
<1>11. CASE UNCHANGED vars
  BY <1>11 DEF vars, kernelVars, killVars
<1> QED
  BY <1>1, <1>2, <1>3, <1>4, <1>5, <1>6, <1>7, <1>8, <1>9, <1>10, <1>11 DEF Next, Kills

\* A killer about to signal holds the lock, so the pump is not between waitpid
\* and the latch.
LEMMA SignalIsSafe == TypeInv /\ SignalInv => NoStraySignal
BY ReapAssumption
   DEF TypeInv, TypeOK, SignalInv, SafeIsOurs, KillsPublished, CheckHolds, NoStraySignal

\* kill_if_safe never signals a process that is not the session's child, for
\* any number of concurrent kills.
THEOREM SignalsOnlyOurChild == Spec => []NoStraySignal
<1>1. Init => TypeInv /\ SignalInv
  BY InitTyped, InitSignal
<1>2. (TypeInv /\ SignalInv) /\ [Next]_vars => (TypeInv /\ SignalInv)'
  BY StepTyped, StepSignal
<1>3. TypeInv /\ SignalInv => NoStraySignal
  BY SignalIsSafe
<1> QED
  BY <1>1, <1>2, <1>3, PTL DEF Spec

-----------------------------------------------------------------------------
(* Reaping. *)

\* There is a child only once the worker waits behind its gate.
ChildPublished == child # "none" => spawn \in {"publish", "ok"}
\* Until the gate is opened the worker is behind it.
WorkerFirst ==
    /\ spawn \in {"child", "publish", "abort"} => pump = "gate" /\ gate = "pending"
    /\ spawn = "worker" => gate = "pending"
\* Only the worker of a spawn that failed is sent away.
AbortedHasNoChild == gate = "aborted" => spawn = "failed"
\* The pump comes to the latch with an exit code, and leaves it latched.
CodeInHand ==
    /\ pump \in {"latch", "relock"} => code # "none"
    /\ pump = "notify" => exited # "none"
\* A code in hand is the code of a collected child.
CodeProves == code = "code" => child = "reaped"

ReapInv == /\ ChildPublished /\ WorkerFirst /\ AbortedHasNoChild /\ CodeInHand /\ CodeProves
           /\ ReapAccounted

\* The initial state has no child to account for.
LEMMA InitReap == Init => ReapInv
BY DEF Init, ReapInv, ChildPublished, WorkerFirst, AbortedHasNoChild, CodeInHand, CodeProves,
       ReapAccounted, ChildHasReaper, CodeProvesReaped

\* Every step keeps the reaping invariant.
LEMMA StepReap == TypeInv /\ ReapInv /\ [Next]_vars => ReapInv'
<1> SUFFICES ASSUME TypeInv, ReapInv, [Next]_vars PROVE ReapInv'
  OBVIOUS
<1> USE DEF TypeInv, TypeOK, Codes, ReapInv, ChildPublished, WorkerFirst, AbortedHasNoChild, CodeInHand,
            CodeProves, ReapAccounted, ChildHasReaper, CodeProvesReaped
<1>1. CASE StartWorker
  BY <1>1 DEF StartWorker, kernelVars, killVars
<1>2. CASE SpawnChild
  BY <1>2 DEF SpawnChild, killVars
<1>3. CASE OpenGate
  BY <1>3 DEF OpenGate, kernelVars, killVars
<1>4. CASE ChildCloses \/ ChildExits \/ PidReused
  BY <1>4 DEF ChildCloses, ChildExits, PidReused, killVars
<1>5. CASE PassGate \/ ReadEof \/ Slept \/ NotifyExit
  BY <1>5 DEF PassGate, ReadEof, Slept, NotifyExit, kernelVars, killVars
<1>6. CASE PumpLocks
  BY <1>6 DEF PumpLocks, kernelVars, killVars
<1>7. CASE TryWait
  BY <1>7 DEF TryWait, killVars
<1>8. CASE BlockingWait
  BY <1>8 DEF BlockingWait, killVars
<1>9. CASE Latch
  BY <1>9 DEF Latch, kernelVars, killVars
<1>10. CASE Kills
  BY <1>10 DEF Kills, CallKill, KillLocks, KillChecks, KillSignals, KillReturns, kernelVars
<1>11. CASE UNCHANGED vars
  BY <1>11 DEF vars, kernelVars, killVars
<1> QED
  BY <1>1, <1>2, <1>3, <1>4, <1>5, <1>6, <1>7, <1>8, <1>9, <1>10, <1>11 DEF Next, Kills

\* A child keeps its reaper until its exit is latched, and a latched code
\* proves that the child was collected.
THEOREM ChildrenAreReaped == Spec => []ReapAccounted
<1>1. Init => TypeInv /\ ReapInv
  BY InitTyped, InitReap
<1>2. (TypeInv /\ ReapInv) /\ [Next]_vars => (TypeInv /\ ReapInv)'
  BY StepTyped, StepReap
<1>3. ReapInv => ReapAccounted
  BY DEF ReapInv
<1> QED
  BY <1>1, <1>2, <1>3, PTL DEF Spec
===============================================================================
