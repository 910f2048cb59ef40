--------------------------- MODULE DaemonShutdown ---------------------------
(***************************************************************************)
(* The end of a pty-daemon process on Unix (main.rs run_platform): a       *)
(* termination signal ends the accept loop, shutdown kills and awaits every*)
(* mapped child under the daemon mutex and clears the map, and the process *)
(* exits.  The connection handlers are detached tasks: nothing stops them  *)
(* between the sweep and the exit, so the actions of Daemon go on.         *)
(***************************************************************************)
EXTENDS Daemon

VARIABLES
    phase,        \* "running", "swept" after shutdown(), "stopped"
    unconfirmed   \* ShutdownReport.unconfirmed, as generations

lifeVars == <<vars, phase, unconfirmed>>

LifeInit == Init /\ phase = "running" /\ unconfirmed = {}

\* shutdown_with_timeout: each mapped child is killed; R confirm their exit
\* within the budget.  The map is cleared whatever they do.
Sweep(R) ==
    /\ phase = "running"
    /\ R \subseteq {mapped[i] : i \in Ids} \ {NoGen}
    /\ exited' = exited \cup R
    /\ unconfirmed' = ({mapped[i] : i \in Ids} \ {NoGen}) \ (exited \cup R)
    /\ mapped' = [i \in Ids |-> NoGen]
    /\ phase' = "swept"
    /\ UNCHANGED <<home, nextGen, origin, fenceVars, ledgerVars, connVars>>

\* run_platform returns and the runtime is torn down with every task in it.
Exit ==
    /\ phase = "swept"
    /\ phase' = "stopped"
    /\ conn' = [c \in Clients |-> "closed"]
    /\ UNCHANGED <<mapVars, fenceVars, ledgerVars, req, att, startRefused,
                   attachRefused, unconfirmed>>

LifeNext ==
    \/ /\ phase # "stopped"
       /\ \/ \E c \in Clients : ClientStep(c)
          \/ phase = "running" /\ \E c \in Clients : Accept(c)
          \/ \E g \in Gens : ChildExit(g)
       /\ UNCHANGED <<phase, unconfirmed>>
    \/ \E R \in SUBSET Gens : Sweep(R)
    \/ Exit

LifeSpec == LifeInit /\ [][LifeNext]_lifeVars

\* What run_platform promises of a graceful shutdown ("terminate + confirm
\* every owned child ... so the daemon does not leave orphans/zombies
\* behind"): when the process has exited, no Session of it still has a
\* running child that the shutdown neither reaped nor reported.
NoOrphanAtExit ==
    phase = "stopped" =>
      \A i \in Ids : mapped[i] # NoGen => mapped[i] \in exited \cup unconfirmed
=============================================================================
