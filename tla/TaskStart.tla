------------------------------ MODULE TaskStart ------------------------------
(***************************************************************************)
(* Starting an agent task (maestro-shell: window_layout.rs, shell_runtime, *)
(* session_service.rs, daemon_client.rs; agent_task_start_journal.rs and   *)
(* agent_task_start_recovery.rs).  The daemon's mutation and the durable   *)
(* publication of the task cannot share one transaction, so a journal row  *)
(* written before the first byte on the wire carries the operation across  *)
(* the loss of any process.  Whoever holds the row's lease may move it.    *)
(*                                                                         *)
(* One shell process starts each operation; recovery workers in other      *)
(* processes claim rows whose lease has lapsed.  One step is one SQLite    *)
(* transaction, one request handled by the daemon, or one answer read.     *)
(* The daemon is its start ledger (Unix: retirement removes the entry) and *)
(* the Session under each id; Daemon.tla models it in full.                *)
(***************************************************************************)
EXTENDS Naturals, Sequences, FiniteSets

CONSTANTS
    Ops,             \* start operations: a token and the fresh session id it names
    Workers,         \* recovery workers, one per process that runs one
    MaxInst,         \* bound: daemon processes that ever run
    MaxGen,          \* bound: Sessions ever spawned
    MaxFaults,       \* bound: aborted recoveries and edits of product records
    None,            \* "no value"; also the lease token of the starting shell
    TimelyWire       \* no lease lapses under an exchange, no request outlives its own:
                     \* what the deadlines are chosen for, and nothing enforces

ASSUME TaskStartAssumption ==
    /\ IsFiniteSet(Ops)
    /\ MaxInst \in Nat \ {0} /\ MaxGen \in Nat /\ MaxFaults \in Nat
    /\ TimelyWire \in BOOLEAN
    /\ None \notin Ops \cup Workers

NoGen   == 0
Gens    == 1 .. MaxGen
Unbound == 0
Insts   == 1 .. MaxInst
States  == {"none", "live", "exited", "removed"}

\* A row of pending_agent_task_starts.  A process holds one lease token at a
\* time, so the holder's name stands for the token.
Rows == [bound : Insts \cup {Unbound}, disp : {"finalize", "release"},
         gen : Gens \cup {NoGen}, state : States, holder : Workers \cup {None}]
NoRow == [bound |-> Unbound, disp |-> "none", gen |-> NoGen,
          state |-> "none", holder |-> None]

VARIABLES
    row,      \* the journal
    order,    \* the operations in the order of created_at_ms
    lapsed,   \* the rows whose lease_until_ms has passed
    sess,     \* the Session record: absent, A (Unknown), or B with its status
    edited,   \* operations whose Project/Workspace/Task/Session left graph A
    inst,     \* the running daemon's instance id
    ledger,   \* its start ledger
    mapped,   \* the Session installed under the operation's id
    exited,   \* generations whose child has exited
    nextGen,  \* the generation the next spawn draws
    wire,     \* requests written and not yet handled by the daemon
    answer,   \* the daemon's answer to the request the shell waits for
    shell,    \* the starting process
    worker,   \* the recovery workers
    faults,   \* how many faults have happened
    spawned,  \* history: the generations each operation's token spawned
    proven    \* history: operations dropped on a proof of "never applied"

journalVars == <<row, order, lapsed, sess, edited>>
daemonVars  == <<inst, ledger, mapped, exited, nextGen, spawned>>
wireVars    == <<wire, answer>>
vars == <<journalVars, daemonVars, wireVars, shell, worker, faults, proven>>

Sessions == [st : {"none", "A", "live", "exited"}, gen : Gens \cup {NoGen}]
Entries  == [st : {"unknown", "reserved", "applied", "refused"}, gen : Gens \cup {NoGen}]
NoEntry  == [st |-> "unknown", gen |-> NoGen]
NoSess   == [st |-> "none", gen |-> NoGen]
NoWire   == [reserve |-> 0, start |-> 0]

\* pass 2 is settle_prepared_agent_task: its failures end the command.
Shells == [pc : {"idle", "prepared", "bound", "wire", "reserving", "starting",
                 "refused", "observed", "marked", "retire", "forget", "settle",
                 "cancel", "done"},
           pass : {1, 2}, sent : 0 .. 2, held : Rows \cup {NoRow},
           gen : Gens \cup {NoGen}, state : States]
IdleShell == [pc |-> "idle", pass |-> 1, sent |-> 0, held |-> NoRow,
              gen |-> NoGen, state |-> "none"]

WorkerStates == [pc : {"idle", "claimed", "lookup", "retireUnapplied", "compensate",
                       "dropChanged", "mark", "publish", "kill", "markRemoved",
                       "retireCleaned", "dropCleaned", "retireRelease", "dropRelease"},
                 op : Ops \cup {None}, claim : Rows \cup {NoRow},
                 gen : Gens \cup {NoGen}, state : States]
IdleWorker == [pc |-> "idle", op |-> None, claim |-> NoRow,
               gen |-> NoGen, state |-> "none"]

TypeOK ==
    /\ row \in [Ops -> Rows \cup {NoRow}]
    /\ order \in Seq(Ops)
    /\ lapsed \in SUBSET Ops
    /\ sess \in [Ops -> Sessions]
    /\ edited \in SUBSET Ops
    /\ inst \in Insts
    /\ ledger \in [Ops -> Entries]
    /\ mapped \in [Ops -> Gens \cup {NoGen}]
    /\ exited \in SUBSET Gens
    /\ nextGen \in 1 .. (MaxGen + 1)
    /\ wire \in [Ops -> [reserve : 0 .. 2, start : 0 .. 2]]
    /\ answer \in [Ops -> {"none", "reserved", "full", "terminal", "applied", "refused"}]
    /\ shell \in [Ops -> Shells]
    /\ worker \in [Workers -> WorkerStates]
    /\ faults \in 0 .. MaxFaults
    /\ spawned \in [Ops -> SUBSET Gens]
    /\ proven \in SUBSET Ops

Init ==
    /\ row = [o \in Ops |-> NoRow]
    /\ order = << >>
    /\ lapsed = {}
    /\ sess = [o \in Ops |-> NoSess]
    /\ edited = {}
    /\ inst = 1
    /\ ledger = [o \in Ops |-> NoEntry]
    /\ mapped = [o \in Ops |-> NoGen]
    /\ exited = {}
    /\ nextGen = 1
    /\ wire = [o \in Ops |-> NoWire]
    /\ answer = [o \in Ops |-> "none"]
    /\ shell = [o \in Ops |-> IdleShell]
    /\ worker = [w \in Workers |-> IdleWorker]
    /\ faults = 0
    /\ spawned = [o \in Ops |-> {}]
    /\ proven = {}

-----------------------------------------------------------------------------
(* The journal. *)

\* claim_is_current, prepared_agent_task_start_journal_matches: the row is
\* the copy its holder keeps, and the lease has not lapsed.
IsCurrent(o, r) == row[o] # NoRow /\ row[o] = r /\ o \notin lapsed

\* load_exact_graph_a: every record still has the fingerprint of graph A.
GraphExact(o) == sess[o].st = "A" /\ o \notin edited

\* applied_state_may_advance: the generation is fixed once observed and the
\* lifecycle only moves forward.
MayAdvance(r, g, s) ==
    \/ r.gen = NoGen
    \/ r.gen = g /\ \/ r.state = "live"
                    \/ r.state = "exited" /\ s \in {"exited", "removed"}
                    \/ r.state = "removed" /\ s = "removed"

\* Write a row and take or renew its lease (new_lease).
PutRow(o, r) ==
    /\ row' = [row EXCEPT ![o] = r]
    /\ lapsed' = lapsed \ {o}

DeleteRow(o) ==
    /\ row' = [row EXCEPT ![o] = NoRow]
    /\ lapsed' = lapsed \ {o}

\* The lifecycle lookup_start_operation reports for a generation.
Lifecycle(o, g) ==
    IF mapped[o] # g THEN "removed" ELSE IF g \in exited THEN "exited" ELSE "live"

PublishedStatus(s) == IF s = "live" THEN "live" ELSE "exited"

-----------------------------------------------------------------------------
(* The starting shell. *)

Goto(o, pc) == shell' = [shell EXCEPT ![o].pc = pc]

\* A failure after the wire may have been touched (PossiblyApplied): settle
\* once, then leave the row to the workers.
Ambiguous(o) ==
    shell' = [shell EXCEPT ![o].pc = IF shell[o].pass = 2 THEN "done" ELSE "settle",
                           ![o].pass = 2]

\* prepare_*_agent_task_unplaced: Task A, Session A (Unknown) and the Unbound
\* row, in one transaction.
Prepare(o) ==
    LET r == [bound |-> Unbound, disp |-> "finalize", gen |-> NoGen,
              state |-> "none", holder |-> None] IN
    /\ shell[o].pc = "idle"
    /\ PutRow(o, r)
    /\ order' = Append(order, o)
    /\ sess' = [sess EXCEPT ![o] = [st |-> "A", gen |-> NoGen]]
    /\ shell' = [shell EXCEPT ![o].pc = "prepared", ![o].held = r]
    /\ UNCHANGED <<edited, daemonVars, wireVars, worker, faults, proven>>

\* bind_prepared_agent_task_start: the row is bound to the daemon observed.
Bind(o) ==
    LET r == [shell[o].held EXCEPT !.bound = inst] IN
    /\ shell[o].pc = "prepared"
    /\ GraphExact(o) /\ IsCurrent(o, shell[o].held)
    /\ PutRow(o, r)
    /\ shell' = [shell EXCEPT ![o].pc = "bound", ![o].held = r]
    /\ UNCHANGED <<order, sess, edited, daemonVars, wireVars, worker, faults, proven>>

\* graph_matches_in_snapshot, the last look at the lease before the wire.
CheckSnapshot(o) ==
    /\ shell[o].pc = "bound"
    /\ GraphExact(o) /\ IsCurrent(o, shell[o].held)
    /\ Goto(o, "wire")
    /\ UNCHANGED <<journalVars, daemonVars, wireVars, worker, faults, proven>>

\* DefinitelyUnpublished: no daemon, another peer, a lost lease, a changed
\* graph, a missing directory; nothing was written to the wire.
Unpublished(o) ==
    /\ shell[o].pc \in {"prepared", "bound", "wire"}
    /\ Goto(o, "cancel")
    /\ UNCHANGED <<journalVars, daemonVars, wireVars, worker, faults, proven>>

\* rollback_prepared_unplaced_session_if_unchanged: the row and Session A go
\* together, or everything stays for the workers.
Cancel(o) ==
    LET h == shell[o].held IN
    /\ shell[o].pc = "cancel"
    /\ IF GraphExact(o) /\ h.disp = "finalize" /\ h.gen = NoGen /\ IsCurrent(o, h)
       THEN DeleteRow(o) /\ sess' = [sess EXCEPT ![o] = NoSess]
       ELSE UNCHANGED <<row, lapsed, sess>>
    /\ Goto(o, "done")
    /\ UNCHANGED <<order, edited, daemonVars, wireVars, worker, faults, proven>>

\* The daemon the row is bound to still answers.
SamePeer(r) == r.bound = inst

\* ensure_start_operation_reserved_before: the reservation is written once,
\* and once more on a fresh connection when its answer is lost.
SendReserve(o) ==
    /\ \/ shell[o].pc = "wire"
       \/ /\ shell[o].pc = "reserving" /\ shell[o].sent < 2
          /\ TimelyWire => wire[o].reserve = 0
    /\ SamePeer(shell[o].held)
    /\ wire' = [wire EXCEPT ![o].reserve = @ + 1]
    /\ answer' = [answer EXCEPT ![o] = "none"]
    /\ shell' = [shell EXCEPT ![o].pc = "reserving", ![o].sent = @ + 1]
    /\ UNCHANGED <<journalVars, daemonVars, worker, faults, proven>>

\* The reservation is acknowledged: the Start frame is written.
SendStart(o) ==
    /\ shell[o].pc = "reserving" /\ answer[o] = "reserved"
    /\ SamePeer(shell[o].held)
    /\ wire' = [wire EXCEPT ![o].start = @ + 1]
    /\ answer' = [answer EXCEPT ![o] = "none"]
    /\ shell' = [shell EXCEPT ![o].pc = "starting", ![o].sent = 1]
    /\ UNCHANGED <<journalVars, daemonVars, worker, faults, proven>>

\* The reservation is acknowledged, and the budget is spent before a byte of
\* the Start is written: the reservation is retired as after a refusal.
StartUnwritten(o) ==
    /\ shell[o].pc = "reserving" /\ answer[o] = "reserved"
    /\ Goto(o, "refused")
    /\ UNCHANGED <<journalVars, daemonVars, wireVars, worker, faults, proven>>

\* StartOperationReservationRefused: the ledger is full, nothing started.
ReserveDenied(o) ==
    /\ shell[o].pc = "reserving" /\ answer[o] = "full"
    /\ Goto(o, "cancel")
    /\ UNCHANGED <<journalVars, daemonVars, wireVars, worker, faults, proven>>

\* The Start is acknowledged and the exact Attach shows its Grid.
ReadApplied(o) ==
    /\ shell[o].pc = "starting" /\ answer[o] = "applied"
    /\ SamePeer(shell[o].held) /\ ledger[o].st = "applied"
    /\ shell' = [shell EXCEPT ![o].pc = "observed", ![o].gen = ledger[o].gen,
                              ![o].state = "live"]
    /\ UNCHANGED <<journalVars, daemonVars, wireVars, worker, faults, proven>>

ReadRefused(o) ==
    /\ shell[o].pc = "starting" /\ answer[o] = "refused"
    /\ Goto(o, "refused")
    /\ UNCHANGED <<journalVars, daemonVars, wireVars, worker, faults, proven>>

\* recover_conditional_start_before: the answer is lost; look the operation
\* up on a fresh connection and, while it is still Reserved, replay once.  A
\* reservation refused as AlreadyTerminal is looked up too: no run answers a
\* waiting shell so, since a token is fresh and its Start is not yet written.
RecoverStart(o) ==
    /\ shell[o].pc = "starting" \/ (shell[o].pc = "reserving" /\ answer[o] = "terminal")
    /\ SamePeer(shell[o].held)
    /\ \/ /\ ledger[o].st = "applied" /\ Lifecycle(o, ledger[o].gen) = "live"
          /\ shell' = [shell EXCEPT ![o].pc = "observed", ![o].gen = ledger[o].gen,
                                    ![o].state = "live"]
          /\ UNCHANGED wireVars
       \/ /\ ledger[o].st = "reserved" /\ shell[o].sent < 2 /\ shell[o].pc = "starting"
          /\ TimelyWire => wire[o].start = 0
          /\ wire' = [wire EXCEPT ![o].start = @ + 1]
          /\ answer' = [answer EXCEPT ![o] = "none"]
          /\ shell' = [shell EXCEPT ![o].sent = @ + 1]
       \/ ledger[o].st = "refused" /\ Goto(o, "refused") /\ UNCHANGED wireVars
    /\ UNCHANGED <<journalVars, daemonVars, worker, faults, proven>>

\* retire_unapplied_operation after a refusal.
RetireRefused(o) ==
    /\ shell[o].pc = "refused"
    /\ SamePeer(shell[o].held)
    /\ IF ledger[o].st = "applied"
       THEN Ambiguous(o) /\ UNCHANGED ledger
       ELSE Goto(o, "cancel") /\ ledger' = [ledger EXCEPT ![o] = NoEntry]
    /\ UNCHANGED <<journalVars, inst, mapped, exited, nextGen, spawned, wireVars,
                   worker, faults, proven>>

\* ConditionalStartPossiblyApplied: the budget ran out, the peer changed, the
\* Attach failed; or, in pass 2, the settlement stays Pending.
GiveUp(o) ==
    /\ shell[o].pc \in {"wire", "reserving", "starting", "refused", "settle"}
    /\ Ambiguous(o)
    /\ UNCHANGED <<journalVars, daemonVars, wireVars, worker, faults, proven>>

\* settle_prepared_agent_task_publication: the daemon says Applied.
Settle(o) ==
    /\ shell[o].pc = "settle"
    /\ SamePeer(shell[o].held) /\ ledger[o].st = "applied"
    /\ shell' = [shell EXCEPT ![o].pc = "observed", ![o].gen = ledger[o].gen,
                              ![o].state = Lifecycle(o, ledger[o].gen)]
    /\ UNCHANGED <<journalVars, daemonVars, wireVars, worker, faults, proven>>

\* mark_prepared_agent_task_start_applied.
MarkApplied(o) ==
    LET h == shell[o].held
        r == [h EXCEPT !.gen = shell[o].gen, !.state = shell[o].state] IN
    /\ shell[o].pc = "observed"
    /\ IF MayAdvance(h, shell[o].gen, shell[o].state) /\ h.disp = "finalize" /\ IsCurrent(o, h)
       THEN /\ PutRow(o, r)
            /\ shell' = [shell EXCEPT ![o].pc = "marked", ![o].held = r]
       ELSE Ambiguous(o) /\ UNCHANGED <<row, lapsed>>
    /\ UNCHANGED <<order, sess, edited, daemonVars, wireVars, worker, faults, proven>>

\* finalize_prepared_agent_task_publication: Session B, Task B and the
\* release disposition in one transaction; or they are there already, with
\* the row gone or still to be released under this lease.
Finalize(o) ==
    LET h == shell[o].held
        r == [h EXCEPT !.disp = "release"]
        b == [st |-> PublishedStatus(h.state), gen |-> h.gen] IN
    /\ shell[o].pc = "marked"
    /\ \/ /\ h.disp = "finalize" /\ GraphExact(o) /\ IsCurrent(o, h)
          /\ sess' = [sess EXCEPT ![o] = b]
          /\ row' = [row EXCEPT ![o] = r]
          /\ shell' = [shell EXCEPT ![o].pc = "retire", ![o].held = r]
       \/ /\ ~ (GraphExact(o) /\ IsCurrent(o, h))
          /\ IF row[o] \in {NoRow, r} /\ sess[o] = b
             THEN shell' = [shell EXCEPT ![o].pc = "retire",
                                         ![o].held = IF row[o] = r THEN r ELSE h]
             ELSE Ambiguous(o)
          /\ UNCHANGED <<row, sess>>
    /\ UNCHANGED <<order, lapsed, edited, daemonVars, wireVars, worker, faults, proven>>

\* Mutation: AlreadyRetired is taken for a Conflict.
MutRetirable(o, g) == ledger[o].st = "applied" /\ ledger[o].gen = g

\* retire_applied_operation by CAS on the generation: TRUE when the entry is
\* gone or was gone.
Retirable(o, g) == ledger[o].st = "unknown" \/ (ledger[o].st = "applied" /\ ledger[o].gen = g)

\* retire_published_agent_task_operation, its daemon half ...
RetirePublished(o) ==
    /\ shell[o].pc = "retire"
    /\ IF SamePeer(shell[o].held) /\ Retirable(o, shell[o].gen)
       THEN ledger' = [ledger EXCEPT ![o] = NoEntry] /\ Goto(o, "forget")
       ELSE UNCHANGED ledger /\ Goto(o, "done")
    /\ UNCHANGED <<journalVars, inst, mapped, exited, nextGen, spawned, wireVars,
                   worker, faults, proven>>

\* ... and delete_prepared_agent_task_release_after_operation_retired.
Forget(o) ==
    /\ shell[o].pc = "forget"
    /\ IF shell[o].held.disp = "release" /\ IsCurrent(o, shell[o].held)
       THEN DeleteRow(o) ELSE UNCHANGED <<row, lapsed>>
    /\ Goto(o, "done")
    /\ UNCHANGED <<order, sess, edited, daemonVars, wireVars, worker, faults, proven>>

\* The process is killed; what it wrote to the wire is still delivered.
ShellDies(o) ==
    /\ shell[o].pc \notin {"idle", "done"}
    /\ Goto(o, "done")
    /\ UNCHANGED <<journalVars, daemonVars, wireVars, worker, faults, proven>>

-----------------------------------------------------------------------------
(* The daemon. *)

\* reserve_start_operation; a full ledger refuses a new token.
HandleReserve(o) ==
    /\ wire[o].reserve > 0
    /\ wire' = [wire EXCEPT ![o].reserve = @ - 1]
    /\ \/ /\ ledger[o].st \in {"unknown", "reserved"}
          /\ ledger' = [ledger EXCEPT ![o] = [st |-> "reserved", gen |-> NoGen]]
          /\ answer' = [answer EXCEPT ![o] =
                          IF shell[o].pc = "reserving" THEN "reserved" ELSE @]
       \/ /\ ledger[o].st = "unknown"
          /\ answer' = [answer EXCEPT ![o] =
                          IF shell[o].pc = "reserving" THEN "full" ELSE @]
          /\ UNCHANGED ledger
       \/ /\ ledger[o].st \in {"applied", "refused"}
          /\ answer' = [answer EXCEPT ![o] =
                          IF shell[o].pc = "reserving" THEN "terminal" ELSE @]
          /\ UNCHANGED ledger
    /\ UNCHANGED <<journalVars, inst, mapped, exited, nextGen, spawned, shell, worker,
                   faults, proven>>

\* Mutation: the ledger does not record that the Start was applied.
MutHandleStart(o) ==
    /\ wire[o].start > 0
    /\ wire' = [wire EXCEPT ![o].start = @ - 1]
    /\ ledger[o].st = "reserved" /\ mapped[o] = NoGen /\ nextGen \in Gens
    /\ mapped' = [mapped EXCEPT ![o] = nextGen]
    /\ spawned' = [spawned EXCEPT ![o] = @ \cup {nextGen}]
    /\ nextGen' = nextGen + 1
    /\ UNCHANGED <<journalVars, inst, ledger, exited, answer, shell, worker, faults, proven>>

\* start_session_conditionally: spawn, refuse, or answer from the ledger.
HandleStart(o) ==
    /\ wire[o].start > 0
    /\ wire' = [wire EXCEPT ![o].start = @ - 1]
    /\ \/ /\ ledger[o].st = "reserved" /\ mapped[o] = NoGen /\ nextGen \in Gens
          /\ mapped' = [mapped EXCEPT ![o] = nextGen]
          /\ spawned' = [spawned EXCEPT ![o] = @ \cup {nextGen}]
          /\ nextGen' = nextGen + 1
          /\ ledger' = [ledger EXCEPT ![o] = [st |-> "applied", gen |-> nextGen]]
          /\ answer' = [answer EXCEPT ![o] = "applied"]
       \/ /\ ledger[o].st = "reserved"
          /\ ledger' = [ledger EXCEPT ![o] = [st |-> "refused", gen |-> NoGen]]
          /\ answer' = [answer EXCEPT ![o] = "refused"]
          /\ UNCHANGED <<mapped, nextGen, spawned>>
       \/ /\ ledger[o].st # "reserved"
          /\ answer' = [answer EXCEPT ![o] =
                          IF ledger[o].st = "applied" THEN "applied" ELSE "refused"]
          /\ UNCHANGED <<ledger, mapped, nextGen, spawned>>
    /\ UNCHANGED <<journalVars, inst, exited, shell, worker, faults, proven>>

\* The connection breaks before the daemon has read a whole request.
LoseRequest(o) ==
    /\ \/ wire[o].reserve > 0 /\ wire' = [wire EXCEPT ![o].reserve = @ - 1]
       \/ wire[o].start > 0 /\ wire' = [wire EXCEPT ![o].start = @ - 1]
    /\ UNCHANGED <<journalVars, daemonVars, answer, shell, worker, faults, proven>>

\* The child of a Session exits, or somebody removes the Session.
ChildExits(o) ==
    /\ mapped[o] # NoGen /\ mapped[o] \notin exited
    /\ exited' = exited \cup {mapped[o]}
    /\ UNCHANGED <<journalVars, inst, ledger, mapped, nextGen, spawned, wireVars,
                   shell, worker, faults, proven>>

SessionRemoved(o) ==
    /\ mapped[o] # NoGen
    /\ mapped' = [mapped EXCEPT ![o] = NoGen]
    /\ UNCHANGED <<journalVars, inst, ledger, exited, nextGen, spawned, wireVars,
                   shell, worker, faults, proven>>

\* Another daemon process takes the socket: an empty ledger, no Sessions, and
\* nothing written to the old one arrives.
DaemonRestarts ==
    /\ inst < MaxInst
    /\ inst' = inst + 1
    /\ ledger' = [o \in Ops |-> NoEntry]
    /\ mapped' = [o \in Ops |-> NoGen]
    /\ wire' = [o \in Ops |-> NoWire]
    /\ answer' = [o \in Ops |-> "none"]
    /\ UNCHANGED <<journalVars, exited, nextGen, spawned, shell, worker, faults, proven>>

-----------------------------------------------------------------------------
(* Recovery. *)

\* The process that holds the row is still at work on it.
HolderBusy(o) ==
    IF row[o].holder = None THEN shell[o].pc \notin {"idle", "done"}
    ELSE worker[row[o].holder].op = o

\* An exchange with the daemon that the lease is meant to outlast: the lease
\* is at least twice GENERATION_KILL_DEADLINE_MS and is taken when it starts.
ExchangeOpen(o) ==
    \/ shell[o].pc \in {"wire", "reserving", "starting", "refused"}
    \/ wire[o] # NoWire
    \/ \E w \in Workers : worker[w].op = o /\ worker[w].pc = "kill"

\* lease_until_ms passes.  Under a busy holder that is a fault: a process
\* stalled for two minutes, a suspended machine, a stepped wall clock.
LeaseLapses(o) ==
    /\ row[o] # NoRow /\ o \notin lapsed
    /\ TimelyWire => ~ ExchangeOpen(o)
    /\ IF HolderBusy(o) THEN faults < MaxFaults /\ faults' = faults + 1
       ELSE UNCHANGED faults
    /\ lapsed' = lapsed \cup {o}
    /\ UNCHANGED <<row, order, sess, edited, daemonVars, wireVars, shell, worker, proven>>

\* A Project, Workspace, Task or Session A record is edited, or edited back.
Edit(o) ==
    /\ row[o] # NoRow /\ faults < MaxFaults
    /\ faults' = faults + 1
    /\ edited' = IF o \in edited THEN edited \ {o} ELSE edited \cup {o}
    /\ UNCHANGED <<row, order, lapsed, sess, daemonVars, wireVars, shell, worker, proven>>

Drop(w)   == worker' = [worker EXCEPT ![w] = IdleWorker]
Turn(w, pc) == worker' = [worker EXCEPT ![w].pc = pc]
At(w, pc) == worker[w].pc = pc

\* recover_next returns early: the process dies, a deadline passes, an answer
\* is lost, the Kill is refused.  What was done stays done.
WorkerAborts(w) ==
    /\ ~ At(w, "idle") /\ faults < MaxFaults
    /\ faults' = faults + 1
    /\ Drop(w)
    /\ UNCHANGED <<journalVars, daemonVars, wireVars, shell, proven>>

\* claim_next: the oldest row whose lease has lapsed, under a new lease.
Claim(w, o) ==
    LET r == [row[o] EXCEPT !.holder = w] IN
    /\ At(w, "idle")
    /\ row[o] # NoRow /\ o \in lapsed
    /\ \A i, j \in DOMAIN order :
         order[j] = o /\ i < j => row[order[i]] = NoRow \/ order[i] \notin lapsed
    /\ PutRow(o, r)
    /\ worker' = [worker EXCEPT ![w] = [IdleWorker EXCEPT !.pc = "claimed", !.op = o,
                                                          !.claim = r]]
    /\ UNCHANGED <<order, sess, edited, daemonVars, wireVars, shell, faults, proven>>

\* recover_next: an Unbound row never reached the wire; otherwise
\* connect_exact_peer, or PeerChanged.
Connect(w) ==
    LET c == worker[w].claim IN
    /\ At(w, "claimed")
    /\ IF c.bound = Unbound THEN Turn(w, "compensate")
       ELSE IF ~ SamePeer(c) THEN Drop(w)
       ELSE IF c.disp = "release" THEN Turn(w, "retireRelease")
       ELSE Turn(w, "lookup")
    /\ UNCHANGED <<journalVars, daemonVars, wireVars, shell, faults, proven>>

\* What a durably applied row is marked with (recover_durably_applied): a
\* retired entry and a live Session keep the recorded state.
ObservedState(o, c) ==
    IF ledger[o].st = "unknown" \/ Lifecycle(o, c.gen) = "live" THEN c.state
    ELSE Lifecycle(o, c.gen)

\* lookup_operation_status, and recover_with_exact_grid for a live Session.
Lookup(w) ==
    LET o == worker[w].op
        c == worker[w].claim
        Observed(g, s) == worker' = [worker EXCEPT ![w].pc = "mark", ![w].gen = g,
                                                   ![w].state = s] IN
    /\ At(w, "lookup")
    /\ \/ ~ SamePeer(c) /\ Drop(w)
       \/ /\ SamePeer(c) /\ c.gen # NoGen
          /\ IF Retirable(o, c.gen) THEN Observed(c.gen, ObservedState(o, c)) ELSE Drop(w)
       \/ /\ SamePeer(c) /\ c.gen = NoGen
          /\ IF ledger[o].st = "applied"
             THEN Observed(ledger[o].gen, Lifecycle(o, ledger[o].gen))
             ELSE Turn(w, "retireUnapplied")
    /\ UNCHANGED <<journalVars, daemonVars, wireVars, shell, faults, proven>>

\* retire_unapplied_operation: the barrier after which, the journal holds, no
\* Start of this operation can apply.
RetireUnapplied(w) ==
    LET o == worker[w].op IN
    /\ At(w, "retireUnapplied")
    /\ IF SamePeer(worker[w].claim) /\ ledger[o].st # "applied"
       THEN ledger' = [ledger EXCEPT ![o] = NoEntry] /\ Turn(w, "compensate")
       ELSE UNCHANGED ledger /\ Drop(w)
    /\ UNCHANGED <<journalVars, inst, mapped, exited, nextGen, spawned, wireVars,
                   shell, faults, proven>>

\* compensate_proven_unapplied: the row and Session A go together.
Compensate(w) ==
    LET o == worker[w].op IN
    /\ At(w, "compensate")
    /\ IF ~ IsCurrent(o, worker[w].claim)
       THEN Drop(w) /\ UNCHANGED <<row, lapsed, sess, proven>>
       ELSE IF ~ GraphExact(o)
       THEN Turn(w, "dropChanged") /\ UNCHANGED <<row, lapsed, sess, proven>>
       ELSE /\ DeleteRow(o)
            /\ sess' = [sess EXCEPT ![o] = NoSess]
            /\ proven' = proven \cup {o}
            /\ Drop(w)
    /\ UNCHANGED <<order, edited, daemonVars, wireVars, shell, faults>>

\* delete_changed_finalize_after_proven_unapplied: only the row goes.
DropChanged(w) ==
    LET o == worker[w].op IN
    /\ At(w, "dropChanged")
    /\ IF IsCurrent(o, worker[w].claim) /\ ~ GraphExact(o)
       THEN DeleteRow(o) /\ proven' = proven \cup {o}
       ELSE UNCHANGED <<row, lapsed, proven>>
    /\ Drop(w)
    /\ UNCHANGED <<order, sess, edited, daemonVars, wireVars, shell, faults>>

\* mark_claimed_applied with what was observed, and the step it leads to.
MarkClaimed(w, s, next) ==
    LET o == worker[w].op
        c == worker[w].claim
        r == [c EXCEPT !.gen = worker[w].gen, !.state = s] IN
    /\ IF MayAdvance(c, worker[w].gen, s) /\ IsCurrent(o, c)
       THEN /\ PutRow(o, r)
            /\ worker' = [worker EXCEPT ![w].pc = next, ![w].claim = r]
       ELSE Drop(w) /\ UNCHANGED <<row, lapsed>>
    /\ UNCHANGED <<order, sess, edited, daemonVars, wireVars, shell, faults, proven>>

Mark(w) == At(w, "mark") /\ MarkClaimed(w, worker[w].state, "publish")

\* Mutation: the lease is not looked at before the changed graph is cleaned.
MutPublish(w) ==
    LET o == worker[w].op
        c == worker[w].claim
        r == [c EXCEPT !.disp = "release"] IN
    /\ At(w, "publish")
    /\ IF GraphExact(o) /\ IsCurrent(o, c)
       THEN /\ sess' = [sess EXCEPT ![o] = [st |-> PublishedStatus(c.state), gen |-> c.gen]]
            /\ row' = [row EXCEPT ![o] = r]
            /\ worker' = [worker EXCEPT ![w].pc = "retireRelease", ![w].claim = r]
       ELSE Turn(w, "kill") /\ UNCHANGED <<row, sess>>
    /\ UNCHANGED <<order, lapsed, edited, daemonVars, wireVars, shell, faults, proven>>

\* publish_or_cleanup_applied: classify_claimed and publish_applied; Session B
\* and the release disposition in one transaction, or the PTY is cleaned up.
Publish(w) ==
    LET o == worker[w].op
        c == worker[w].claim
        r == [c EXCEPT !.disp = "release"] IN
    /\ At(w, "publish")
    /\ IF ~ IsCurrent(o, c) THEN Drop(w) /\ UNCHANGED <<row, sess>>
       ELSE IF ~ GraphExact(o) THEN Turn(w, "kill") /\ UNCHANGED <<row, sess>>
       ELSE /\ sess' = [sess EXCEPT ![o] = [st |-> PublishedStatus(c.state), gen |-> c.gen]]
            /\ row' = [row EXCEPT ![o] = r]
            /\ worker' = [worker EXCEPT ![w].pc = "retireRelease", ![w].claim = r]
    /\ UNCHANGED <<order, lapsed, edited, daemonVars, wireVars, shell, faults, proven>>

\* Mutation: the Session's removal is not waited for.
MutKill(w) ==
    /\ At(w, "kill")
    /\ Turn(w, "markRemoved")
    /\ UNCHANGED <<journalVars, daemonVars, wireVars, shell, faults, proven>>

\* cleanup_changed_applied: release_session_lifetime on the exact peer; a
\* Session of another generation is left alone.
Kill(w) ==
    LET o == worker[w].op IN
    /\ At(w, "kill")
    /\ IF SamePeer(worker[w].claim)
       THEN /\ mapped' = [mapped EXCEPT ![o] = IF @ = worker[w].gen THEN NoGen ELSE @]
            /\ Turn(w, "markRemoved")
       ELSE UNCHANGED mapped /\ Drop(w)
    /\ UNCHANGED <<journalVars, inst, ledger, exited, nextGen, spawned, wireVars, shell,
                   faults, proven>>

MarkRemoved(w) == At(w, "markRemoved") /\ MarkClaimed(w, "removed", "retireCleaned")

\* retire_applied_operation, for a cleaned and for a published row.
RetireApplied(w) ==
    LET o == worker[w].op
        g == worker[w].claim.gen IN
    /\ worker[w].pc \in {"retireCleaned", "retireRelease"}
    /\ IF SamePeer(worker[w].claim) /\ Retirable(o, g)
       THEN /\ ledger' = [ledger EXCEPT ![o] = NoEntry]
            /\ Turn(w, IF At(w, "retireCleaned") THEN "dropCleaned" ELSE "dropRelease")
       ELSE UNCHANGED ledger /\ Drop(w)
    /\ UNCHANGED <<journalVars, inst, mapped, exited, nextGen, spawned, wireVars, shell,
                   faults, proven>>

\* delete_changed_finalize_after_cleanup_and_retirement.
DropCleaned(w) ==
    LET o == worker[w].op IN
    /\ At(w, "dropCleaned")
    /\ IF IsCurrent(o, worker[w].claim) /\ ~ GraphExact(o)
       THEN DeleteRow(o) ELSE UNCHANGED <<row, lapsed>>
    /\ Drop(w)
    /\ UNCHANGED <<order, sess, edited, daemonVars, wireVars, shell, faults, proven>>

\* delete_release_after_operation_retired.
DropRelease(w) ==
    LET o == worker[w].op IN
    /\ At(w, "dropRelease")
    /\ IF IsCurrent(o, worker[w].claim) THEN DeleteRow(o) ELSE UNCHANGED <<row, lapsed>>
    /\ Drop(w)
    /\ UNCHANGED <<order, sess, edited, daemonVars, wireVars, shell, faults, proven>>

-----------------------------------------------------------------------------
ShellStep(o) ==
    \/ Prepare(o) \/ Bind(o) \/ CheckSnapshot(o) \/ Unpublished(o) \/ Cancel(o)
    \/ SendReserve(o) \/ SendStart(o) \/ StartUnwritten(o) \/ ReserveDenied(o)
    \/ ReadApplied(o) \/ ReadRefused(o) \/ RecoverStart(o) \/ RetireRefused(o) \/ GiveUp(o) \/ Settle(o)
    \/ MarkApplied(o) \/ Finalize(o) \/ RetirePublished(o) \/ Forget(o)

WorkerStep(w) ==
    \/ Connect(w) \/ Lookup(w) \/ RetireUnapplied(w) \/ Compensate(w) \/ DropChanged(w)
    \/ Mark(w) \/ Publish(w) \/ Kill(w) \/ MarkRemoved(w) \/ RetireApplied(w)
    \/ DropCleaned(w) \/ DropRelease(w)

Next ==
    \/ \E o \in Ops : \/ ShellStep(o) \/ ShellDies(o) \/ HandleReserve(o) \/ HandleStart(o)
                      \/ LoseRequest(o) \/ ChildExits(o) \/ SessionRemoved(o) \/ LeaseLapses(o)
                      \/ Edit(o)
                      \/ \E w \in Workers : Claim(w, o)
    \/ \E w \in Workers : WorkerStep(w) \/ WorkerAborts(w)
    \/ DaemonRestarts

Spec == Init /\ [][Next]_vars

\* The daemon serves its connections, time passes, each process runs, and a
\* worker that finds a claimable row claims one (the two-second reconcile).
Fairness ==
    /\ \A o \in Ops : /\ WF_vars(ShellStep(o))
                      /\ WF_vars(HandleReserve(o))
                      /\ WF_vars(HandleStart(o))
                      /\ WF_vars(LeaseLapses(o))
    /\ \A w \in Workers : /\ WF_vars(WorkerStep(w))
                          /\ WF_vars(\E o \in Ops : Claim(w, o))

FairSpec == Spec /\ Fairness

-----------------------------------------------------------------------------
(* Properties. *)

\* No PTY is lost track of: a Session the operation's token put in the daemon
\* has a journal row bound to that daemon, or is the one the durable Session
\* record names, whatever process dies, stalls or loses its answer.
PtyAccounted ==
    \A o \in Ops : mapped[o] # NoGen =>
        \/ row[o] # NoRow /\ row[o].bound = inst
        \/ sess[o].gen = mapped[o]

\* What the journal and the store record about a generation happened: the
\* token spawned it, no token spawned two in one daemon, and a row that is
\* to be released has been published with the row's generation.
RecordsTruthful ==
    \A o \in Ops :
        /\ {row[o].gen, sess[o].gen} \ {NoGen} \subseteq spawned[o]
        /\ Cardinality(spawned[o]) <= 1
        /\ row[o].disp = "release" => sess[o].gen = row[o].gen

\* What ProvenUnappliedAgentTaskStart is said to prove: a start that recovery
\* dropped as never applied has not spawned and never does.  Refuted once a
\* lease may lapse under an exchange: retirement removes the entry on Unix, so
\* the stalled shell's Reserve opens the token again and its Start spawns.
UnappliedProofSound == \A o \in proven : spawned[o] = {}

\* Recovery cleans up a PTY only while no durable Session record names it: a
\* published task is never killed by a worker that saw the graph changed.
RecoveryNeverKillsPublished ==
    [][\A w \in Workers : Kill(w) =>
         \A o \in Ops : mapped'[o] # mapped[o] => sess[o].gen # mapped[o]]_vars

\* A start leaves the journal: published, compensated or cleaned up.  A row
\* bound to a daemon that is gone stays (PeerChanged on every attempt).
RowsResolve ==
    \A o \in Ops : row[o] # NoRow ~>
        (row[o] = NoRow \/ row[o].bound \notin {Unbound, inst})
=============================================================================
