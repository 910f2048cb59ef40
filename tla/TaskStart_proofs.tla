--------------------------- MODULE TaskStart_proofs ---------------------------
(***************************************************************************)
(* Proofs about TaskStart, for any operations, recovery workers, daemon    *)
(* restarts and faults, where no request outlives its exchange: every PTY  *)
(* is accounted for, the records are truthful, and recovery kills no       *)
(* published task.                                                         *)
(***************************************************************************)
EXTENDS TaskStart, FiniteSetTheorems, TLAPS

ShellSet == [pc : {"idle", "prepared", "bound", "wire", "reserving", "starting",
                   "refused", "observed", "marked", "retire", "forget", "settle",
                   "cancel", "done"},
             pass : {1, 2}, sent : Nat, held : Rows \cup {NoRow},
             gen : Gens \cup {NoGen}, state : States]

(* Types in parts: the journal, the daemon, the wire and the processes. *)
JournalTyped ==
    /\ row \in [Ops -> Rows \cup {NoRow}]
    /\ sess \in [Ops -> Sessions]
DaemonTyped ==
    /\ inst \in Insts
    /\ ledger \in [Ops -> Entries]
    /\ mapped \in [Ops -> Gens \cup {NoGen}]
    /\ nextGen \in 1 .. (MaxGen + 1)
    /\ spawned \in [Ops -> SUBSET Gens]
WireTyped ==
    /\ wire \in [Ops -> [reserve : Nat, start : Nat]]
    /\ answer \in [Ops -> {"none", "reserved", "full", "applied", "refused"}]
ProcessTyped ==
    /\ shell \in [Ops -> ShellSet]
    /\ worker \in [Workers -> WorkerStates]

TypeInv == JournalTyped /\ DaemonTyped /\ WireTyped /\ ProcessTyped

(* The exchange of an operation: at most one request is under way, and none    *)
(* once the daemon has decided or the shell has read its decision.             *)
Exchange == {"wire", "reserving", "starting", "refused"}
Unsent   == {"idle", "prepared", "bound", "wire"}
Quiet    == Unsent \cup {"refused", "cancel", "observed", "marked", "retire", "forget"}

WireInv(o) ==
    LET p == shell[o].pc IN
    /\ wire[o].reserve + wire[o].start <= 1
    /\ p \in Quiet => wire[o] = NoWire
    /\ p = "reserving" => /\ wire[o].start = 0
                          /\ answer[o] \in {"reserved", "full"} => wire[o] = NoWire
    /\ p = "starting" => /\ wire[o].reserve = 0
                         /\ answer[o] = "refused" => wire[o] = NoWire
    /\ ledger[o].st \in {"applied", "refused"} => wire[o] = NoWire /\ p \notin Unsent \cup {"reserving"}

(* While it lasts, the row is the one the shell wrote and its lease holds.     *)
LeaseInv(o) ==
    LET h == shell[o].held IN
    /\ h.holder = None
    /\ shell[o].pc \in Exchange \/ wire[o] # NoWire =>
         /\ row[o] = h /\ row[o] # NoRow /\ o \notin lapsed
         /\ h.gen = NoGen /\ h.disp = "finalize"
         /\ wire[o] # NoWire => h.bound = inst
    /\ shell[o].pc \in {"prepared", "bound"} => h.gen = NoGen /\ h.disp = "finalize"

(* What is known of the one generation the operation's token can spawn.        *)
SpawnInv(o) ==
    LET p == shell[o].pc IN
    /\ \A g, h \in spawned[o] : g = h
    /\ {mapped[o], row[o].gen, sess[o].gen, shell[o].held.gen, shell[o].gen} \subseteq spawned[o] \cup {NoGen}
    /\ ledger[o].st = "applied" => ledger[o].gen \in spawned[o]
    /\ p \in {"observed", "marked"} => shell[o].gen \in spawned[o]
    /\ p = "marked" => shell[o].held.gen \in spawned[o]
    /\ p \in Unsent \cup {"reserving", "cancel"} \/ wire[o] # NoWire => spawned[o] = {}

(* What the row says of it.  A row that has not recorded a generation is the   *)
(* only trace of a spawn, besides the ledger of the daemon it is bound to.     *)
RowInv(o) ==
    LET p == shell[o].pc IN
    /\ p = "idle" => row[o] = NoRow /\ sess[o] = NoSess
    /\ row[o].bound <= inst
    /\ row[o] # NoRow /\ row[o].bound = Unbound => spawned[o] = {}
    /\ row[o] # NoRow /\ row[o].bound = inst /\ row[o].gen = NoGen /\ spawned[o] # {}
         => ledger[o].st = "applied"
    /\ p \in {"marked", "retire", "forget"} => row[o] = NoRow \/ row[o].gen # NoGen
    /\ row[o].disp = "release" => row[o].gen # NoGen /\ sess[o].gen = row[o].gen
    /\ row[o].disp = "finalize" => sess[o].gen = NoGen
    /\ mapped[o] # NoGen => \/ row[o] # NoRow /\ row[o].bound = inst
                            \/ sess[o].gen = mapped[o]

OpInv(o) == WireInv(o) /\ LeaseInv(o) /\ SpawnInv(o) /\ RowInv(o)

(* A worker: its claim ended the shell's part, and stays its own or gets stale *)
(* for good.                                                                   *)
Applied == {"publish", "kill", "markRemoved", "retireCleaned", "dropCleaned",
            "retireRelease", "dropRelease"}
Cleaned == {"markRemoved", "retireCleaned", "dropCleaned"}

ClaimInv(w) ==
    LET o == worker[w].op
        c == worker[w].claim IN
    worker[w].pc # "idle" =>
        /\ o \in Ops /\ c \in Rows /\ c.holder = w /\ shell[o].pc # "idle"
        /\ row[o] = NoRow \/ row[o].holder # None
        /\ c.gen \in spawned[o] \cup {NoGen}
        /\ c.gen # NoGen => row[o] = NoRow \/ row[o].gen # NoGen
        /\ c.disp = "release" => c.gen # NoGen
WorkInv(w) ==
    LET o == worker[w].op
        c == worker[w].claim
        p == worker[w].pc IN
    /\ p \in {"compensate", "dropChanged"} /\ row[o] = c => spawned[o] = {}
    /\ p = "retireUnapplied" => c.gen = NoGen
    /\ p \in {"mark", "publish", "kill"} \cup Cleaned => worker[w].gen \in spawned[o]
    /\ p \in Applied => c.gen \in spawned[o]
    /\ p \in {"lookup", "retireUnapplied", "mark", "publish", "kill", "markRemoved"} => c.disp = "finalize"
    /\ p \in {"retireRelease", "dropRelease"} => c.disp = "release"
    /\ p \in Cleaned => mapped[o] = NoGen
    /\ p = "kill" => row[o] = c /\ o \notin lapsed

Inv == /\ TypeInv
       /\ \A o \in Ops : OpInv(o)
       /\ \A w \in Workers : ClaimInv(w) /\ WorkInv(w)

-----------------------------------------------------------------------------
(* Records. *)

(* The fields of a row, and of what stands for no row.                         *)
LEMMA RowParts ==
    ASSUME NEW r \in Rows \cup {NoRow}
    PROVE  /\ r.bound \in Insts \cup {Unbound} /\ r.gen \in Gens \cup {NoGen}
           /\ r.state \in States /\ r.holder \in Workers \cup {None}
           /\ r.disp \in {"finalize", "release", "none"}
           /\ r.disp = "none" <=> r = NoRow
           /\ r # NoRow <=> r \in Rows
  BY SMT DEF Rows, NoRow, States, Gens, NoGen, Insts, Unbound

LEMMA NoRowParts ==
    /\ NoRow.gen = NoGen /\ NoRow.bound = Unbound /\ NoRow.disp = "none"
    /\ NoRow.holder = None /\ NoRow \notin Rows
  BY SMT DEF Rows, NoRow

(* The four ways the code rewrites a row.                                      *)
LEMMA RowBind ==
    ASSUME NEW r \in Rows, NEW i \in Insts
    PROVE  LET s == [r EXCEPT !.bound = i] IN
           /\ s \in Rows /\ s.bound = i /\ s.gen = r.gen /\ s.disp = r.disp
           /\ s.holder = r.holder /\ s.state = r.state
  BY SMT DEF Rows
Marked(r, g, st) == [r EXCEPT !.gen = g, !.state = st]
LEMMA RowMark ==
    ASSUME NEW r \in Rows, NEW g \in Gens \cup {NoGen}, NEW st \in States
    PROVE  /\ Marked(r, g, st) \in Rows /\ Marked(r, g, st).bound = r.bound
           /\ Marked(r, g, st).gen = g /\ Marked(r, g, st).disp = r.disp
           /\ Marked(r, g, st).holder = r.holder /\ Marked(r, g, st).state = st
  BY ZenonT(30) DEF Rows, Marked
LEMMA RowRelease ==
    ASSUME NEW r \in Rows
    PROVE  LET s == [r EXCEPT !.disp = "release"] IN
           /\ s \in Rows /\ s.bound = r.bound /\ s.gen = r.gen /\ s.disp = "release"
           /\ s.holder = r.holder /\ s.state = r.state
  BY SMT DEF Rows
LEMMA RowHold ==
    ASSUME NEW r \in Rows, NEW w \in Workers
    PROVE  LET s == [r EXCEPT !.holder = w] IN
           /\ s \in Rows /\ s.bound = r.bound /\ s.gen = r.gen /\ s.disp = r.disp
           /\ s.holder = w /\ s.state = r.state
  BY SMT DEF Rows

(* The row Prepare writes.                                                     *)
FirstRow == [bound |-> Unbound, disp |-> "finalize", gen |-> NoGen,
             state |-> "none", holder |-> None]
LEMMA FirstRowParts ==
    /\ FirstRow \in Rows /\ FirstRow.bound = Unbound /\ FirstRow.disp = "finalize"
    /\ FirstRow.gen = NoGen /\ FirstRow.state = "none" /\ FirstRow.holder = None
  BY SMT DEF FirstRow, Rows, States

LEMMA NoWireParts ==
    /\ NoWire \in [reserve : Nat, start : Nat] /\ NoWire.reserve = 0 /\ NoWire.start = 0
    /\ \A m \in [reserve : Nat, start : Nat] :
         m = NoWire <=> m.reserve = 0 /\ m.start = 0
  BY SMT DEF NoWire

LEMMA EntryParts ==
    ASSUME NEW e \in Entries
    PROVE  e.gen \in Gens \cup {NoGen} /\ e.st \in {"unknown", "reserved", "applied", "refused"}
  BY SMT DEF Entries

LEMMA StateFacts ==
    /\ "live" \in States /\ "none" \in States /\ "removed" \in States
    /\ \A o, g : Lifecycle(o, g) \in States
  BY SMT DEF States, Lifecycle

-----------------------------------------------------------------------------
(* What a step leaves in a process. *)

ShellPcs == {"idle", "prepared", "bound", "wire", "reserving", "starting",
             "refused", "observed", "marked", "retire", "forget", "settle",
             "cancel", "done"}

ShellIs(o, pc, h, g) ==
    /\ shell' \in [Ops -> ShellSet]
    /\ shell'[o].pc = pc /\ shell'[o].held = h /\ shell'[o].gen = g
    /\ \A q \in Ops \ {o} : shell'[q] = shell[q]

(* The updates the shell makes.                                                *)
LEMMA ShellPcTo ==
    ASSUME shell \in [Ops -> ShellSet], NEW o \in Ops, NEW pc \in ShellPcs,
           shell' = [shell EXCEPT ![o].pc = pc]
    PROVE  ShellIs(o, pc, shell[o].held, shell[o].gen)
  <1> DEFINE s == [shell[o] EXCEPT !.pc = pc]
  <1>1. shell' = [shell EXCEPT ![o] = s]  BY Zenon
  <1>2. shell[o] \in ShellSet  OBVIOUS
  <1>3. s \in ShellSet /\ s.pc = pc /\ s.held = shell[o].held /\ s.gen = shell[o].gen
    BY <1>2, ZenonT(30) DEF ShellSet, ShellPcs
  <1> HIDE DEF s
  <1> QED BY <1>1, <1>3, Zenon DEF ShellIs
LEMMA ShellPassTo ==
    ASSUME shell \in [Ops -> ShellSet], NEW o \in Ops, NEW pc \in ShellPcs,
           shell' = [shell EXCEPT ![o].pc = pc, ![o].pass = 2]
    PROVE  ShellIs(o, pc, shell[o].held, shell[o].gen)
  <1> DEFINE s == [shell[o] EXCEPT !.pc = pc, !.pass = 2]
  <1>1. shell' = [shell EXCEPT ![o] = s]  BY Zenon
  <1>2. shell[o] \in ShellSet  OBVIOUS
  <1>3. s \in ShellSet /\ s.pc = pc /\ s.held = shell[o].held /\ s.gen = shell[o].gen
    BY <1>2, ZenonT(30) DEF ShellSet, ShellPcs
  <1> HIDE DEF s
  <1> QED BY <1>1, <1>3, Zenon DEF ShellIs
LEMMA ShellHeldTo ==
    ASSUME shell \in [Ops -> ShellSet], NEW o \in Ops, NEW pc \in ShellPcs,
           NEW r \in Rows \cup {NoRow},
           shell' = [shell EXCEPT ![o].pc = pc, ![o].held = r]
    PROVE  ShellIs(o, pc, r, shell[o].gen)
  <1> DEFINE s == [shell[o] EXCEPT !.pc = pc, !.held = r]
  <1>1. shell' = [shell EXCEPT ![o] = s]  BY Zenon
  <1>2. shell[o] \in ShellSet  OBVIOUS
  <1>3. s \in ShellSet /\ s.pc = pc /\ s.held = r /\ s.gen = shell[o].gen
    BY <1>2, ZenonT(30) DEF ShellSet, ShellPcs
  <1> HIDE DEF s
  <1> QED BY <1>1, <1>3, Zenon DEF ShellIs
LEMMA ShellSentTo ==
    ASSUME shell \in [Ops -> ShellSet], NEW o \in Ops, NEW pc \in ShellPcs, NEW n \in Nat,
           shell' = [shell EXCEPT ![o].pc = pc, ![o].sent = n]
    PROVE  ShellIs(o, pc, shell[o].held, shell[o].gen)
  <1> DEFINE s == [shell[o] EXCEPT !.pc = pc, !.sent = n]
  <1>1. shell' = [shell EXCEPT ![o] = s]  BY Zenon
  <1>2. shell[o] \in ShellSet  OBVIOUS
  <1>3. s \in ShellSet /\ s.pc = pc /\ s.held = shell[o].held /\ s.gen = shell[o].gen
    BY <1>2, ZenonT(30) DEF ShellSet, ShellPcs
  <1> HIDE DEF s
  <1> QED BY <1>1, <1>3, Zenon DEF ShellIs
LEMMA ShellSentOnly ==
    ASSUME shell \in [Ops -> ShellSet], NEW o \in Ops, NEW n \in Nat,
           shell' = [shell EXCEPT ![o].sent = n]
    PROVE  ShellIs(o, shell[o].pc, shell[o].held, shell[o].gen)
  <1> DEFINE s == [shell[o] EXCEPT !.sent = n]
  <1>1. shell' = [shell EXCEPT ![o] = s]  BY Zenon
  <1>2. shell[o] \in ShellSet  OBVIOUS
  <1>3. s \in ShellSet /\ s.pc = shell[o].pc /\ s.held = shell[o].held /\ s.gen = shell[o].gen
    BY <1>2, ZenonT(30) DEF ShellSet, ShellPcs
  <1> HIDE DEF s
  <1> QED BY <1>1, <1>3, Zenon DEF ShellIs
LEMMA ShellObservedTo ==
    ASSUME shell \in [Ops -> ShellSet], NEW o \in Ops, NEW pc \in ShellPcs,
           NEW g \in Gens \cup {NoGen}, NEW st \in States,
           shell' = [shell EXCEPT ![o].pc = pc, ![o].gen = g, ![o].state = st]
    PROVE  ShellIs(o, pc, shell[o].held, g)
  <1> DEFINE s == [shell[o] EXCEPT !.pc = pc, !.gen = g, !.state = st]
  <1>1. shell' = [shell EXCEPT ![o] = s]  BY Zenon
  <1>2. shell[o] \in ShellSet  OBVIOUS
  <1>3. s \in ShellSet /\ s.pc = pc /\ s.held = shell[o].held /\ s.gen = g
    BY <1>2, ZenonT(30) DEF ShellSet, ShellPcs
  <1> HIDE DEF s
  <1>4. shell' \in [Ops -> ShellSet] /\ shell'[o] = s  BY <1>1, <1>3, ZenonT(60)
  <1>5. \A q \in Ops \ {o} : shell'[q] = shell[q]  BY <1>1, Zenon
  <1> QED BY <1>3, <1>4, <1>5, Zenon DEF ShellIs

WorkerPcs == {"idle", "claimed", "lookup", "retireUnapplied", "compensate",
              "dropChanged", "mark", "publish", "kill", "markRemoved",
              "retireCleaned", "dropCleaned", "retireRelease", "dropRelease"}

WorkerIs(w, pc, c, g) ==
    /\ worker' \in [Workers -> WorkerStates]
    /\ worker'[w].pc = pc /\ worker'[w].op = worker[w].op
    /\ worker'[w].claim = c /\ worker'[w].gen = g
    /\ \A v \in Workers \ {w} : worker'[v] = worker[v]

(* The updates a worker makes.                                                 *)
LEMMA WorkerTurns ==
    ASSUME worker \in [Workers -> WorkerStates], NEW w \in Workers, NEW pc \in WorkerPcs,
           Turn(w, pc)
    PROVE  WorkerIs(w, pc, worker[w].claim, worker[w].gen)
  <1> DEFINE s == [worker[w] EXCEPT !.pc = pc]
  <1>1. worker' = [worker EXCEPT ![w] = s]  BY Zenon DEF Turn
  <1>2. worker[w] \in WorkerStates  OBVIOUS
  <1>3. /\ s \in WorkerStates /\ s.pc = pc /\ s.op = worker[w].op
        /\ s.claim = worker[w].claim /\ s.gen = worker[w].gen
    BY <1>2, ZenonT(30) DEF WorkerStates, WorkerPcs
  <1> HIDE DEF s
  <1> QED BY <1>1, <1>3, Zenon DEF WorkerIs
LEMMA WorkerObserves ==
    ASSUME worker \in [Workers -> WorkerStates], NEW w \in Workers, NEW pc \in WorkerPcs,
           NEW g \in Gens \cup {NoGen}, NEW st \in States,
           worker' = [worker EXCEPT ![w].pc = pc, ![w].gen = g, ![w].state = st]
    PROVE  WorkerIs(w, pc, worker[w].claim, g)
  <1> DEFINE s == [worker[w] EXCEPT !.pc = pc, !.gen = g, !.state = st]
  <1>1. worker' = [worker EXCEPT ![w] = s]  BY Zenon
  <1>2. worker[w] \in WorkerStates  OBVIOUS
  <1>3. /\ s \in WorkerStates /\ s.pc = pc /\ s.op = worker[w].op
        /\ s.claim = worker[w].claim /\ s.gen = g
    BY <1>2, ZenonT(30) DEF WorkerStates, WorkerPcs
  <1> HIDE DEF s
  <1>4. worker' \in [Workers -> WorkerStates] /\ worker'[w] = s  BY <1>1, <1>3, ZenonT(60)
  <1>5. \A v \in Workers \ {w} : worker'[v] = worker[v]  BY <1>1, Zenon
  <1> QED BY <1>3, <1>4, <1>5, Zenon DEF WorkerIs
LEMMA WorkerRewrites ==
    ASSUME worker \in [Workers -> WorkerStates], NEW w \in Workers, NEW pc \in WorkerPcs,
           NEW r \in Rows \cup {NoRow},
           worker' = [worker EXCEPT ![w].pc = pc, ![w].claim = r]
    PROVE  WorkerIs(w, pc, r, worker[w].gen)
  <1> DEFINE s == [worker[w] EXCEPT !.pc = pc, !.claim = r]
  <1>1. worker' = [worker EXCEPT ![w] = s]  BY Zenon
  <1>2. worker[w] \in WorkerStates  OBVIOUS
  <1>3. /\ s \in WorkerStates /\ s.pc = pc /\ s.op = worker[w].op
        /\ s.claim = r /\ s.gen = worker[w].gen
    BY <1>2, ZenonT(30) DEF WorkerStates, WorkerPcs
  <1> HIDE DEF s
  <1> QED BY <1>1, <1>3, Zenon DEF WorkerIs
LEMMA WorkerDrops ==
    ASSUME worker \in [Workers -> WorkerStates], NEW w \in Workers, Drop(w)
    PROVE  /\ worker' \in [Workers -> WorkerStates]
           /\ worker'[w].pc = "idle"
           /\ \A v \in Workers \ {w} : worker'[v] = worker[v]
  BY SMT DEF WorkerStates, Drop, IdleWorker, States
Claimed(o, r) == [IdleWorker EXCEPT !.pc = "claimed", !.op = o, !.claim = r]
LEMMA WorkerClaims ==
    ASSUME worker \in [Workers -> WorkerStates], NEW w \in Workers, NEW o \in Ops,
           NEW r \in Rows, worker' = [worker EXCEPT ![w] = Claimed(o, r)]
    PROVE  /\ worker' \in [Workers -> WorkerStates]
           /\ worker'[w].pc = "claimed" /\ worker'[w].op = o /\ worker'[w].claim = r
           /\ \A v \in Workers \ {w} : worker'[v] = worker[v]
  <1> DEFINE s == Claimed(o, r)
  <1>1. IdleWorker \in WorkerStates  BY SMT DEF IdleWorker, WorkerStates, States
  <1>2. s \in WorkerStates /\ s.pc = "claimed" /\ s.op = o /\ s.claim = r
    BY <1>1, ZenonT(30) DEF WorkerStates, Claimed
  <1> HIDE DEF s
  <1>3. worker' = [worker EXCEPT ![w] = s]  BY DEF s
  <1> QED BY <1>2, <1>3, Zenon

-----------------------------------------------------------------------------
(* Frames: an operation that a step leaves alone, and a worker that does not   *)
(* move while another process, the daemon or time moves its operation.         *)

OpSame(q) ==
    /\ row'[q] = row[q] /\ sess'[q] = sess[q] /\ (q \in lapsed' <=> q \in lapsed)
    /\ inst' = inst /\ ledger'[q] = ledger[q] /\ mapped'[q] = mapped[q]
    /\ wire'[q] = wire[q] /\ answer'[q] = answer[q] /\ shell'[q] = shell[q]
    /\ spawned'[q] = spawned[q]

LEMMA OpFrame ==
    ASSUME NEW q, OpInv(q), OpSame(q)
    PROVE  OpInv(q)'
  <1> USE DEF OpSame, OpInv
  <1>1. WireInv(q)'  BY SMT DEF WireInv
  <1>2. LeaseInv(q)'  BY SMT DEF LeaseInv
  <1>3. SpawnInv(q)'  BY SMT DEF SpawnInv
  <1>4. RowInv(q)'  BY SMT DEF RowInv
  <1> QED BY <1>1, <1>2, <1>3, <1>4

(* A step of the shell, the daemon or the lease of one operation, as far as it *)
(* matters to the workers: once the row is a worker's it stays as it is.       *)
OpStep(o) ==
    /\ worker' = worker
    /\ \A q \in Ops \ {o} : OpSame(q)
    /\ shell[o].pc # "idle" => shell'[o].pc # "idle"
    /\ spawned'[o] = spawned[o] \/ wire[o] # NoWire
    /\ mapped'[o] \in {mapped[o], NoGen} \/ wire[o] # NoWire
    /\ \/ row'[o] = row[o] /\ (o \in lapsed' <=> o \in lapsed)
       \/ row'[o] = row[o] /\ ~ ExchangeOpen(o)
       \/ row[o] # NoRow /\ row[o].holder = None
       \/ shell[o].pc = "idle"

LEMMA WorkersStay ==
    ASSUME NEW o \in Ops, OpInv(o), OpStep(o),
           NEW w \in Workers, ClaimInv(w), WorkInv(w)
    PROVE  ClaimInv(w)' /\ WorkInv(w)'
  <1> DEFINE q == worker[w].op
             c == worker[w].claim
             p == worker[w].pc
  <1>1. worker'[w] = worker[w]
    BY DEF OpStep
  <1>2. CASE p = "idle"
    BY <1>1, <1>2 DEF ClaimInv, WorkInv, Applied, Cleaned
  <1>3. CASE p # "idle"
    <2>1. /\ q \in Ops /\ c \in Rows /\ c.holder = w /\ shell[q].pc # "idle"
          /\ row[q] = NoRow \/ row[q].holder # None
          /\ c.gen \in spawned[q] \cup {NoGen}
          /\ c.gen # NoGen => row[q] = NoRow \/ row[q].gen # NoGen
          /\ c.disp = "release" => c.gen # NoGen
      BY <1>3 DEF ClaimInv
    <2>2. /\ shell'[q].pc # "idle" /\ row'[q] = row[q] /\ spawned'[q] = spawned[q]
          /\ mapped'[q] \in {mapped[q], NoGen}
          /\ p = "kill" => (q \in lapsed' <=> q \in lapsed)
      <3>1. CASE q # o
        BY <2>1, <3>1 DEF OpStep, OpSame
      <3>2. CASE q = o
        <4>1. wire[o] = NoWire
          BY <2>1, <3>2 DEF OpInv, LeaseInv
        <4>2. p = "kill" => ExchangeOpen(o)
          BY <3>2 DEF ExchangeOpen
        <4> QED BY <2>1, <3>2, <4>1, <4>2 DEF OpStep
      <3> QED BY <3>1, <3>2
    <2>3. ClaimInv(w)'
      BY <1>1, <2>1, <2>2 DEF ClaimInv
    <2>4. WorkInv(w)'
      BY <1>1, <2>1, <2>2 DEF WorkInv
    <2> QED BY <2>3, <2>4
  <1> QED BY <1>2, <1>3

-----------------------------------------------------------------------------
(* Steps of the shell that write nothing. *)

LEMMA ShellTypes ==
    ASSUME TypeInv, NEW o \in Ops
    PROVE  /\ shell \in [Ops -> ShellSet] /\ shell[o] \in ShellSet
           /\ shell[o].pc \in ShellPcs /\ shell[o].held \in Rows \cup {NoRow}
           /\ shell[o].gen \in Gens \cup {NoGen} /\ shell[o].state \in States
           /\ shell[o].sent \in Nat
           /\ row[o] \in Rows \cup {NoRow} /\ sess[o] \in Sessions /\ ledger[o] \in Entries
           /\ wire[o] \in [reserve : Nat, start : Nat]
           /\ mapped[o] \in Gens \cup {NoGen} /\ spawned[o] \in SUBSET Gens
           /\ inst \in Insts
  <1>1. shell \in [Ops -> ShellSet] /\ shell[o] \in ShellSet
    BY DEF TypeInv, ProcessTyped
  <1>2. /\ shell[o].pc \in ShellPcs /\ shell[o].held \in Rows \cup {NoRow}
        /\ shell[o].gen \in Gens \cup {NoGen} /\ shell[o].state \in States
        /\ shell[o].sent \in Nat
    BY <1>1, SMT DEF ShellSet, ShellPcs
  <1> QED BY <1>1, <1>2 DEF TypeInv, JournalTyped, DaemonTyped, WireTyped

LEMMA ShellMove ==
    ASSUME TypeInv, NEW o \in Ops, OpInv(o), shell[o].pc # "idle",
           NEW pc \in {"wire", "cancel", "observed", "refused", "retire", "settle", "done"},
           NEW g \in spawned[o] \cup {NoGen},
           ShellIs(o, pc, shell[o].held, g),
           UNCHANGED <<journalVars, daemonVars, wireVars, worker>>,
           pc \in {"wire", "cancel", "observed", "refused", "retire"} => wire[o] = NoWire,
           pc \in {"wire", "cancel"} => spawned[o] = {},
           pc = "wire" => ledger[o].st \notin {"applied", "refused"},
           pc \in {"wire", "refused"} =>
             /\ row[o] = shell[o].held /\ row[o] # NoRow /\ o \notin lapsed
             /\ shell[o].held.gen = NoGen /\ shell[o].held.disp = "finalize",
           pc = "observed" => g \in spawned[o],
           pc = "retire" => row[o] = NoRow \/ row[o].gen # NoGen
    PROVE  TypeInv' /\ OpInv(o)' /\ OpStep(o)
  <1> USE DEF journalVars, daemonVars, wireVars
  <1>1. shell' \in [Ops -> ShellSet] /\ \A q \in Ops \ {o} : shell'[q] = shell[q]
    BY DEF ShellIs
  <1>2. shell'[o].pc = pc /\ shell'[o].held = shell[o].held /\ shell'[o].gen = g
    BY DEF ShellIs
  <1>3. TypeInv'
    BY <1>1 DEF TypeInv, JournalTyped, DaemonTyped, WireTyped, ProcessTyped
  <1>4. OpStep(o)
    BY <1>1, <1>2 DEF OpStep, OpSame
  <1> HIDE DEF ShellIs
  <1>5. WireInv(o)'
    BY <1>2, SMT DEF OpInv, WireInv, Quiet, Unsent
  <1>6. LeaseInv(o)'
    BY <1>2, SMT DEF OpInv, LeaseInv, Exchange
  <1>7. SpawnInv(o)'
    BY <1>2, SMT DEF OpInv, SpawnInv, Unsent
  <1>8. RowInv(o)'
    BY <1>2, SMT DEF OpInv, RowInv
  <1> QED BY <1>3, <1>4, <1>5, <1>6, <1>7, <1>8 DEF OpInv

LEMMA GotoSettles ==
    ASSUME TypeInv, NEW o \in Ops, OpInv(o), shell[o].pc # "idle", Ambiguous(o),
           UNCHANGED <<journalVars, daemonVars, wireVars, worker>>
    PROVE  TypeInv' /\ OpInv(o)' /\ OpStep(o)
  <1> DEFINE pc == IF shell[o].pass = 2 THEN "done" ELSE "settle"
  <1>1. pc \in {"settle", "done"} /\ pc \in ShellPcs
    BY Zenon DEF ShellPcs
  <1>2. shell' = [shell EXCEPT ![o].pc = pc, ![o].pass = 2]
    BY DEF Ambiguous
  <1> HIDE DEF pc
  <1>3. ShellIs(o, pc, shell[o].held, shell[o].gen)
    BY <1>1, <1>2, ShellTypes, ShellPassTo
  <1>4. shell[o].gen \in spawned[o] \cup {NoGen}
    BY DEF OpInv, SpawnInv
  <1> QED BY <1>1, <1>3, <1>4, ShellMove

(* The quiet steps: looking at the row and the daemon, and giving up.          *)
LEMMA QuietSteps ==
    ASSUME TypeInv, NEW o \in Ops, OpInv(o),
           \/ CheckSnapshot(o) \/ Unpublished(o) \/ ReserveDenied(o) \/ ReadApplied(o)
           \/ ReadRefused(o) \/ StartUnwritten(o) \/ GiveUp(o) \/ Settle(o) \/ ShellDies(o)
    PROVE  TypeInv' /\ OpInv(o)' /\ OpStep(o)
  <1>0. /\ shell \in [Ops -> ShellSet]
        /\ shell[o].gen \in spawned[o] \cup {NoGen} /\ ledger[o].gen \in Gens \cup {NoGen}
        /\ ledger[o].st = "applied" => ledger[o].gen \in spawned[o] /\ wire[o] = NoWire
    BY ShellTypes, EntryParts DEF OpInv, SpawnInv, WireInv
  <1>1. CASE CheckSnapshot(o)
    <2>1. /\ shell[o].pc = "bound" /\ IsCurrent(o, shell[o].held) /\ Goto(o, "wire")
          /\ UNCHANGED <<journalVars, daemonVars, wireVars, worker>>
      BY <1>1 DEF CheckSnapshot
    <2>2. ShellIs(o, "wire", shell[o].held, shell[o].gen)
      BY <2>1, <1>0, ShellPcTo DEF Goto, ShellPcs
    <2>3. /\ wire[o] = NoWire /\ spawned[o] = {} /\ ledger[o].st \notin {"applied", "refused"}
          /\ shell[o].held.gen = NoGen /\ shell[o].held.disp = "finalize"
      BY <2>1 DEF OpInv, WireInv, SpawnInv, LeaseInv, Quiet, Unsent
    <2> QED BY <1>0, <2>1, <2>2, <2>3, ShellMove DEF IsCurrent
  <1>2. CASE Unpublished(o) \/ ReserveDenied(o)
    <2>1. /\ \/ shell[o].pc \in {"prepared", "bound", "wire"}
             \/ shell[o].pc = "reserving" /\ answer[o] = "full"
          /\ Goto(o, "cancel")
          /\ UNCHANGED <<journalVars, daemonVars, wireVars, worker>>
      BY <1>2 DEF Unpublished, ReserveDenied
    <2>2. ShellIs(o, "cancel", shell[o].held, shell[o].gen)
      BY <2>1, <1>0, ShellPcTo DEF Goto, ShellPcs
    <2>3. wire[o] = NoWire /\ spawned[o] = {}
      BY <2>1 DEF OpInv, WireInv, SpawnInv, Quiet, Unsent
    <2> QED BY <1>0, <2>1, <2>2, <2>3, ShellMove
  <1>3. CASE ReadApplied(o) \/ Settle(o)
    <2>1. /\ shell[o].pc # "idle" /\ ledger[o].st = "applied"
          /\ UNCHANGED <<journalVars, daemonVars, wireVars, worker>>
      BY <1>3 DEF ReadApplied, Settle
    <2>2. \E st \in States :
            shell' = [shell EXCEPT ![o].pc = "observed", ![o].gen = ledger[o].gen,
                                   ![o].state = st]
      BY <1>3, StateFacts, Zenon DEF ReadApplied, Settle
    <2>3. ShellIs(o, "observed", shell[o].held, ledger[o].gen)
      BY <1>0, <2>2, ShellObservedTo DEF ShellPcs
    <2> QED BY <1>0, <2>1, <2>3, ShellMove
  <1>4. CASE ReadRefused(o) \/ StartUnwritten(o)
    <2>1. /\ \/ shell[o].pc = "starting" /\ answer[o] = "refused"
             \/ shell[o].pc = "reserving" /\ answer[o] = "reserved"
          /\ Goto(o, "refused")
          /\ UNCHANGED <<journalVars, daemonVars, wireVars, worker>>
      BY <1>4 DEF ReadRefused, StartUnwritten
    <2>2. ShellIs(o, "refused", shell[o].held, shell[o].gen)
      BY <2>1, <1>0, ShellPcTo DEF Goto, ShellPcs
    <2>3. /\ wire[o] = NoWire
          /\ row[o] = shell[o].held /\ row[o] # NoRow /\ o \notin lapsed
          /\ shell[o].held.gen = NoGen /\ shell[o].held.disp = "finalize"
      BY <2>1 DEF OpInv, WireInv, LeaseInv, Exchange
    <2> QED BY <1>0, <2>1, <2>2, <2>3, ShellMove
  <1>5. CASE GiveUp(o)
    BY <1>5, GotoSettles DEF GiveUp
  <1>6. CASE ShellDies(o)
    <2>1. /\ shell[o].pc # "idle" /\ Goto(o, "done")
          /\ UNCHANGED <<journalVars, daemonVars, wireVars, worker>>
      BY <1>6 DEF ShellDies
    <2>2. ShellIs(o, "done", shell[o].held, shell[o].gen)
      BY <2>1, <1>0, ShellPcTo DEF Goto, ShellPcs
    <2> QED BY <1>0, <2>1, <2>2, ShellMove
  <1> QED BY <1>1, <1>2, <1>3, <1>4, <1>5, <1>6

-----------------------------------------------------------------------------
(* Steps of the shell that write the journal. *)

\* A transaction on one row; the wire and the daemon are not touched.
ShellWrites(o, r, s, pc, h) ==
    /\ row' = [row EXCEPT ![o] = r]
    /\ sess' = [sess EXCEPT ![o] = s]
    /\ lapsed' = lapsed \/ lapsed' = lapsed \ {o}
    /\ ShellIs(o, pc, h, shell[o].gen)
    /\ UNCHANGED <<daemonVars, wireVars, worker>>

LEMMA ShellWriteFacts ==
    ASSUME TypeInv, NEW o \in Ops, NEW r \in Rows \cup {NoRow}, NEW s \in Sessions,
           NEW pc \in ShellPcs \ {"idle"}, NEW h, ShellWrites(o, r, s, pc, h),
           (row[o] # NoRow /\ row[o].holder = None) \/ shell[o].pc = "idle"
    PROVE  /\ TypeInv' /\ OpStep(o)
           /\ row'[o] = r /\ sess'[o] = s
           /\ shell'[o].pc = pc /\ shell'[o].held = h /\ shell'[o].gen = shell[o].gen
           /\ UNCHANGED <<inst, ledger, mapped, spawned, wire, answer>>
           /\ o \notin lapsed => o \notin lapsed'
  <1> USE DEF ShellWrites, daemonVars, wireVars, ShellIs
  <1>1. row \in [Ops -> Rows \cup {NoRow}] /\ sess \in [Ops -> Sessions]
    BY DEF TypeInv, JournalTyped
  <1>2. /\ row' \in [Ops -> Rows \cup {NoRow}] /\ sess' \in [Ops -> Sessions]
        /\ row'[o] = r /\ sess'[o] = s
        /\ \A q \in Ops \ {o} : row'[q] = row[q] /\ sess'[q] = sess[q]
    BY <1>1
  <1>3. TypeInv'
    BY <1>2 DEF TypeInv, JournalTyped, DaemonTyped, WireTyped, ProcessTyped
  <1>4. \A q \in Ops \ {o} : OpSame(q)
    BY <1>2 DEF OpSame
  <1>5. OpStep(o)
    BY <1>2, <1>4 DEF OpStep
  <1> QED BY <1>2, <1>3, <1>5

LEMMA SessionShapes ==
    /\ NoSess \in Sessions /\ NoSess.gen = NoGen
    /\ [st |-> "A", gen |-> NoGen] \in Sessions
    /\ \A s, g : g \in Gens \cup {NoGen} => [st |-> PublishedStatus(s), gen |-> g] \in Sessions
  BY SMT DEF NoSess, Sessions, PublishedStatus

LEMMA PrepareStep ==
    ASSUME TypeInv, NEW o \in Ops, OpInv(o), Prepare(o)
    PROVE  TypeInv' /\ OpInv(o)' /\ OpStep(o)
  <1> DEFINE s == [st |-> "A", gen |-> NoGen]
  <1>1. /\ shell[o].pc = "idle" /\ row' = [row EXCEPT ![o] = FirstRow]
        /\ lapsed' = lapsed \ {o} /\ sess' = [sess EXCEPT ![o] = s]
        /\ shell' = [shell EXCEPT ![o].pc = "prepared", ![o].held = FirstRow]
        /\ UNCHANGED <<daemonVars, wireVars, worker>>
    BY DEF Prepare, PutRow, FirstRow
  <1>2. s \in Sessions /\ s.gen = NoGen
    BY SessionShapes
  <1> HIDE DEF s
  <1>3. ShellIs(o, "prepared", FirstRow, shell[o].gen)
    BY <1>1, ShellTypes, ShellHeldTo, FirstRowParts DEF ShellPcs
  <1>4. ShellWrites(o, FirstRow, s, "prepared", FirstRow)
    BY <1>1, <1>3 DEF ShellWrites
  <1>5. /\ TypeInv' /\ OpStep(o)
        /\ row'[o] = FirstRow /\ sess'[o] = s
        /\ shell'[o].pc = "prepared" /\ shell'[o].held = FirstRow /\ shell'[o].gen = shell[o].gen
        /\ UNCHANGED <<inst, ledger, mapped, spawned, wire, answer>>
        /\ o \notin lapsed => o \notin lapsed'
    BY <1>1, <1>2, <1>4, ShellWriteFacts, FirstRowParts DEF ShellPcs
  <1>6. inst \in Insts /\ mapped[o] \in Gens \cup {NoGen} /\ FirstRow # NoRow
    BY ShellTypes, FirstRowParts, NoRowParts
  <1>7. WireInv(o)'
    BY <1>1, <1>5, SMT DEF OpInv, WireInv, Quiet, Unsent
  <1>8. LeaseInv(o)'
    BY <1>1, <1>5, FirstRowParts, SMT DEF OpInv, LeaseInv, Exchange, WireInv, Quiet, Unsent
  <1>9. SpawnInv(o)'
    BY <1>1, <1>2, <1>5, <1>6, FirstRowParts, SMT DEF OpInv, SpawnInv, Unsent
  <1>10. RowInv(o)'
    BY <1>1, <1>2, <1>5, <1>6, FirstRowParts, SMT
    DEF OpInv, RowInv, SpawnInv, Unsent, Insts, Unbound, NoSess
  <1> QED BY <1>5, <1>7, <1>8, <1>9, <1>10 DEF OpInv

LEMMA BindStep ==
    ASSUME TypeInv, NEW o \in Ops, OpInv(o), Bind(o)
    PROVE  TypeInv' /\ OpInv(o)' /\ OpStep(o)
  <1> DEFINE h == shell[o].held
             r == [h EXCEPT !.bound = inst]
  <1>1. /\ shell[o].pc = "prepared" /\ IsCurrent(o, h)
        /\ row' = [row EXCEPT ![o] = r] /\ lapsed' = lapsed \ {o} /\ sess' = sess
        /\ shell' = [shell EXCEPT ![o].pc = "bound", ![o].held = r]
        /\ UNCHANGED <<daemonVars, wireVars, worker>>
    BY DEF Bind, PutRow
  <1>2. h \in Rows /\ row[o] = h /\ row[o] # NoRow /\ inst \in Insts
    BY <1>1, ShellTypes, RowParts DEF IsCurrent
  <1>3. /\ r \in Rows /\ r.bound = inst /\ r.gen = h.gen /\ r.disp = h.disp
        /\ r.holder = h.holder
    BY <1>2, RowBind
  <1> HIDE DEF r
  <1>4. ShellIs(o, "bound", r, shell[o].gen)
    BY <1>1, <1>3, ShellTypes, ShellHeldTo DEF ShellPcs
  <1>5. sess' = [sess EXCEPT ![o] = sess[o]] /\ sess[o] \in Sessions
    BY <1>1, ShellTypes DEF TypeInv, JournalTyped
  <1>6. ShellWrites(o, r, sess[o], "bound", r)
    BY <1>1, <1>4, <1>5 DEF ShellWrites
  <1>7. h.holder = None /\ h.gen = NoGen /\ h.disp = "finalize"
    BY <1>1 DEF OpInv, LeaseInv
  <1>8. /\ TypeInv' /\ OpStep(o)
        /\ row'[o] = r /\ sess'[o] = sess[o]
        /\ shell'[o].pc = "bound" /\ shell'[o].held = r /\ shell'[o].gen = shell[o].gen
        /\ UNCHANGED <<inst, ledger, mapped, spawned, wire, answer>>
    <2>1. /\ r \in Rows \cup {NoRow} /\ "bound" \in ShellPcs \ {"idle"}
          /\ row[o] # NoRow /\ row[o].holder = None
      BY <1>2, <1>3, <1>7 DEF ShellPcs
    <2> QED BY <1>5, <1>6, <2>1, ShellWriteFacts
  <1>9. wire[o] = NoWire /\ spawned[o] = {} /\ r # NoRow
    BY <1>1, <1>3, NoRowParts DEF OpInv, WireInv, SpawnInv, Quiet, Unsent
  <1>10. WireInv(o)'
    BY <1>1, <1>8, SMT DEF OpInv, WireInv, Quiet, Unsent
  <1>11. LeaseInv(o)'
    BY <1>3, <1>7, <1>8, <1>9, SMT DEF OpInv, LeaseInv, Exchange
  <1>12. SpawnInv(o)'
    BY <1>1, <1>2, <1>3, <1>7, <1>8, <1>9, SMT DEF OpInv, SpawnInv, Unsent
  <1>13. RowInv(o)'
    BY <1>1, <1>2, <1>3, <1>7, <1>8, <1>9, SMT DEF OpInv, RowInv, Insts, Unbound
  <1> QED BY <1>8, <1>10, <1>11, <1>12, <1>13 DEF OpInv

(* A row the shell still holds.                                                *)
LEMMA HeldRow ==
    ASSUME TypeInv, NEW o \in Ops, OpInv(o), IsCurrent(o, shell[o].held)
    PROVE  /\ row[o] = shell[o].held /\ row[o] # NoRow /\ row[o] \in Rows
           /\ row[o].holder = None /\ o \notin lapsed
  BY ShellTypes, RowParts DEF IsCurrent, OpInv, LeaseInv

(* The shell ends with the row gone or as it was.                              *)
LEMMA ShellEnds ==
    ASSUME TypeInv, NEW o \in Ops, OpInv(o), shell[o].pc # "idle", Goto(o, "done"),
           UNCHANGED <<journalVars, daemonVars, wireVars, worker>>
    PROVE  TypeInv' /\ OpInv(o)' /\ OpStep(o)
  <1>1. ShellIs(o, "done", shell[o].held, shell[o].gen)
    BY ShellTypes, ShellPcTo DEF Goto, ShellPcs
  <1>2. shell[o].gen \in spawned[o] \cup {NoGen}
    BY DEF OpInv, SpawnInv
  <1> QED BY <1>1, <1>2, ShellMove

LEMMA ShellDeletes ==
    ASSUME TypeInv, NEW o \in Ops, OpInv(o), shell[o].pc # "idle", Goto(o, "done"),
           IsCurrent(o, shell[o].held), DeleteRow(o), NEW s \in Sessions,
           sess' = [sess EXCEPT ![o] = s], s.gen \in {sess[o].gen, NoGen}, wire[o] = NoWire,
           mapped[o] = NoGen \/ s.gen = mapped[o],
           UNCHANGED <<daemonVars, wireVars, worker>>
    PROVE  TypeInv' /\ OpInv(o)' /\ OpStep(o)
  <1>1. ShellIs(o, "done", shell[o].held, shell[o].gen)
    BY ShellTypes, ShellPcTo DEF Goto, ShellPcs
  <1>2. ShellWrites(o, NoRow, s, "done", shell[o].held)
    BY <1>1 DEF ShellWrites, DeleteRow
  <1>3. /\ TypeInv' /\ OpStep(o)
        /\ row'[o] = NoRow /\ sess'[o] = s
        /\ shell'[o].pc = "done" /\ shell'[o].held = shell[o].held
        /\ shell'[o].gen = shell[o].gen
        /\ UNCHANGED <<inst, ledger, mapped, spawned, wire, answer>>
    <2>1. /\ NoRow \in Rows \cup {NoRow} /\ "done" \in ShellPcs \ {"idle"}
          /\ row[o] # NoRow /\ row[o].holder = None
      BY HeldRow DEF ShellPcs
    <2> QED BY <1>2, <2>1, ShellWriteFacts
  <1>4. inst \in Insts  BY ShellTypes
  <1>5. WireInv(o)'
    BY <1>3, SMT DEF OpInv, WireInv, Quiet, Unsent
  <1>6. LeaseInv(o)'
    BY <1>3, SMT DEF OpInv, LeaseInv, Exchange
  <1>7. SpawnInv(o)'
    BY <1>3, NoRowParts, SMT DEF OpInv, SpawnInv, Unsent
  <1>8. RowInv(o)'
    BY <1>3, <1>4, NoRowParts, SMT DEF OpInv, RowInv, Insts, Unbound
  <1> QED BY <1>3, <1>5, <1>6, <1>7, <1>8 DEF OpInv

LEMMA CancelStep ==
    ASSUME TypeInv, NEW o \in Ops, OpInv(o), Cancel(o)
    PROVE  TypeInv' /\ OpInv(o)' /\ OpStep(o)
  <1>1. /\ shell[o].pc = "cancel" /\ Goto(o, "done")
        /\ UNCHANGED <<order, edited, daemonVars, wireVars, worker>>
    BY DEF Cancel
  <1>2. CASE UNCHANGED <<row, lapsed, sess>>
    BY <1>1, <1>2, ShellEnds DEF journalVars
  <1>3. CASE /\ IsCurrent(o, shell[o].held) /\ DeleteRow(o)
             /\ sess' = [sess EXCEPT ![o] = NoSess]
    <2>1. wire[o] = NoWire /\ mapped[o] = NoGen
      BY <1>1 DEF OpInv, WireInv, SpawnInv, Quiet
    <2> QED BY <1>1, <1>3, <2>1, SessionShapes, ShellDeletes
  <1> QED BY <1>2, <1>3 DEF Cancel

LEMMA ForgetStep ==
    ASSUME TypeInv, NEW o \in Ops, OpInv(o), Forget(o)
    PROVE  TypeInv' /\ OpInv(o)' /\ OpStep(o)
  <1>1. /\ shell[o].pc = "forget" /\ Goto(o, "done")
        /\ UNCHANGED <<order, sess, edited, daemonVars, wireVars, worker>>
    BY DEF Forget
  <1>2. CASE UNCHANGED <<row, lapsed>>
    BY <1>1, <1>2, ShellEnds DEF journalVars
  <1>3. CASE /\ shell[o].held.disp = "release" /\ IsCurrent(o, shell[o].held) /\ DeleteRow(o)
    <2>1. sess' = [sess EXCEPT ![o] = sess[o]] /\ sess[o] \in Sessions
      BY <1>1, ShellTypes DEF TypeInv, JournalTyped
    <2>2. row[o].gen # NoGen /\ sess[o].gen = row[o].gen
      BY <1>3, HeldRow DEF OpInv, RowInv
    <2>3. mapped[o] = NoGen \/ sess[o].gen = mapped[o]
      BY <2>2, ShellTypes DEF OpInv, SpawnInv
    <2>4. wire[o] = NoWire
      BY <1>1 DEF OpInv, WireInv, Quiet
    <2> QED BY <1>1, <1>3, <2>1, <2>3, <2>4, ShellDeletes
  <1> QED BY <1>2, <1>3 DEF Forget

LEMMA MarkAppliedStep ==
    ASSUME TypeInv, NEW o \in Ops, OpInv(o), MarkApplied(o)
    PROVE  TypeInv' /\ OpInv(o)' /\ OpStep(o)
  <1> DEFINE h == shell[o].held
             g == shell[o].gen
             r == [h EXCEPT !.gen = g, !.state = shell[o].state]
  <1>1. /\ shell[o].pc = "observed"
        /\ UNCHANGED <<order, sess, edited, daemonVars, wireVars, worker>>
    BY DEF MarkApplied
  <1>2. CASE Ambiguous(o) /\ UNCHANGED <<row, lapsed>>
    BY <1>1, <1>2, GotoSettles DEF journalVars
  <1>3. CASE /\ h.disp = "finalize" /\ IsCurrent(o, h) /\ PutRow(o, r)
             /\ shell' = [shell EXCEPT ![o].pc = "marked", ![o].held = r]
    <2>1. h \in Rows /\ row[o] = h /\ row[o] # NoRow /\ h.holder = None /\ o \notin lapsed
      BY <1>3, HeldRow
    <2>2. g \in Gens \cup {NoGen} /\ shell[o].state \in States /\ sess[o] \in Sessions
      BY ShellTypes
    <2>0. r = Marked(h, g, shell[o].state)
      BY DEF Marked
    <2> HIDE DEF r
    <2>3. /\ r \in Rows /\ r.bound = h.bound /\ r.gen = g /\ r.disp = h.disp
          /\ r.holder = h.holder
      BY <2>0, <2>1, <2>2, RowMark
    <2>4. ShellIs(o, "marked", r, g)
      BY <1>3, <2>3, ShellTypes, ShellHeldTo DEF ShellPcs
    <2>5. ShellWrites(o, r, sess[o], "marked", r)
      BY <1>1, <1>3, <2>4 DEF ShellWrites, PutRow, TypeInv, JournalTyped
    <2>6. /\ TypeInv' /\ OpStep(o)
          /\ row'[o] = r /\ sess'[o] = sess[o]
          /\ shell'[o].pc = "marked" /\ shell'[o].held = r /\ shell'[o].gen = g
          /\ UNCHANGED <<inst, ledger, mapped, spawned, wire, answer>>
      <3>1. /\ r \in Rows \cup {NoRow} /\ "marked" \in ShellPcs \ {"idle"}
            /\ row[o] # NoRow /\ row[o].holder = None
        BY <2>1, <2>3 DEF ShellPcs
      <3> QED BY <2>2, <2>5, <3>1, ShellWriteFacts
    <2>7. wire[o] = NoWire /\ g \in spawned[o] /\ spawned[o] \in SUBSET Gens /\ r # NoRow
      BY <1>1, <2>3, NoRowParts, ShellTypes DEF OpInv, WireInv, SpawnInv, Quiet
    <2>8. g # NoGen
      BY <2>7 DEF Gens, NoGen
    <2>9. WireInv(o)'
      BY <1>1, <2>6, <2>7, SMT DEF OpInv, WireInv, Quiet, Unsent
    <2>10. LeaseInv(o)'
      BY <2>1, <2>3, <2>6, <2>7, SMT DEF OpInv, LeaseInv, Exchange
    <2>11. SpawnInv(o)'
      BY <2>1, <2>3, <2>6, <2>7, SMT DEF OpInv, SpawnInv, Unsent
    <2>12. RowInv(o)'
      BY <1>3, <2>1, <2>3, <2>6, <2>7, <2>8, SMT DEF OpInv, RowInv
    <2> QED BY <2>6, <2>9, <2>10, <2>11, <2>12 DEF OpInv
  <1> QED BY <1>2, <1>3 DEF MarkApplied

LEMMA FinalizeStep ==
    ASSUME TypeInv, NEW o \in Ops, OpInv(o), Finalize(o)
    PROVE  TypeInv' /\ OpInv(o)' /\ OpStep(o)
  <1> DEFINE h == shell[o].held
             r == [h EXCEPT !.disp = "release"]
             b == [st |-> PublishedStatus(h.state), gen |-> h.gen]
  <1>1. /\ shell[o].pc = "marked"
        /\ UNCHANGED <<order, lapsed, edited, daemonVars, wireVars, worker>>
    BY DEF Finalize
  <1>2. /\ wire[o] = NoWire /\ h.gen \in spawned[o] /\ spawned[o] \in SUBSET Gens
        /\ shell[o].gen \in spawned[o] \cup {NoGen} /\ h \in Rows \cup {NoRow}
    BY <1>1, ShellTypes DEF OpInv, WireInv, SpawnInv, Quiet
  <1>3. CASE Ambiguous(o) /\ UNCHANGED <<row, sess>>
    BY <1>1, <1>3, GotoSettles DEF journalVars
  <1>0. h \in Rows /\ h.holder = None
    BY <1>2, NoRowParts DEF OpInv, LeaseInv, Gens, NoGen
  <1>4. CASE /\ row[o] = NoRow /\ UNCHANGED <<row, sess>>
             /\ shell' = [shell EXCEPT ![o].pc = "retire", ![o].held = h]
    <2>1. ShellIs(o, "retire", h, shell[o].gen)
      BY <1>2, <1>4, ShellTypes, ShellHeldTo DEF ShellPcs
    <2> QED BY <1>1, <1>2, <1>4, <2>1, ShellMove DEF journalVars
  <1>5. CASE /\ row[o] \in {h, r}
             /\ sess' = [sess EXCEPT ![o] = b]
             /\ row' = [row EXCEPT ![o] = r]
             /\ shell' = [shell EXCEPT ![o].pc = "retire", ![o].held = r]
    <2>1. h \in Rows /\ h.holder = None
      BY <1>0
    <2>2. /\ r \in Rows /\ r.bound = h.bound /\ r.gen = h.gen /\ r.disp = "release"
          /\ r.holder = h.holder /\ row[o] # NoRow /\ row[o].holder = None
          /\ row[o].bound = h.bound /\ row[o].gen = h.gen
      <3>1. /\ r \in Rows /\ r.bound = h.bound /\ r.gen = h.gen /\ r.disp = "release"
            /\ r.holder = h.holder
        BY <2>1, RowRelease
      <3> HIDE DEF r, h
      <3> QED BY <1>5, <2>1, <3>1, NoRowParts
    <2>3. b \in Sessions /\ b.gen = h.gen
      BY <1>2, RowParts, SessionShapes
    <2> HIDE DEF r, b
    <2>4. ShellIs(o, "retire", r, shell[o].gen)
      BY <1>5, <2>2, ShellTypes, ShellHeldTo DEF ShellPcs
    <2>5. ShellWrites(o, r, b, "retire", r)
      BY <1>1, <1>5, <2>4 DEF ShellWrites
    <2>6. /\ TypeInv' /\ OpStep(o)
          /\ row'[o] = r /\ sess'[o] = b
          /\ shell'[o].pc = "retire" /\ shell'[o].held = r /\ shell'[o].gen = shell[o].gen
          /\ UNCHANGED <<inst, ledger, mapped, spawned, wire, answer>>
      <3>1. /\ r \in Rows \cup {NoRow} /\ "retire" \in ShellPcs \ {"idle"}
            /\ row[o] # NoRow /\ row[o].holder = None
        BY <2>1, <2>2 DEF ShellPcs
      <3> QED BY <2>3, <2>5, <3>1, ShellWriteFacts
    <2>7. h.gen # NoGen /\ r # NoRow
      BY <1>2, <2>2, NoRowParts DEF Gens, NoGen
    <2>8. WireInv(o)'
      BY <1>1, <1>2, <2>6, SMT DEF OpInv, WireInv, Quiet, Unsent
    <2>9. LeaseInv(o)'
      BY <1>2, <2>1, <2>2, <2>6, SMT DEF OpInv, LeaseInv, Exchange
    <2>10. SpawnInv(o)'
      BY <1>2, <2>1, <2>2, <2>3, <2>6, <2>7, SMT DEF OpInv, SpawnInv, Unsent
    <2>11. RowInv(o)'
      <3>1. mapped[o] \in {NoGen, h.gen}
        BY <1>2 DEF OpInv, SpawnInv
      <3> QED BY <2>2, <2>3, <2>6, <2>7, <3>1, SMT DEF OpInv, RowInv
    <2> QED BY <2>6, <2>8, <2>9, <2>10, <2>11 DEF OpInv
  <1>6. CASE /\ row[o] = r /\ sess[o] = b /\ UNCHANGED <<row, sess>>
             /\ shell' = [shell EXCEPT ![o].pc = "retire", ![o].held = r]
    <2> HIDE DEF r, b, h
    <2>1. row' = [row EXCEPT ![o] = r] /\ sess' = [sess EXCEPT ![o] = b]
      BY <1>6, SMT DEF TypeInv, JournalTyped
    <2> QED BY <1>5, <1>6, <2>1
  <1> QED BY <1>3, <1>4, <1>5, <1>6 DEF Finalize, IsCurrent

-----------------------------------------------------------------------------
(* Requests and the ledger. *)

WireSet == [reserve : Nat, start : Nat]

LEMMA WireUpdates ==
    ASSUME TypeInv, NEW o \in Ops, NEW n \in Nat,
           \/ wire' = [wire EXCEPT ![o].reserve = n]
           \/ wire' = [wire EXCEPT ![o].start = n]
    PROVE  /\ wire' \in [Ops -> WireSet]
           /\ \A q \in Ops \ {o} : wire'[q] = wire[q]
           /\ wire' = [wire EXCEPT ![o].reserve = n] =>
                wire'[o].reserve = n /\ wire'[o].start = wire[o].start
           /\ wire' = [wire EXCEPT ![o].start = n] =>
                wire'[o].start = n /\ wire'[o].reserve = wire[o].reserve
  BY SMT DEF TypeInv, WireTyped, WireSet

\* The shell writes one request, with nothing of its own on the wire.
LEMMA Sends ==
    ASSUME TypeInv, NEW o \in Ops, OpInv(o), shell[o].pc # "idle",
           NEW pc \in {"reserving", "starting"},
           ShellIs(o, pc, shell[o].held, shell[o].gen),
           wire[o] = NoWire, wire' \in [Ops -> WireSet],
           \A q \in Ops \ {o} : wire'[q] = wire[q],
           pc = "reserving" => wire'[o].reserve = 1 /\ wire'[o].start = 0,
           pc = "starting" => wire'[o].reserve = 0 /\ wire'[o].start = 1,
           answer' = [answer EXCEPT ![o] = "none"],
           row[o] = shell[o].held, row[o] # NoRow, o \notin lapsed,
           shell[o].held.gen = NoGen, shell[o].held.disp = "finalize",
           shell[o].held.bound = inst,
           spawned[o] = {}, ledger[o].st \notin {"applied", "refused"},
           UNCHANGED <<journalVars, daemonVars, worker>>
    PROVE  TypeInv' /\ OpInv(o)' /\ OpStep(o)
  <1> USE DEF journalVars, daemonVars
  <1>1. shell' \in [Ops -> ShellSet] /\ \A q \in Ops \ {o} : shell'[q] = shell[q]
    BY DEF ShellIs
  <1>2. shell'[o].pc = pc /\ shell'[o].held = shell[o].held /\ shell'[o].gen = shell[o].gen
    BY DEF ShellIs
  <1>3. answer' \in [Ops -> {"none", "reserved", "full", "applied", "refused"}]
        /\ answer'[o] = "none" /\ \A q \in Ops \ {o} : answer'[q] = answer[q]
    BY DEF TypeInv, WireTyped
  <1>4. TypeInv'
    BY <1>1, <1>3 DEF TypeInv, JournalTyped, DaemonTyped, WireTyped, ProcessTyped, WireSet
  <1>5. OpStep(o)
    BY <1>1, <1>2, <1>3 DEF OpStep, OpSame
  <1>6. WireInv(o)'
    BY <1>2, <1>3, SMT DEF OpInv, WireInv, Quiet, Unsent
  <1>7. LeaseInv(o)'
    BY <1>2, SMT DEF OpInv, LeaseInv, Exchange
  <1>8. SpawnInv(o)'
    BY <1>2, SMT DEF OpInv, SpawnInv, Unsent
  <1>9. RowInv(o)'
    BY <1>2, SMT DEF OpInv, RowInv
  <1> QED BY <1>4, <1>5, <1>6, <1>7, <1>8, <1>9 DEF OpInv

LEMMA SendReserveStep ==
    ASSUME TypeInv, TimelyWire, NEW o \in Ops, OpInv(o), SendReserve(o)
    PROVE  TypeInv' /\ OpInv(o)' /\ OpStep(o)
  <1>1. /\ \/ shell[o].pc = "wire"
           \/ shell[o].pc = "reserving" /\ wire[o].reserve = 0
        /\ shell[o].held.bound = inst
        /\ wire' = [wire EXCEPT ![o].reserve = wire[o].reserve + 1]
        /\ answer' = [answer EXCEPT ![o] = "none"]
        /\ UNCHANGED <<journalVars, daemonVars, worker>>
    BY DEF SendReserve, SamePeer, TypeInv, WireTyped
  <1>2. wire[o] = NoWire /\ wire[o].reserve = 0 /\ wire[o].start = 0
    BY <1>1, ShellTypes, NoWireParts DEF OpInv, WireInv, Quiet, Unsent
  <1>3. shell' = [shell EXCEPT ![o].pc = "reserving", ![o].sent = shell[o].sent + 1]
    BY Zenon DEF SendReserve, TypeInv, ProcessTyped
  <1>4. ShellIs(o, "reserving", shell[o].held, shell[o].gen)
    <2>1. shell[o].sent + 1 \in Nat  BY ShellTypes
    <2> QED BY <1>3, <2>1, ShellTypes, ShellSentTo DEF ShellPcs
  <1>5. wire' = [wire EXCEPT ![o].reserve = 1]
    BY <1>1, <1>2
  <1>6. /\ wire' \in [Ops -> WireSet] /\ \A q \in Ops \ {o} : wire'[q] = wire[q]
        /\ wire'[o].reserve = 1 /\ wire'[o].start = 0
    BY <1>2, <1>5, WireUpdates
  <1>7. /\ row[o] = shell[o].held /\ row[o] # NoRow /\ o \notin lapsed
        /\ shell[o].held.gen = NoGen /\ shell[o].held.disp = "finalize"
        /\ spawned[o] = {} /\ ledger[o].st \notin {"applied", "refused"}
    BY <1>1 DEF OpInv, LeaseInv, SpawnInv, WireInv, Exchange, Unsent
  <1> QED BY <1>1, <1>2, <1>4, <1>6, <1>7, Sends

LEMMA SendStartStep ==
    ASSUME TypeInv, NEW o \in Ops, OpInv(o), SendStart(o)
    PROVE  TypeInv' /\ OpInv(o)' /\ OpStep(o)
  <1>1. /\ shell[o].pc = "reserving" /\ answer[o] = "reserved"
        /\ shell[o].held.bound = inst
        /\ wire' = [wire EXCEPT ![o].start = wire[o].start + 1]
        /\ answer' = [answer EXCEPT ![o] = "none"]
        /\ shell' = [shell EXCEPT ![o].pc = "starting", ![o].sent = 1]
        /\ UNCHANGED <<journalVars, daemonVars, worker>>
    BY DEF SendStart, SamePeer, TypeInv, WireTyped
  <1>2. wire[o] = NoWire /\ wire[o].reserve = 0 /\ wire[o].start = 0
    BY <1>1, NoWireParts DEF OpInv, WireInv
  <1>3. ShellIs(o, "starting", shell[o].held, shell[o].gen)
    BY <1>1, ShellTypes, ShellSentTo DEF ShellPcs
  <1>4. wire' = [wire EXCEPT ![o].start = 1]
    BY <1>1, <1>2
  <1>5. /\ wire' \in [Ops -> WireSet] /\ \A q \in Ops \ {o} : wire'[q] = wire[q]
        /\ wire'[o].reserve = 0 /\ wire'[o].start = 1
    BY <1>2, <1>4, WireUpdates
  <1>6. /\ row[o] = shell[o].held /\ row[o] # NoRow /\ o \notin lapsed
        /\ shell[o].held.gen = NoGen /\ shell[o].held.disp = "finalize"
        /\ spawned[o] = {} /\ ledger[o].st \notin {"applied", "refused"}
    BY <1>1 DEF OpInv, LeaseInv, SpawnInv, WireInv, Exchange
  <1> QED BY <1>1, <1>2, <1>3, <1>5, <1>6, Sends

LEMMA RecoverStartStep ==
    ASSUME TypeInv, TimelyWire, NEW o \in Ops, OpInv(o), RecoverStart(o)
    PROVE  TypeInv' /\ OpInv(o)' /\ OpStep(o)
  <1>0. answer[o] # "terminal"
    BY DEF TypeInv, WireTyped
  <1>1. /\ shell[o].pc = "starting" /\ shell[o].held.bound = inst
        /\ UNCHANGED <<journalVars, daemonVars, worker>>
    BY <1>0 DEF RecoverStart, SamePeer
  <1>2. /\ row[o] = shell[o].held /\ row[o] # NoRow /\ o \notin lapsed
        /\ shell[o].held.gen = NoGen /\ shell[o].held.disp = "finalize"
        /\ wire[o].reserve = 0 /\ shell[o].gen \in spawned[o] \cup {NoGen}
    BY <1>1 DEF OpInv, LeaseInv, WireInv, SpawnInv, Exchange
  <1>3. CASE /\ ledger[o].st = "applied"
             /\ shell' = [shell EXCEPT ![o].pc = "observed", ![o].gen = ledger[o].gen,
                                       ![o].state = "live"]
             /\ UNCHANGED wireVars
    <2>1. ledger[o].gen \in spawned[o] /\ wire[o] = NoWire /\ ledger[o].gen \in Gens \cup {NoGen}
      BY <1>3, ShellTypes, EntryParts DEF OpInv, SpawnInv, WireInv
    <2>2. ShellIs(o, "observed", shell[o].held, ledger[o].gen)
      BY <1>3, <2>1, ShellTypes, StateFacts, ShellObservedTo DEF ShellPcs
    <2> QED BY <1>1, <1>3, <2>1, <2>2, ShellMove
  <1>4. CASE /\ ledger[o].st = "reserved"
             /\ wire[o].start = 0
             /\ wire' = [wire EXCEPT ![o].start = wire[o].start + 1]
             /\ answer' = [answer EXCEPT ![o] = "none"]
             /\ shell' = [shell EXCEPT ![o].sent = shell[o].sent + 1]
    <2>1. wire[o] = NoWire
      BY <1>2, <1>4, ShellTypes, NoWireParts
    <2>2. spawned[o] = {}
      BY <1>1, <1>2, <1>4 DEF OpInv, RowInv
    <2>3. ShellIs(o, "starting", shell[o].held, shell[o].gen)
      <3>1. shell[o].sent + 1 \in Nat  BY ShellTypes
      <3> QED BY <1>1, <1>4, <3>1, ShellTypes, ShellSentOnly
    <2>4. wire' = [wire EXCEPT ![o].start = 1]
      BY <1>4
    <2>5. /\ wire' \in [Ops -> WireSet] /\ \A q \in Ops \ {o} : wire'[q] = wire[q]
          /\ wire'[o].reserve = 0 /\ wire'[o].start = 1
      BY <1>2, <2>4, WireUpdates
    <2> QED BY <1>1, <1>2, <1>4, <2>1, <2>2, <2>3, <2>5, Sends
  <1>5. CASE ledger[o].st = "refused" /\ Goto(o, "refused") /\ UNCHANGED wireVars
    <2>1. wire[o] = NoWire
      BY <1>5 DEF OpInv, WireInv
    <2>2. ShellIs(o, "refused", shell[o].held, shell[o].gen)
      BY <1>5, ShellTypes, ShellPcTo DEF Goto, ShellPcs
    <2> QED BY <1>1, <1>2, <1>5, <2>1, <2>2, ShellMove
  <1>6. wire \in [Ops -> [reserve : Nat, start : Nat]] /\ shell \in [Ops -> ShellSet]
    BY DEF TypeInv, WireTyped, ProcessTyped
  <1> QED BY <1>3, <1>4, <1>5, <1>6 DEF RecoverStart

\* Retiring the entry of an operation whose row has its generation, or that
\* never spawned.
LEMMA Retires ==
    ASSUME TypeInv, NEW o \in Ops, OpInv(o), shell[o].pc # "idle",
           NEW pc \in {"cancel", "forget"},
           ShellIs(o, pc, shell[o].held, shell[o].gen), wire[o] = NoWire,
           ledger' = [ledger EXCEPT ![o] = NoEntry],
           pc = "cancel" => spawned[o] = {},
           pc = "forget" => row[o] = NoRow \/ row[o].gen # NoGen,
           UNCHANGED <<journalVars, inst, mapped, nextGen, spawned, wireVars, worker>>
    PROVE  TypeInv' /\ OpInv(o)' /\ OpStep(o)
  <1> USE DEF journalVars, wireVars
  <1>1. shell' \in [Ops -> ShellSet] /\ \A q \in Ops \ {o} : shell'[q] = shell[q]
    BY DEF ShellIs
  <1>2. shell'[o].pc = pc /\ shell'[o].held = shell[o].held /\ shell'[o].gen = shell[o].gen
    BY DEF ShellIs
  <1>3. ledger' \in [Ops -> Entries] /\ ledger'[o].st = "unknown"
        /\ \A q \in Ops \ {o} : ledger'[q] = ledger[q]
    BY SMT DEF TypeInv, DaemonTyped, NoEntry, Entries
  <1>4. TypeInv'
    BY <1>1, <1>3 DEF TypeInv, JournalTyped, DaemonTyped, WireTyped, ProcessTyped
  <1>5. OpStep(o)
    BY <1>1, <1>2, <1>3 DEF OpStep, OpSame
  <1>6. WireInv(o)'
    BY <1>2, <1>3, SMT DEF OpInv, WireInv, Quiet, Unsent
  <1>7. LeaseInv(o)'
    BY <1>2, SMT DEF OpInv, LeaseInv, Exchange
  <1>8. SpawnInv(o)'
    BY <1>2, <1>3, SMT DEF OpInv, SpawnInv, Unsent
  <1>9. RowInv(o)'
    BY <1>2, <1>3, SMT DEF OpInv, RowInv
  <1> QED BY <1>4, <1>5, <1>6, <1>7, <1>8, <1>9 DEF OpInv

LEMMA RetireSteps ==
    ASSUME TypeInv, NEW o \in Ops, OpInv(o), RetireRefused(o) \/ RetirePublished(o)
    PROVE  TypeInv' /\ OpInv(o)' /\ OpStep(o)
  <1>1. CASE RetireRefused(o)
    <2>1. /\ shell[o].pc = "refused" /\ shell[o].held.bound = inst
          /\ UNCHANGED <<journalVars, inst, mapped, exited, nextGen, spawned, wireVars,
                         worker>>
      BY <1>1 DEF RetireRefused, SamePeer
    <2>2. CASE Ambiguous(o) /\ UNCHANGED ledger
      BY <2>1, <2>2, GotoSettles DEF daemonVars
    <2>3. CASE /\ ledger[o].st # "applied" /\ Goto(o, "cancel")
               /\ ledger' = [ledger EXCEPT ![o] = NoEntry]
      <3>1. spawned[o] = {} /\ wire[o] = NoWire
        BY <2>1, <2>3 DEF OpInv, LeaseInv, RowInv, WireInv, Exchange, Quiet
      <3>2. ShellIs(o, "cancel", shell[o].held, shell[o].gen)
        BY <2>3, ShellTypes, ShellPcTo DEF Goto, ShellPcs
      <3> QED BY <2>1, <2>3, <3>1, <3>2, Retires
    <2> QED BY <1>1, <2>2, <2>3 DEF RetireRefused
  <1>2. CASE RetirePublished(o)
    <2>1. /\ shell[o].pc = "retire"
          /\ UNCHANGED <<journalVars, inst, mapped, exited, nextGen, spawned, wireVars,
                         worker>>
      BY <1>2 DEF RetirePublished
    <2>2. CASE UNCHANGED ledger /\ Goto(o, "done")
      BY <2>1, <2>2, ShellEnds DEF daemonVars
    <2>3. CASE Goto(o, "forget") /\ ledger' = [ledger EXCEPT ![o] = NoEntry]
      <3>1. wire[o] = NoWire /\ (row[o] = NoRow \/ row[o].gen # NoGen)
        BY <2>1 DEF OpInv, RowInv, WireInv, Quiet
      <3>2. ShellIs(o, "forget", shell[o].held, shell[o].gen)
        BY <2>3, ShellTypes, ShellPcTo DEF Goto, ShellPcs
      <3> QED BY <2>1, <2>3, <3>1, <3>2, Retires
    <2> QED BY <1>2, <2>2, <2>3 DEF RetirePublished
  <1> QED BY <1>1, <1>2

(* Every step of the shell keeps the invariant of its operation.               *)
LEMMA ShellSteps ==
    ASSUME TypeInv, TimelyWire, NEW o \in Ops, OpInv(o), ShellStep(o) \/ ShellDies(o)
    PROVE  TypeInv' /\ OpInv(o)' /\ OpStep(o)
  BY QuietSteps, PrepareStep, BindStep, CancelStep, ForgetStep, MarkAppliedStep, FinalizeStep,
     SendReserveStep, SendStartStep, RecoverStartStep, RetireSteps
  DEF ShellStep

-----------------------------------------------------------------------------
(* The daemon, the lease and the records. *)

LEMMA HandleReserveStep ==
    ASSUME TypeInv, NEW o \in Ops, OpInv(o), HandleReserve(o)
    PROVE  TypeInv' /\ OpInv(o)' /\ OpStep(o)
  <1> DEFINE Answers == {"none", "reserved", "full", "applied", "refused"}
             e == [st |-> "reserved", gen |-> NoGen]
  <1>1. /\ wire[o].reserve > 0
        /\ wire' = [wire EXCEPT ![o].reserve = wire[o].reserve - 1]
        /\ UNCHANGED <<row, sess, lapsed, inst, mapped, nextGen, spawned, shell, worker>>
    BY DEF HandleReserve, journalVars, TypeInv, WireTyped
  <1>0. wire[o].reserve \in Nat /\ wire[o].start \in Nat
    BY ShellTypes, SMT
  <1>2. wire[o].reserve = 1 /\ wire[o].start = 0 /\ wire[o] # NoWire
    BY <1>0, <1>1, NoWireParts, SMT DEF OpInv, WireInv
  <1>3. wire' = [wire EXCEPT ![o].reserve = 0]
    BY <1>1, <1>2
  <1>4. /\ wire' \in [Ops -> WireSet] /\ \A q \in Ops \ {o} : wire'[q] = wire[q]
        /\ wire'[o].reserve = 0 /\ wire'[o].start = 0
    <2>1. wire' \in [Ops -> WireSet] /\ (\A q \in Ops \ {o} : wire'[q] = wire[q])
      BY <1>3, WireUpdates
    <2>2. wire'[o].reserve = 0 /\ wire'[o].start = wire[o].start
      BY <1>3, WireUpdates
    <2> QED BY <1>2, <2>1, <2>2
  <1>5. wire'[o] = NoWire
    BY <1>4, NoWireParts DEF WireSet
  <1>6. ledger[o].st \notin {"applied", "refused"}
    BY <1>2 DEF OpInv, WireInv
  <1>7. e \in Entries /\ e.st = "reserved"
    BY SMT DEF Entries
  <1> HIDE DEF e
  <1>8. ledger' = ledger \/ ledger' = [ledger EXCEPT ![o] = e]
    BY <1>6, Zenon DEF HandleReserve, e
  <1>9. /\ ledger' \in [Ops -> Entries] /\ ledger'[o].st \notin {"applied", "refused"}
        /\ \A q \in Ops \ {o} : ledger'[q] = ledger[q]
    BY <1>6, <1>7, <1>8 DEF TypeInv, DaemonTyped
  <1>10. answer \in [Ops -> Answers]
    BY DEF TypeInv, WireTyped
  <1>11. \E a \in Answers : answer' = [answer EXCEPT ![o] = a]
    BY <1>6, <1>10 DEF HandleReserve
  <1>12. answer' \in [Ops -> Answers] /\ \A q \in Ops \ {o} : answer'[q] = answer[q]
    BY <1>10, <1>11
  <1>13. TypeInv'
    BY <1>1, <1>4, <1>9, <1>12 DEF TypeInv, JournalTyped, DaemonTyped, WireTyped, ProcessTyped, WireSet
  <1>14. OpStep(o)
    BY <1>1, <1>4, <1>9, <1>12 DEF OpStep, OpSame
  <1>15. spawned[o] = {} /\ row[o].bound = inst
    BY <1>2 DEF OpInv, SpawnInv, LeaseInv
  <1>16. WireInv(o)'
    BY <1>1, <1>4, <1>5, <1>9, SMT DEF OpInv, WireInv, Quiet, Unsent
  <1>17. LeaseInv(o)'
    BY <1>1, <1>5, SMT DEF OpInv, LeaseInv, Exchange
  <1>18. SpawnInv(o)'
    BY <1>1, <1>5, <1>9, <1>15, SMT DEF OpInv, SpawnInv, Unsent
  <1>19. RowInv(o)'
    BY <1>1, <1>9, <1>15, SMT DEF OpInv, RowInv
  <1> QED BY <1>13, <1>14, <1>16, <1>17, <1>18, <1>19 DEF OpInv

\* The daemon takes a Start off the wire.
LEMMA StartTaken ==
    ASSUME TypeInv, NEW o \in Ops, OpInv(o), wire[o].start > 0,
           wire' = [wire EXCEPT ![o].start = @ - 1]
    PROVE  /\ wire' \in [Ops -> WireSet] /\ wire'[o] = NoWire /\ wire[o] # NoWire
           /\ wire'[o].reserve = 0 /\ wire'[o].start = 0
           /\ \A q \in Ops \ {o} : wire'[q] = wire[q]
           /\ shell[o].pc \notin Quiet \cup {"reserving"}
  <1>1. wire[o].reserve \in Nat /\ wire[o].start \in Nat
    BY ShellTypes, SMT
  <1>2. wire[o].start = 1 /\ wire[o].reserve = 0 /\ wire[o] # NoWire
    BY <1>1, NoWireParts, SMT DEF OpInv, WireInv
  <1>3. wire' = [wire EXCEPT ![o].start = 0]
    BY <1>2 DEF TypeInv, WireTyped
  <1>4. wire' \in [Ops -> WireSet] /\ (\A q \in Ops \ {o} : wire'[q] = wire[q])
    BY <1>3, WireUpdates
  <1>5. wire'[o].start = 0 /\ wire'[o].reserve = wire[o].reserve
    BY <1>3, WireUpdates
  <1>6. wire'[o] = NoWire
    BY <1>2, <1>4, <1>5, NoWireParts DEF WireSet
  <1>7. shell[o].pc \notin Quiet \cup {"reserving"}
    BY <1>2 DEF OpInv, WireInv
  <1> QED BY <1>2, <1>4, <1>5, <1>6, <1>7

LEMMA HandleStartStep ==
    ASSUME TypeInv, NEW o \in Ops, OpInv(o), HandleStart(o)
    PROVE  TypeInv' /\ OpInv(o)' /\ OpStep(o)
  <1> DEFINE Answers == {"none", "reserved", "full", "applied", "refused"}
  <1>1. /\ wire[o].start > 0 /\ wire' = [wire EXCEPT ![o].start = @ - 1]
        /\ UNCHANGED <<row, sess, lapsed, inst, shell, worker>>
    BY DEF HandleStart, journalVars
  <1>2. /\ wire' \in [Ops -> WireSet] /\ wire'[o] = NoWire /\ wire[o] # NoWire
        /\ wire'[o].reserve = 0 /\ wire'[o].start = 0
        /\ \A q \in Ops \ {o} : wire'[q] = wire[q]
        /\ shell[o].pc \notin Quiet \cup {"reserving"}
    BY <1>1, StartTaken
  <1>3. /\ spawned[o] = {} /\ row[o].bound = inst /\ row[o] # NoRow
        /\ row[o].gen = NoGen /\ row[o].disp = "finalize"
        /\ ledger[o].st \notin {"applied", "refused"}
    BY <1>2 DEF OpInv, SpawnInv, LeaseInv, WireInv
  <1>4. answer \in [Ops -> Answers]
    BY DEF TypeInv, WireTyped
  <1>5. \E a \in Answers : answer' = [answer EXCEPT ![o] = a]
    BY DEF HandleStart
  <1>6. answer' \in [Ops -> Answers] /\ \A q \in Ops \ {o} : answer'[q] = answer[q]
    BY <1>4, <1>5
  <1>7. LeaseInv(o)'
    BY <1>1, <1>2, SMT DEF OpInv, LeaseInv, Exchange
  <1>8. CASE /\ nextGen \in Gens
             /\ mapped' = [mapped EXCEPT ![o] = nextGen]
             /\ spawned' = [spawned EXCEPT ![o] = @ \cup {nextGen}]
             /\ nextGen' = nextGen + 1
             /\ ledger' = [ledger EXCEPT ![o] = [st |-> "applied", gen |-> nextGen]]
    <2>1. /\ mapped' \in [Ops -> Gens \cup {NoGen}] /\ spawned' \in [Ops -> SUBSET Gens]
          /\ mapped'[o] = nextGen /\ spawned'[o] = {nextGen}
          /\ \A q \in Ops \ {o} : mapped'[q] = mapped[q] /\ spawned'[q] = spawned[q]
      BY <1>3, <1>8 DEF TypeInv, DaemonTyped
    <2>2. nextGen' \in 1 .. (MaxGen + 1)
      BY <1>8, TaskStartAssumption DEF Gens
    <2>3. /\ ledger' \in [Ops -> Entries] /\ ledger'[o].st = "applied"
          /\ ledger'[o].gen = nextGen /\ \A q \in Ops \ {o} : ledger'[q] = ledger[q]
      BY <1>8, SMT DEF TypeInv, DaemonTyped, Entries
    <2>4. TypeInv'
      BY <1>1, <1>2, <1>6, <2>1, <2>2, <2>3
      DEF TypeInv, JournalTyped, DaemonTyped, WireTyped, ProcessTyped, WireSet
    <2>5. OpStep(o)
      BY <1>1, <1>2, <1>6, <2>1, <2>3 DEF OpStep, OpSame
    <2>6. WireInv(o)'
      BY <1>1, <1>2, <2>3, SMT DEF OpInv, WireInv, Quiet
    <2>7. SpawnInv(o)'
      BY <1>1, <1>2, <1>3, <2>1, <2>3, SMT DEF OpInv, SpawnInv, Quiet
    <2>8. RowInv(o)'
      BY ShellTypes, <1>1, <1>2, <1>3, <2>1, <2>3, SMT DEF OpInv, RowInv, Quiet, Unsent, Insts, Unbound
    <2> QED BY <1>7, <2>4, <2>5, <2>6, <2>7, <2>8 DEF OpInv
  <1>9. CASE /\ UNCHANGED <<mapped, nextGen, spawned>>
             /\ \/ ledger' = [ledger EXCEPT ![o] = [st |-> "refused", gen |-> NoGen]]
                \/ ledger' = ledger
    <2>1. /\ ledger' \in [Ops -> Entries] /\ ledger'[o].st # "applied"
          /\ \A q \in Ops \ {o} : ledger'[q] = ledger[q]
      BY <1>3, <1>9, SMT DEF TypeInv, DaemonTyped, Entries
    <2>2. TypeInv'
      BY <1>1, <1>2, <1>6, <1>9, <2>1
      DEF TypeInv, JournalTyped, DaemonTyped, WireTyped, ProcessTyped, WireSet
    <2>3. OpStep(o)
      BY <1>1, <1>2, <1>6, <1>9, <2>1 DEF OpStep, OpSame
    <2>4. WireInv(o)'
      BY <1>1, <1>2, <2>1, SMT DEF OpInv, WireInv, Quiet
    <2>5. SpawnInv(o)'
      BY <1>1, <1>2, <1>3, <1>9, <2>1, SMT DEF OpInv, SpawnInv
    <2>6. RowInv(o)'
      BY <1>1, <1>3, <1>9, <2>1, SMT DEF OpInv, RowInv
    <2> QED BY <1>7, <2>2, <2>3, <2>4, <2>5, <2>6 DEF OpInv
  <1> QED BY <1>8, <1>9 DEF HandleStart

LEMMA LoseRequestStep ==
    ASSUME TypeInv, NEW o \in Ops, OpInv(o), LoseRequest(o)
    PROVE  TypeInv' /\ OpInv(o)' /\ OpStep(o)
  <1>1. UNCHANGED <<row, sess, lapsed, inst, ledger, mapped, nextGen, spawned, answer, shell,
                    worker>>
    BY DEF LoseRequest, journalVars, daemonVars
  <1>2. wire[o].reserve \in Nat /\ wire[o].start \in Nat
    BY ShellTypes, SMT
  <1>3. /\ wire' \in [Ops -> WireSet] /\ wire'[o] = NoWire
        /\ \A q \in Ops \ {o} : wire'[q] = wire[q]
    <2>1. CASE wire[o].start > 0 /\ wire' = [wire EXCEPT ![o].start = @ - 1]
      BY <2>1, StartTaken
    <2>2. CASE wire[o].reserve > 0 /\ wire' = [wire EXCEPT ![o].reserve = @ - 1]
      <3>1. wire[o].reserve = 1 /\ wire[o].start = 0
        BY <1>2, <2>2, SMT DEF OpInv, WireInv
      <3>2. wire' = [wire EXCEPT ![o].reserve = 0]
        BY <2>2, <3>1 DEF TypeInv, WireTyped
      <3>3. wire' \in [Ops -> WireSet] /\ (\A q \in Ops \ {o} : wire'[q] = wire[q])
        BY <3>2, WireUpdates
      <3>4. wire'[o].reserve = 0 /\ wire'[o].start = wire[o].start
        BY <3>2, WireUpdates
      <3> QED BY <3>1, <3>3, <3>4, NoWireParts DEF WireSet
    <2> QED BY <2>1, <2>2 DEF LoseRequest
  <1>4. wire'[o].reserve = 0 /\ wire'[o].start = 0
    BY <1>3, NoWireParts
  <1>5. TypeInv'
    BY <1>1, <1>3 DEF TypeInv, JournalTyped, DaemonTyped, WireTyped, ProcessTyped, WireSet
  <1>6. OpStep(o)
    BY <1>1, <1>3 DEF OpStep, OpSame
  <1>7. WireInv(o)'
    BY <1>1, <1>3, <1>4, SMT DEF OpInv, WireInv
  <1>8. LeaseInv(o)'
    BY <1>1, <1>3, SMT DEF OpInv, LeaseInv
  <1>9. SpawnInv(o)'
    BY <1>1, <1>3, SMT DEF OpInv, SpawnInv
  <1>10. RowInv(o)'
    BY <1>1, SMT DEF OpInv, RowInv
  <1> QED BY <1>5, <1>6, <1>7, <1>8, <1>9, <1>10 DEF OpInv

\* The child, the Session, the lease and the product records.
LEMMA WorldSteps ==
    ASSUME TypeInv, TimelyWire, NEW o \in Ops, OpInv(o),
           ChildExits(o) \/ SessionRemoved(o) \/ LeaseLapses(o) \/ Edit(o)
    PROVE  TypeInv' /\ OpInv(o)' /\ OpStep(o)
  <1> USE DEF journalVars, daemonVars, wireVars
  <1>1. CASE ChildExits(o) \/ Edit(o)
    <2>1. UNCHANGED <<row, sess, lapsed, inst, ledger, mapped, nextGen, spawned, wire, answer,
                      shell, worker>>
      BY <1>1 DEF ChildExits, Edit
    <2>2. TypeInv'
      BY <2>1 DEF TypeInv, JournalTyped, DaemonTyped, WireTyped, ProcessTyped
    <2>3. \A q \in Ops : OpSame(q)
      BY <2>1 DEF OpSame
    <2> QED BY <2>1, <2>2, <2>3, OpFrame DEF OpStep, OpSame
  <1>2. CASE SessionRemoved(o)
    <2>1. /\ mapped' = [mapped EXCEPT ![o] = NoGen]
          /\ UNCHANGED <<row, sess, lapsed, inst, ledger, nextGen, spawned, wire, answer,
                         shell, worker>>
      BY <1>2 DEF SessionRemoved
    <2>2. /\ mapped' \in [Ops -> Gens \cup {NoGen}] /\ mapped'[o] = NoGen
          /\ \A q \in Ops \ {o} : mapped'[q] = mapped[q]
      BY <2>1 DEF TypeInv, DaemonTyped
    <2>3. TypeInv' /\ OpStep(o)
      BY <2>1, <2>2 DEF TypeInv, JournalTyped, DaemonTyped, WireTyped, ProcessTyped, OpStep, OpSame
    <2>4. WireInv(o)' /\ LeaseInv(o)'
      BY <2>1 DEF OpInv, WireInv, LeaseInv
    <2>5. SpawnInv(o)'
      BY <2>1, <2>2, SMT DEF OpInv, SpawnInv
    <2>6. RowInv(o)'
      BY <2>1, <2>2, SMT DEF OpInv, RowInv
    <2> QED BY <2>3, <2>4, <2>5, <2>6 DEF OpInv
  <1>3. CASE LeaseLapses(o)
    <2>1. /\ ~ ExchangeOpen(o) /\ lapsed' = lapsed \cup {o}
          /\ UNCHANGED <<row, sess, inst, ledger, mapped, nextGen, spawned, wire, answer,
                         shell, worker>>
      BY <1>3 DEF LeaseLapses
    <2>2. TypeInv' /\ OpStep(o)
      BY <2>1 DEF TypeInv, JournalTyped, DaemonTyped, WireTyped, ProcessTyped, OpStep, OpSame
    <2>3. shell[o].pc \notin Exchange /\ wire[o] = NoWire
      BY <2>1 DEF ExchangeOpen, Exchange
    <2>4. LeaseInv(o)'
      BY <2>1, <2>3 DEF OpInv, LeaseInv
    <2>5. WireInv(o)' /\ SpawnInv(o)' /\ RowInv(o)'
      BY <2>1 DEF OpInv, WireInv, SpawnInv, RowInv
    <2> QED BY <2>2, <2>4, <2>5 DEF OpInv
  <1> QED BY <1>1, <1>2, <1>3

-----------------------------------------------------------------------------
(* The workers. *)

\* A worker's step, as far as it matters to the other workers.
WorkerMove(w) ==
    LET o == worker[w].op IN
    /\ UNCHANGED <<inst, wire, answer, shell, spawned>>
    /\ \A q \in Ops \ {o} : OpSame(q)
    /\ \A v \in Workers \ {w} : worker'[v] = worker[v]
    /\ \/ row'[o] = row[o] /\ (o \in lapsed' <=> o \in lapsed)
       \/ /\ row[o] = worker[w].claim
          /\ row'[o] = NoRow \/ (row'[o].holder = w /\ row'[o].gen # NoGen)
    /\ mapped'[o] \in {mapped[o], NoGen}

LEMMA ClaimFacts ==
    ASSUME TypeInv, NEW w \in Workers, ClaimInv(w), worker[w].pc # "idle",
           \A q \in Ops : OpInv(q)
    PROVE  LET o == worker[w].op
               c == worker[w].claim IN
           /\ o \in Ops /\ OpInv(o) /\ c \in Rows /\ c # NoRow /\ c.holder = w /\ w # None
           /\ shell[o].pc # "idle" /\ shell[o].pc \notin Exchange /\ wire[o] = NoWire
           /\ row[o] = NoRow \/ row[o].holder # None
           /\ c.gen \in spawned[o] \cup {NoGen}
           /\ c.gen # NoGen => row[o] = NoRow \/ row[o].gen # NoGen
           /\ c.disp = "release" => c.gen # NoGen
  <1> DEFINE o == worker[w].op
             c == worker[w].claim
  <1>1. /\ o \in Ops /\ c \in Rows /\ c.holder = w /\ shell[o].pc # "idle"
        /\ row[o] = NoRow \/ row[o].holder # None
        /\ c.gen \in spawned[o] \cup {NoGen}
        /\ c.gen # NoGen => row[o] = NoRow \/ row[o].gen # NoGen
        /\ c.disp = "release" => c.gen # NoGen
    BY DEF ClaimInv
  <1>2. OpInv(o) /\ c # NoRow /\ w # None
    BY <1>1, NoRowParts, TaskStartAssumption
  <1>3. shell[o].pc \notin Exchange /\ wire[o] = NoWire
    BY <1>1, <1>2 DEF OpInv, LeaseInv
  <1> QED BY <1>1, <1>2, <1>3

LEMMA OthersStay ==
    ASSUME NEW w \in Workers, ClaimInv(w), worker[w].pc # "idle", WorkerMove(w),
           NEW v \in Workers \ {w}, ClaimInv(v), WorkInv(v)
    PROVE  ClaimInv(v)' /\ WorkInv(v)'
  <1> DEFINE o == worker[w].op
             q == worker[v].op
             c == worker[v].claim
             p == worker[v].pc
  <1>1. worker'[v] = worker[v]
    BY DEF WorkerMove
  <1>2. CASE p = "idle"
    BY <1>1, <1>2 DEF ClaimInv, WorkInv, Applied, Cleaned
  <1>3. CASE p # "idle"
    <2>1. /\ q \in Ops /\ c \in Rows /\ c.holder = v /\ shell[q].pc # "idle"
          /\ row[q] = NoRow \/ row[q].holder # None
          /\ c.gen \in spawned[q] \cup {NoGen}
          /\ c.gen # NoGen => row[q] = NoRow \/ row[q].gen # NoGen
          /\ c.disp = "release" => c.gen # NoGen
      BY <1>3 DEF ClaimInv
    <2>2. /\ shell' = shell /\ spawned' = spawned
          /\ row'[q] = NoRow \/ row'[q].holder # None
          /\ row[q] = NoRow \/ row[q].gen # NoGen => row'[q] = NoRow \/ row'[q].gen # NoGen
          /\ row'[q] = c => row[q] = c
          /\ mapped'[q] \in {mapped[q], NoGen}
          /\ row[q] = c => row'[q] = c /\ (q \in lapsed' <=> q \in lapsed)
      <3>1. CASE q # o
        BY <2>1, <3>1 DEF WorkerMove, OpSame
      <3>2. CASE q = o
        <4>1. worker[w].claim.holder = w /\ w # v /\ w # None
          BY TaskStartAssumption DEF ClaimInv
        <4>2. c # NoRow
          BY <2>1, NoRowParts
        <4> QED BY <2>1, <3>2, <4>1, <4>2 DEF WorkerMove
      <3> QED BY <3>1, <3>2
    <2>3. ClaimInv(v)'
      BY <1>1, <2>1, <2>2 DEF ClaimInv
    <2>4. WorkInv(v)'
      BY <1>1, <2>1, <2>2 DEF WorkInv
    <2> QED BY <2>3, <2>4
  <1> QED BY <1>2, <1>3

\* What remains to be shown of a worker's step: its own part and its row.
LEMMA WorkerStepRule ==
    ASSUME Inv, NEW w \in Workers, worker[w].pc # "idle", WorkerMove(w), TypeInv',
           NEW o \in Ops, o = worker[w].op,
           ledger'[o] = ledger[o] \/ ledger'[o].st = "unknown",
           SpawnInv(o)', RowInv(o)', ClaimInv(w)', WorkInv(w)'
    PROVE  Inv'
  <1>1. OpInv(o) /\ wire[o] = NoWire /\ shell[o].pc \notin Exchange
    BY ClaimFacts DEF Inv
  <1>2. UNCHANGED <<inst, wire, answer, shell>>
    BY DEF WorkerMove
  <1>3. WireInv(o)'
    BY <1>1, <1>2, SMT DEF OpInv, WireInv
  <1>4. LeaseInv(o)'
    BY <1>1, <1>2, SMT DEF OpInv, LeaseInv
  <1>5. OpInv(o)'
    BY <1>3, <1>4 DEF OpInv
  <1>6. ASSUME NEW q \in Ops PROVE OpInv(q)'
    <2>1. CASE q = o  BY <1>5, <2>1
    <2>2. CASE q # o
      <3>1. OpSame(q) /\ OpInv(q)  BY <2>2 DEF Inv, WorkerMove
      <3> QED BY <3>1, OpFrame
    <2> QED BY <2>1, <2>2
  <1>7. ASSUME NEW v \in Workers PROVE ClaimInv(v)' /\ WorkInv(v)'
    BY OthersStay DEF Inv
  <1> QED BY <1>6, <1>7 DEF Inv

-----------------------------------------------------------------------------
(* Steps of a worker that move nothing else. *)

LEMMA WorkerQuiet ==
    ASSUME Inv, NEW w \in Workers, worker[w].pc # "idle",
           worker' \in [Workers -> WorkerStates],
           \A v \in Workers \ {w} : worker'[v] = worker[v],
           UNCHANGED <<row, lapsed, sess, daemonVars, wireVars, shell>>,
           ClaimInv(w)', WorkInv(w)'
    PROVE  Inv'
  <1> USE DEF daemonVars, wireVars
  <1>1. PICK o \in Ops : o = worker[w].op /\ OpInv(o)
    BY ClaimFacts DEF Inv
  <1>2. \A q \in Ops : OpSame(q)
    BY DEF OpSame
  <1>3. WorkerMove(w)
    BY <1>1, <1>2 DEF WorkerMove
  <1>4. TypeInv'
    BY DEF Inv, TypeInv, JournalTyped, DaemonTyped, WireTyped, ProcessTyped
  <1>5. OpInv(o)'
    BY <1>1, <1>2, OpFrame
  <1>6. ledger'[o] = ledger[o] /\ SpawnInv(o)' /\ RowInv(o)'
    BY <1>5 DEF OpInv
  <1> QED BY <1>1, <1>3, <1>4, <1>6, WorkerStepRule

LEMMA IdleHasNoPart ==
    ASSUME NEW w, worker'[w].pc = "idle"
    PROVE  ClaimInv(w)' /\ WorkInv(w)'
  BY DEF ClaimInv, WorkInv, Applied, Cleaned

LEMMA DropStep ==
    ASSUME Inv, NEW w \in Workers, worker[w].pc # "idle", Drop(w),
           UNCHANGED <<row, lapsed, sess, daemonVars, wireVars, shell>>
    PROVE  Inv'
  BY WorkerDrops, IdleHasNoPart, WorkerQuiet DEF Inv, TypeInv, ProcessTyped

LEMMA WorkerTypes ==
    ASSUME TypeInv, NEW w \in Workers
    PROVE  /\ worker \in [Workers -> WorkerStates] /\ worker[w].pc \in WorkerPcs
           /\ worker[w].gen \in Gens \cup {NoGen} /\ worker[w].state \in States
           /\ worker[w].claim \in Rows \cup {NoRow}
  <1>1. worker \in [Workers -> WorkerStates] /\ worker[w] \in WorkerStates
    BY DEF TypeInv, ProcessTyped
  <1> QED BY <1>1, SMT DEF WorkerStates, WorkerPcs

(* A turn keeps the claim; what it needs is what the new place promises.       *)
LEMMA TurnKeepsClaim ==
    ASSUME NEW w \in Workers, ClaimInv(w), worker[w].pc # "idle", NEW pc, NEW g,
           WorkerIs(w, pc, worker[w].claim, g), NEW o, o = worker[w].op,
           shell' = shell, spawned' = spawned, row'[o] = row[o]
    PROVE  ClaimInv(w)'
  BY DEF ClaimInv, WorkerIs

LEMMA ConnectStep ==
    ASSUME Inv, NEW w \in Workers, Connect(w)
    PROVE  Inv'
  <1> DEFINE c == worker[w].claim
  <1>1. /\ worker[w].pc = "claimed"
        /\ UNCHANGED <<row, lapsed, sess, daemonVars, wireVars, shell>>
    BY DEF Connect, At, journalVars
  <1>2. CASE Drop(w)
    BY <1>1, <1>2, DropStep
  <1>3. CASE \/ c.bound = Unbound /\ Turn(w, "compensate")
             \/ c.disp = "release" /\ Turn(w, "retireRelease")
             \/ c.disp # "release" /\ Turn(w, "lookup")
    <2>1. PICK pc \in {"compensate", "retireRelease", "lookup"} :
            /\ Turn(w, pc)
            /\ pc = "compensate" => c.bound = Unbound
            /\ pc = "retireRelease" => c.disp = "release"
            /\ pc = "lookup" => c.disp # "release"
      BY <1>3
    <2>2. WorkerIs(w, pc, c, worker[w].gen)
      BY <2>1, WorkerTypes, WorkerTurns DEF Inv, WorkerPcs
    <2>3. PICK o \in Ops : o = worker[w].op
      BY <1>1, ClaimFacts DEF Inv
    <2>4. /\ OpInv(o) /\ c \in Rows /\ c # NoRow
          /\ c.gen \in spawned[o] \cup {NoGen}
          /\ c.disp = "release" => c.gen # NoGen
      BY <1>1, <2>3, ClaimFacts DEF Inv
    <2>5. UNCHANGED <<row, lapsed, spawned, mapped, shell>>
      BY <1>1 DEF daemonVars
    <2>6. ClaimInv(w)'
      BY <1>1, <2>2, <2>3, <2>5, TurnKeepsClaim DEF Inv
    <2>7. pc = "compensate" /\ row[o] = c => spawned[o] = {}
      BY <2>1, <2>4 DEF OpInv, RowInv
    <2>8. c.disp \in {"finalize", "release"}
      BY <2>4, RowParts
    <2>9. WorkInv(w)'
      BY <2>1, <2>2, <2>3, <2>4, <2>5, <2>7, <2>8 DEF WorkInv, WorkerIs, Applied, Cleaned
    <2> QED BY <1>1, <2>2, <2>6, <2>9, WorkerQuiet DEF WorkerIs
  <1> QED BY <1>2, <1>3 DEF Connect

LEMMA LookupStep ==
    ASSUME Inv, NEW w \in Workers, Lookup(w)
    PROVE  Inv'
  <1> DEFINE c == worker[w].claim
  <1>1. /\ worker[w].pc = "lookup"
        /\ UNCHANGED <<row, lapsed, sess, daemonVars, wireVars, shell>>
    BY DEF Lookup, At, journalVars
  <1>2. PICK o \in Ops : o = worker[w].op
    BY <1>1, ClaimFacts DEF Inv
  <1>3. /\ OpInv(o) /\ c \in Rows /\ c # NoRow
        /\ c.gen \in spawned[o] \cup {NoGen}
        /\ c.disp = "release" => c.gen # NoGen
        /\ c.disp = "finalize"
    BY <1>1, <1>2, ClaimFacts DEF Inv, WorkInv
  <1>4. UNCHANGED <<row, lapsed, spawned, mapped, shell>>
    BY <1>1 DEF daemonVars
  <1>5. CASE Drop(w)
    BY <1>1, <1>5, DropStep
  <1>6. CASE c.gen = NoGen /\ Turn(w, "retireUnapplied")
    <2>1. WorkerIs(w, "retireUnapplied", c, worker[w].gen)
      BY <1>6, WorkerTypes, WorkerTurns DEF Inv, WorkerPcs
    <2>2. ClaimInv(w)'
      BY <1>1, <1>2, <1>4, <2>1, TurnKeepsClaim DEF Inv
    <2>3. WorkInv(w)'
      BY <1>3, <1>6, <2>1 DEF WorkInv, WorkerIs, Applied, Cleaned
    <2> QED BY <1>1, <2>1, <2>2, <2>3, WorkerQuiet DEF WorkerIs
  <1>7. CASE \E g \in spawned[o], st \in States :
               worker' = [worker EXCEPT ![w].pc = "mark", ![w].gen = g, ![w].state = st]
    <2>1. PICK g \in spawned[o], st \in States :
            worker' = [worker EXCEPT ![w].pc = "mark", ![w].gen = g, ![w].state = st]
      BY <1>7
    <2>2. g \in Gens \cup {NoGen} /\ worker \in [Workers -> WorkerStates]
      BY ShellTypes, WorkerTypes DEF Inv
    <2>3. WorkerIs(w, "mark", c, g)
      BY <2>1, <2>2, WorkerObserves DEF WorkerPcs
    <2>4. ClaimInv(w)'
      BY <1>1, <1>2, <1>4, <2>3, TurnKeepsClaim DEF Inv
    <2>5. WorkInv(w)'
      BY <1>2, <1>3, <1>4, <2>3 DEF WorkInv, WorkerIs, Applied, Cleaned
    <2> QED BY <1>1, <2>3, <2>4, <2>5, WorkerQuiet DEF WorkerIs
  <1>8. CASE \/ c.gen # NoGen /\ worker' = [worker EXCEPT ![w].pc = "mark", ![w].gen = c.gen,
                                                        ![w].state = ObservedState(o, c)]
             \/ /\ ledger[o].st = "applied"
                /\ worker' = [worker EXCEPT ![w].pc = "mark", ![w].gen = ledger[o].gen,
                                            ![w].state = Lifecycle(o, ledger[o].gen)]
    <2>1. ledger[o].st = "applied" => ledger[o].gen \in spawned[o]
      BY <1>3 DEF OpInv, SpawnInv
    <2>2. c.state \in States
      BY <1>3, RowParts
    <2>3. ObservedState(o, c) \in States /\ Lifecycle(o, ledger[o].gen) \in States
      BY <2>2, StateFacts DEF ObservedState
    <2>4. c.gen # NoGen => c.gen \in spawned[o]
      BY <1>3
    <2> QED BY <1>7, <1>8, <2>1, <2>3, <2>4
  <1> QED BY <1>2, <1>5, <1>6, <1>8 DEF Lookup

-----------------------------------------------------------------------------
(* Steps of a worker that write the ledger, the row or the daemon. *)

\* Retiring the entry of a row that has its generation, or that never spawned.
LEMMA WorkerRetires ==
    ASSUME Inv, NEW w \in Workers, worker[w].pc # "idle", NEW o \in Ops, o = worker[w].op,
           ledger' = [ledger EXCEPT ![o] = NoEntry],
           UNCHANGED <<journalVars, inst, mapped, exited, nextGen, spawned, wireVars, shell>>,
           worker' \in [Workers -> WorkerStates],
           \A v \in Workers \ {w} : worker'[v] = worker[v],
           row[o] = NoRow \/ row[o].gen # NoGen \/ row[o].bound # inst \/ spawned[o] = {},
           ClaimInv(w)', WorkInv(w)'
    PROVE  Inv'
  <1> USE DEF journalVars, wireVars
  <1>1. OpInv(o) /\ wire[o] = NoWire
    BY ClaimFacts DEF Inv
  <1>2. ledger' \in [Ops -> Entries] /\ ledger'[o].st = "unknown"
        /\ \A q \in Ops \ {o} : ledger'[q] = ledger[q]
    BY SMT DEF Inv, TypeInv, DaemonTyped, NoEntry, Entries
  <1>3. TypeInv'
    BY <1>2 DEF Inv, TypeInv, JournalTyped, DaemonTyped, WireTyped, ProcessTyped
  <1>4. WorkerMove(w)
    BY <1>2 DEF WorkerMove, OpSame
  <1>5. SpawnInv(o)'
    BY <1>1, <1>2, SMT DEF OpInv, SpawnInv
  <1>6. RowInv(o)'
    BY <1>1, <1>2, SMT DEF OpInv, RowInv
  <1> QED BY <1>2, <1>3, <1>4, <1>5, <1>6, WorkerStepRule

LEMMA RetireUnappliedStep ==
    ASSUME Inv, NEW w \in Workers, RetireUnapplied(w)
    PROVE  Inv'
  <1> DEFINE c == worker[w].claim
  <1>1. /\ worker[w].pc = "retireUnapplied"
        /\ UNCHANGED <<journalVars, inst, mapped, exited, nextGen, spawned, wireVars,
                       shell>>
    BY DEF RetireUnapplied, At
  <1>2. PICK o \in Ops : o = worker[w].op
    BY <1>1, ClaimFacts DEF Inv
  <1>3. CASE UNCHANGED ledger /\ Drop(w)
    BY <1>1, <1>3, DropStep DEF journalVars, daemonVars
  <1>4. CASE /\ c.bound = inst /\ ledger[o].st # "applied"
             /\ ledger' = [ledger EXCEPT ![o] = NoEntry] /\ Turn(w, "compensate")
    <2>1. /\ OpInv(o) /\ c \in Rows /\ c # NoRow
          /\ c.gen = NoGen /\ c.disp = "finalize"
      BY <1>1, <1>2, ClaimFacts DEF Inv, WorkInv
    <2>2. WorkerIs(w, "compensate", c, worker[w].gen)
      BY <1>4, WorkerTypes, WorkerTurns DEF Inv, WorkerPcs
    <2>3. row[o] = NoRow \/ row[o].gen # NoGen \/ row[o].bound # inst \/ spawned[o] = {}
      BY <1>4, <2>1 DEF OpInv, RowInv
    <2>4. UNCHANGED <<row, lapsed, spawned, mapped, shell>>
      BY <1>1 DEF journalVars
    <2>5. ClaimInv(w)'
      BY <1>1, <1>2, <2>2, <2>4, TurnKeepsClaim DEF Inv
    <2>6. row[o] = c => spawned[o] = {}
      BY <1>4, <2>1, <2>3
    <2>7. WorkInv(w)'
      BY <1>2, <2>1, <2>2, <2>4, <2>6 DEF WorkInv, WorkerIs, Applied, Cleaned
    <2> QED BY <1>1, <1>2, <1>4, <2>2, <2>3, <2>5, <2>7, WorkerRetires DEF WorkerIs
  <1> QED BY <1>2, <1>3, <1>4 DEF RetireUnapplied, SamePeer

LEMMA RetireAppliedStep ==
    ASSUME Inv, NEW w \in Workers, RetireApplied(w)
    PROVE  Inv'
  <1> DEFINE c == worker[w].claim
  <1>1. /\ worker[w].pc \in {"retireCleaned", "retireRelease"}
        /\ UNCHANGED <<journalVars, inst, mapped, exited, nextGen, spawned, wireVars,
                       shell>>
    BY DEF RetireApplied
  <1>2. PICK o \in Ops : o = worker[w].op
    BY <1>1, ClaimFacts DEF Inv
  <1>3. CASE UNCHANGED ledger /\ Drop(w)
    BY <1>1, <1>3, DropStep DEF journalVars, daemonVars
  <1>4. CASE /\ ledger' = [ledger EXCEPT ![o] = NoEntry]
             /\ Turn(w, IF At(w, "retireCleaned") THEN "dropCleaned" ELSE "dropRelease")
    <2>1. PICK pc \in {"dropCleaned", "dropRelease"} :
            /\ Turn(w, pc)
            /\ pc = "dropCleaned" => worker[w].pc = "retireCleaned"
            /\ pc = "dropRelease" => worker[w].pc = "retireRelease"
      BY <1>1, <1>4 DEF At
    <2>2. /\ c.gen \in spawned[o]
          /\ pc = "dropRelease" => c.disp = "release"
          /\ pc = "dropCleaned" => worker[w].gen \in spawned[o] /\ mapped[o] = NoGen
      BY <1>1, <1>2, <2>1 DEF Inv, WorkInv, Applied, Cleaned
    <2>3. c.gen # NoGen
      BY <2>2, ShellTypes DEF Inv, Gens, NoGen
    <2>4. row[o] = NoRow \/ row[o].gen # NoGen
      BY <1>1, <1>2, <2>3, ClaimFacts DEF Inv
    <2>5. WorkerIs(w, pc, c, worker[w].gen)
      BY <2>1, WorkerTypes, WorkerTurns DEF Inv, WorkerPcs
    <2>6. UNCHANGED <<row, lapsed, spawned, mapped, shell>>
      BY <1>1 DEF journalVars
    <2>7. ClaimInv(w)'
      BY <1>1, <1>2, <2>5, <2>6, TurnKeepsClaim DEF Inv
    <2>8. WorkInv(w)'
      BY <1>2, <2>2, <2>5, <2>6 DEF WorkInv, WorkerIs, Applied, Cleaned
    <2> QED BY <1>1, <1>2, <1>4, <2>4, <2>5, <2>7, <2>8, WorkerRetires DEF WorkerIs
  <1> QED BY <1>2, <1>3, <1>4 DEF RetireApplied

\* The worker's last transaction: the row goes, and Session A with it or not.
LEMMA WorkerDeletes ==
    ASSUME Inv, NEW w \in Workers, worker[w].pc # "idle", NEW o \in Ops, o = worker[w].op,
           IsCurrent(o, worker[w].claim), DeleteRow(o), Drop(w),
           NEW s \in Sessions, sess' = [sess EXCEPT ![o] = s], s.gen \in {sess[o].gen, NoGen},
           mapped[o] = NoGen \/ s.gen = mapped[o],
           UNCHANGED <<daemonVars, wireVars, shell>>
    PROVE  Inv'
  <1> USE DEF daemonVars, wireVars
  <1>1. /\ OpInv(o) /\ shell[o].pc # "idle" /\ row[o] = worker[w].claim
    BY ClaimFacts DEF Inv, IsCurrent
  <1>2. /\ row' \in [Ops -> Rows \cup {NoRow}] /\ sess' \in [Ops -> Sessions]
        /\ row'[o] = NoRow /\ sess'[o] = s
        /\ \A q \in Ops \ {o} : row'[q] = row[q] /\ sess'[q] = sess[q]
    BY DEF Inv, TypeInv, JournalTyped, DeleteRow
  <1>3. /\ worker' \in [Workers -> WorkerStates] /\ worker'[w].pc = "idle"
        /\ \A v \in Workers \ {w} : worker'[v] = worker[v]
    BY WorkerTypes, WorkerDrops DEF Inv
  <1>4. TypeInv'
    BY <1>2, <1>3 DEF Inv, TypeInv, JournalTyped, DaemonTyped, WireTyped, ProcessTyped
  <1>5. \A q \in Ops \ {o} : OpSame(q)
    BY <1>2 DEF OpSame, DeleteRow
  <1>6. WorkerMove(w)
    BY <1>1, <1>2, <1>3, <1>5 DEF WorkerMove
  <1>7. ClaimInv(w)' /\ WorkInv(w)'
    BY <1>3, IdleHasNoPart
  <1>8. SpawnInv(o)'
    BY <1>1, <1>2, NoRowParts, SMT DEF OpInv, SpawnInv
  <1>9. inst \in Insts
    BY DEF Inv, TypeInv, DaemonTyped
  <1>10. RowInv(o)'
    BY <1>1, <1>2, <1>9, NoRowParts, SMT DEF OpInv, RowInv, Insts, Unbound
  <1> QED BY <1>4, <1>6, <1>7, <1>8, <1>10, WorkerStepRule

LEMMA DeleteSteps ==
    ASSUME Inv, NEW w \in Workers, DropChanged(w) \/ DropCleaned(w) \/ DropRelease(w)
    PROVE  Inv'
  <1> DEFINE c == worker[w].claim
  <1>1. /\ worker[w].pc \in {"dropChanged", "dropCleaned", "dropRelease"} /\ Drop(w)
        /\ UNCHANGED <<sess, daemonVars, wireVars, shell>>
    BY DEF DropChanged, DropCleaned, DropRelease, At
  <1>2. PICK o \in Ops : o = worker[w].op
    BY <1>1, ClaimFacts DEF Inv
  <1>3. CASE UNCHANGED <<row, lapsed>>
    BY <1>1, <1>3, DropStep
  <1>4. CASE IsCurrent(o, c) /\ DeleteRow(o)
    <2>1. sess' = [sess EXCEPT ![o] = sess[o]] /\ sess[o] \in Sessions
      BY <1>1 DEF Inv, TypeInv, JournalTyped
    <2>2. OpInv(o) /\ row[o] = c
      BY <1>1, <1>2, <1>4, ClaimFacts DEF Inv, IsCurrent
    <2>3. worker[w].pc = "dropChanged" => spawned[o] = {}
      BY <1>2, <2>2 DEF Inv, WorkInv
    <2>4. CASE worker[w].pc = "dropChanged"
      <3>1. mapped[o] = NoGen
        BY <2>2, <2>3, <2>4 DEF OpInv, SpawnInv
      <3> QED BY <1>1, <1>2, <1>4, <2>1, <2>3, <2>4, <3>1, WorkerDeletes
    <2>5. CASE worker[w].pc = "dropCleaned"
      <3>1. mapped[o] = NoGen
        BY <1>2, <2>5 DEF Inv, WorkInv, Cleaned
      <3> QED BY <1>1, <1>2, <1>4, <2>1, <2>5, <3>1, WorkerDeletes
    <2>6. CASE worker[w].pc = "dropRelease"
      <3>1. c.disp = "release"
        BY <2>6 DEF Inv, WorkInv
      <3>2. row[o].gen # NoGen /\ sess[o].gen = row[o].gen
        BY <2>2, <3>1 DEF OpInv, RowInv
      <3>3. mapped[o] = NoGen \/ sess[o].gen = mapped[o]
        BY <2>2, <3>2 DEF OpInv, SpawnInv
      <3> QED BY <1>1, <1>2, <1>4, <2>1, <2>6, <3>3, WorkerDeletes
    <2> QED BY <1>1, <2>4, <2>5, <2>6
  <1> QED BY <1>2, <1>3, <1>4 DEF DropChanged, DropCleaned, DropRelease, At

LEMMA CompensateStep ==
    ASSUME Inv, NEW w \in Workers, Compensate(w)
    PROVE  Inv'
  <1> DEFINE c == worker[w].claim
  <1>1. worker[w].pc = "compensate" /\ UNCHANGED <<daemonVars, wireVars, shell>>
    BY DEF Compensate, At
  <1>2. PICK o \in Ops : o = worker[w].op
    BY <1>1, ClaimFacts DEF Inv
  <1>3. CASE Drop(w) /\ UNCHANGED <<row, lapsed, sess>>
    BY <1>1, <1>3, DropStep
  <1>4. row[o] = c => spawned[o] = {}
    BY <1>1, <1>2 DEF Inv, WorkInv
  <1>5. CASE Turn(w, "dropChanged") /\ UNCHANGED <<row, lapsed, sess>>
    <2>1. WorkerIs(w, "dropChanged", c, worker[w].gen)
      BY <1>5, WorkerTypes, WorkerTurns DEF Inv, WorkerPcs
    <2>2. UNCHANGED <<row, spawned, shell>>
      BY <1>1, <1>5 DEF daemonVars
    <2>3. ClaimInv(w)'
      BY <1>1, <1>2, <2>1, <2>2, TurnKeepsClaim DEF Inv
    <2>4. WorkInv(w)'
      BY <1>2, <1>4, <2>1, <2>2 DEF WorkInv, WorkerIs, Applied, Cleaned
    <2> QED BY <1>1, <1>5, <2>1, <2>3, <2>4, WorkerQuiet DEF WorkerIs
  <1>6. CASE /\ IsCurrent(o, c) /\ DeleteRow(o) /\ sess' = [sess EXCEPT ![o] = NoSess]
             /\ Drop(w)
    <2>1. OpInv(o) /\ spawned[o] = {}
      BY <1>4, <1>6 DEF Inv, IsCurrent
    <2>2. mapped[o] = NoGen
      BY <2>1 DEF OpInv, SpawnInv
    <2> QED BY <1>1, <1>2, <1>6, <2>1, <2>2, SessionShapes, WorkerDeletes
  <1> QED BY <1>2, <1>3, <1>5, <1>6 DEF Compensate

\* The worker rewrites its row, and the Session record with it or not.
LEMMA WorkerWrites ==
    ASSUME Inv, NEW w \in Workers, worker[w].pc # "idle", NEW o \in Ops, o = worker[w].op,
           IsCurrent(o, worker[w].claim), worker[w].claim.disp = "finalize",
           NEW r \in Rows, NEW s \in Sessions, NEW pc,
           row' = [row EXCEPT ![o] = r], sess' = [sess EXCEPT ![o] = s],
           lapsed' = lapsed \/ lapsed' = lapsed \ {o},
           r.bound = worker[w].claim.bound, r.holder = w, r.gen \in spawned[o],
           \/ r.disp = "finalize" /\ s = sess[o]
           \/ r.disp = "release" /\ s.gen = r.gen,
           WorkerIs(w, pc, r, worker[w].gen), WorkInv(w)',
           UNCHANGED <<daemonVars, wireVars, shell>>
    PROVE  Inv'
  <1> USE DEF daemonVars, wireVars
  <1>1. /\ OpInv(o) /\ shell[o].pc # "idle" /\ row[o] = worker[w].claim /\ row[o] # NoRow
        /\ w # None /\ row[o].bound = r.bound
    BY ClaimFacts DEF Inv, IsCurrent
  <1>2. /\ row' \in [Ops -> Rows \cup {NoRow}] /\ sess' \in [Ops -> Sessions]
        /\ row'[o] = r /\ sess'[o] = s
        /\ \A q \in Ops \ {o} : row'[q] = row[q] /\ sess'[q] = sess[q]
    BY DEF Inv, TypeInv, JournalTyped
  <1>3. /\ worker' \in [Workers -> WorkerStates]
        /\ \A v \in Workers \ {w} : worker'[v] = worker[v]
        /\ worker'[w].op = o /\ worker'[w].claim = r
    BY DEF WorkerIs
  <1>4. r # NoRow /\ r.gen # NoGen
    BY NoRowParts, ShellTypes DEF Inv, Gens, NoGen
  <1>5. TypeInv'
    BY <1>2, <1>3 DEF Inv, TypeInv, JournalTyped, DaemonTyped, WireTyped, ProcessTyped
  <1>6. \A q \in Ops \ {o} : OpSame(q)
    BY <1>2 DEF OpSame
  <1>7. WorkerMove(w)
    BY <1>1, <1>2, <1>3, <1>4, <1>6 DEF WorkerMove
  <1>8. sess[o].gen = NoGen
    BY <1>1 DEF OpInv, RowInv
  <1>9. SpawnInv(o)'
    BY <1>1, <1>2, <1>4, <1>8, SMT DEF OpInv, SpawnInv
  <1>10. RowInv(o)'
    BY <1>1, <1>2, <1>4, <1>8, SMT DEF OpInv, RowInv
  <1>11. ClaimInv(w)'
    BY <1>1, <1>2, <1>3, <1>4 DEF ClaimInv
  <1> QED BY <1>5, <1>7, <1>9, <1>10, <1>11, WorkerStepRule

LEMMA MarkSteps ==
    ASSUME Inv, NEW w \in Workers, Mark(w) \/ MarkRemoved(w)
    PROVE  Inv'
  <1> DEFINE c == worker[w].claim
             g == worker[w].gen
  <1>1. PICK st \in States, pc \in {"publish", "retireCleaned"} :
          /\ MarkClaimed(w, st, pc)
          /\ pc = "publish" => worker[w].pc = "mark"
          /\ pc = "retireCleaned" => worker[w].pc = "markRemoved"
    BY WorkerTypes, StateFacts DEF Mark, MarkRemoved, At, Inv
  <1>2. worker[w].pc \in {"mark", "markRemoved"}
    BY <1>1
  <1>3. PICK o \in Ops : o = worker[w].op
    BY <1>2, ClaimFacts DEF Inv
  <1> DEFINE r == [c EXCEPT !.gen = g, !.state = st]
  <1>4. UNCHANGED <<sess, daemonVars, wireVars, shell>>
    BY <1>1 DEF MarkClaimed
  <1>5. CASE Drop(w) /\ UNCHANGED <<row, lapsed>>
    BY <1>2, <1>4, <1>5, DropStep
  <1>6. CASE /\ IsCurrent(o, c) /\ PutRow(o, r)
             /\ worker' = [worker EXCEPT ![w].pc = pc, ![w].claim = r]
    <2>1. /\ OpInv(o) /\ c \in Rows /\ c.holder = w /\ c.disp = "finalize"
          /\ g \in spawned[o]
          /\ pc = "retireCleaned" => mapped[o] = NoGen
      BY <1>1, <1>2, <1>3, ClaimFacts DEF Inv, WorkInv, Cleaned
    <2>2. r = Marked(c, g, st)
      BY DEF Marked
    <2>3. g \in Gens \cup {NoGen} /\ worker \in [Workers -> WorkerStates] /\ sess[o] \in Sessions
      BY WorkerTypes, ShellTypes DEF Inv
    <2> HIDE DEF r
    <2>4. /\ r \in Rows /\ r.bound = c.bound /\ r.gen = g /\ r.disp = "finalize"
          /\ r.holder = w
      BY <2>1, <2>2, <2>3, RowMark
    <2>5. WorkerIs(w, pc, r, g)
      BY <1>6, <2>3, <2>4, WorkerRewrites DEF WorkerPcs
    <2>6. UNCHANGED <<spawned, mapped>>
      BY <1>4 DEF daemonVars
    <2>7. WorkInv(w)'
      BY <1>3, <2>1, <2>4, <2>5, <2>6 DEF WorkInv, WorkerIs, Applied, Cleaned
    <2>8. sess' = [sess EXCEPT ![o] = sess[o]]
      BY <1>4 DEF Inv, TypeInv, JournalTyped
    <2>9. row' = [row EXCEPT ![o] = r] /\ lapsed' = lapsed \ {o}
      BY <1>6 DEF PutRow
    <2> QED BY <1>2, <1>3, <1>4, <1>6, <2>1, <2>3, <2>4, <2>5, <2>7, <2>8, <2>9, WorkerWrites
  <1> QED BY <1>1, <1>3, <1>5, <1>6 DEF MarkClaimed

LEMMA PublishStep ==
    ASSUME Inv, NEW w \in Workers, Publish(w)
    PROVE  Inv'
  <1> DEFINE c == worker[w].claim
             g == worker[w].gen
             r == [c EXCEPT !.disp = "release"]
             s == [st |-> PublishedStatus(c.state), gen |-> c.gen]
  <1>1. worker[w].pc = "publish" /\ UNCHANGED <<lapsed, daemonVars, wireVars, shell>>
    BY DEF Publish, At
  <1>2. PICK o \in Ops : o = worker[w].op
    BY <1>1, ClaimFacts DEF Inv
  <1>3. /\ OpInv(o) /\ c \in Rows /\ c.holder = w /\ c.disp = "finalize"
        /\ g \in spawned[o] /\ c.gen \in spawned[o]
    BY <1>1, <1>2, ClaimFacts DEF Inv, WorkInv, Applied
  <1>4. UNCHANGED <<spawned, mapped>>
    BY <1>1 DEF daemonVars
  <1>5. CASE Drop(w) /\ UNCHANGED <<row, sess>>
    BY <1>1, <1>5, DropStep
  <1>6. CASE IsCurrent(o, c) /\ Turn(w, "kill") /\ UNCHANGED <<row, sess>>
    <2>1. WorkerIs(w, "kill", c, g)
      BY <1>6, WorkerTypes, WorkerTurns DEF Inv, WorkerPcs
    <2>2. ClaimInv(w)'
      BY <1>1, <1>2, <1>4, <1>6, <2>1, TurnKeepsClaim DEF Inv
    <2>3. row'[o] = c /\ o \notin lapsed'
      BY <1>1, <1>6 DEF IsCurrent
    <2>4. WorkInv(w)'
      BY <1>2, <1>3, <1>4, <2>1, <2>3 DEF WorkInv, WorkerIs, Applied, Cleaned
    <2> QED BY <1>1, <1>6, <2>1, <2>2, <2>4, WorkerQuiet DEF WorkerIs
  <1>7. CASE /\ IsCurrent(o, c)
             /\ sess' = [sess EXCEPT ![o] = s] /\ row' = [row EXCEPT ![o] = r]
             /\ worker' = [worker EXCEPT ![w].pc = "retireRelease", ![w].claim = r]
    <2>1. /\ r \in Rows /\ r.bound = c.bound /\ r.gen = c.gen /\ r.disp = "release"
          /\ r.holder = w
      BY <1>3, RowRelease
    <2>2. s \in Sessions /\ s.gen = r.gen
      BY <1>3, <2>1, RowParts, SessionShapes
    <2> HIDE DEF r, s
    <2>3. WorkerIs(w, "retireRelease", r, g)
      BY <1>7, <2>1, WorkerTypes, WorkerRewrites DEF Inv, WorkerPcs
    <2>4. WorkInv(w)'
      BY <1>2, <1>3, <1>4, <2>1, <2>3 DEF WorkInv, WorkerIs, Applied, Cleaned
    <2> QED BY <1>1, <1>2, <1>3, <1>7, <2>1, <2>2, <2>3, <2>4, WorkerWrites
  <1> QED BY <1>2, <1>5, <1>6, <1>7 DEF Publish

LEMMA KillStep ==
    ASSUME Inv, NEW w \in Workers, Kill(w)
    PROVE  Inv'
  <1> DEFINE c == worker[w].claim
             g == worker[w].gen
  <1>1. /\ worker[w].pc = "kill"
        /\ UNCHANGED <<journalVars, inst, ledger, exited, nextGen, spawned, wireVars, shell>>
    BY DEF Kill, At
  <1>2. PICK o \in Ops : o = worker[w].op
    BY <1>1, ClaimFacts DEF Inv
  <1>3. /\ OpInv(o) /\ c \in Rows /\ c.disp = "finalize" /\ g \in spawned[o]
        /\ c.gen \in spawned[o]
    BY <1>1, <1>2, ClaimFacts DEF Inv, WorkInv, Applied
  <1>4. CASE UNCHANGED mapped /\ Drop(w)
    BY <1>1, <1>4, DropStep DEF journalVars, daemonVars
  <1>5. CASE /\ mapped' = [mapped EXCEPT ![o] = IF @ = g THEN NoGen ELSE @]
             /\ Turn(w, "markRemoved")
    <2>1. mapped[o] \in {g, NoGen}
      BY <1>3 DEF OpInv, SpawnInv
    <2>2. /\ mapped' \in [Ops -> Gens \cup {NoGen}] /\ mapped'[o] = NoGen
          /\ \A q \in Ops \ {o} : mapped'[q] = mapped[q]
      BY <1>5, <2>1 DEF Inv, TypeInv, DaemonTyped
    <2>3. WorkerIs(w, "markRemoved", c, g)
      BY <1>5, WorkerTypes, WorkerTurns DEF Inv, WorkerPcs
    <2>4. UNCHANGED <<row, lapsed, sess, spawned, shell, wire, answer>>
      BY <1>1 DEF journalVars, wireVars
    <2>5. ClaimInv(w)'
      BY <1>1, <1>2, <2>3, <2>4, TurnKeepsClaim DEF Inv
    <2>6. WorkInv(w)'
      BY <1>2, <1>3, <2>2, <2>3, <2>4 DEF WorkInv, WorkerIs, Applied, Cleaned
    <2>7. TypeInv'
      BY <1>1, <2>2, <2>3, <2>4
      DEF Inv, TypeInv, JournalTyped, DaemonTyped, WireTyped, ProcessTyped, WorkerIs
    <2>8. WorkerMove(w)
      BY <1>1, <1>2, <2>2, <2>3, <2>4 DEF WorkerMove, OpSame, WorkerIs
    <2>9. SpawnInv(o)'
      BY <1>1, <1>3, <2>2, <2>4, SMT DEF OpInv, SpawnInv
    <2>10. RowInv(o)'
      BY <1>1, <1>3, <2>2, <2>4, SMT DEF OpInv, RowInv
    <2> QED BY <1>1, <1>2, <2>5, <2>6, <2>7, <2>8, <2>9, <2>10, WorkerStepRule
  <1> QED BY <1>2, <1>4, <1>5 DEF Kill

-----------------------------------------------------------------------------
(* Claims, restarts and the induction. *)

LEMMA ClaimStep ==
    ASSUME Inv, NEW w \in Workers, NEW o \in Ops, Claim(w, o)
    PROVE  Inv'
  <1> DEFINE r == [row[o] EXCEPT !.holder = w]
  <1>1. /\ worker[w].pc = "idle" /\ row[o] # NoRow /\ o \in lapsed
        /\ row' = [row EXCEPT ![o] = r] /\ lapsed' = lapsed \ {o}
        /\ worker' = [worker EXCEPT ![w] = Claimed(o, r)]
        /\ UNCHANGED <<sess, daemonVars, wireVars, shell>>
    BY DEF Claim, At, PutRow, Claimed
  <1>2. /\ OpInv(o) /\ row[o] \in Rows /\ w # None
    BY <1>1, ShellTypes, RowParts, TaskStartAssumption DEF Inv
  <1>3. /\ r \in Rows /\ r.bound = row[o].bound /\ r.gen = row[o].gen /\ r.disp = row[o].disp
        /\ r.holder = w
    BY <1>2, RowHold
  <1> HIDE DEF r
  <1>4. r # NoRow
    BY <1>3, NoRowParts
  <1>5. /\ worker' \in [Workers -> WorkerStates]
        /\ worker'[w].pc = "claimed" /\ worker'[w].op = o /\ worker'[w].claim = r
        /\ \A v \in Workers \ {w} : worker'[v] = worker[v]
    <2>1. worker \in [Workers -> WorkerStates]
      BY WorkerTypes DEF Inv
    <2>2. worker' = [worker EXCEPT ![w] = Claimed(o, r)]
      BY <1>1
    <2>3. PICK k \in Rows : k = r
      BY <1>3
    <2>4. worker' = [worker EXCEPT ![w] = Claimed(o, k)]
      BY <2>2, <2>3
    <2>5. /\ worker' \in [Workers -> WorkerStates]
          /\ worker'[w].pc = "claimed" /\ worker'[w].op = o /\ worker'[w].claim = k
          /\ \A v \in Workers \ {w} : worker'[v] = worker[v]
      BY <2>1, <2>4, WorkerClaims
    <2> QED BY <2>3, <2>5
  <1>6. /\ row' \in [Ops -> Rows \cup {NoRow}] /\ row'[o] = r
        /\ \A q \in Ops \ {o} : row'[q] = row[q]
    BY <1>1, <1>3 DEF Inv, TypeInv, JournalTyped
  <1>7. TypeInv'
    BY <1>1, <1>5, <1>6
    DEF Inv, TypeInv, JournalTyped, DaemonTyped, WireTyped, ProcessTyped, daemonVars, wireVars
  <1>8. UNCHANGED <<sess, inst, ledger, mapped, spawned, wire, answer, shell>>
    BY <1>1 DEF daemonVars, wireVars
  <1>9. \A q \in Ops \ {o} : OpSame(q)
    BY <1>1, <1>6, <1>8 DEF OpSame
  <1>10. shell[o].pc # "idle" /\ shell[o].pc \notin Exchange /\ wire[o] = NoWire
    BY <1>1, <1>2 DEF OpInv, LeaseInv, RowInv
  <1>11. OpInv(o)'
    <2>1. WireInv(o)'  BY <1>2, <1>8, SMT DEF OpInv, WireInv
    <2>2. LeaseInv(o)'  BY <1>2, <1>8, <1>10, SMT DEF OpInv, LeaseInv
    <2>3. SpawnInv(o)'  BY <1>1, <1>2, <1>3, <1>6, <1>8, SMT DEF OpInv, SpawnInv
    <2>4. RowInv(o)'  BY <1>1, <1>2, <1>3, <1>4, <1>6, <1>8, SMT DEF OpInv, RowInv
    <2> QED BY <2>1, <2>2, <2>3, <2>4 DEF OpInv
  <1>12. \A q \in Ops : OpInv(q)'
    BY <1>9, <1>11, OpFrame DEF Inv
  <1>13. ClaimInv(w)' /\ WorkInv(w)'
    <2>1. /\ r.gen \in spawned[o] \cup {NoGen} /\ (r.disp = "release" => r.gen # NoGen)
      BY <1>2, <1>3 DEF OpInv, SpawnInv, RowInv
    <2>2. ClaimInv(w)'
      BY <1>2, <1>3, <1>5, <1>6, <1>8, <1>10, <2>1 DEF ClaimInv
    <2>3. WorkInv(w)'
      BY <1>5 DEF WorkInv, Applied, Cleaned
    <2> QED BY <2>2, <2>3
  <1>14. ASSUME NEW v \in Workers \ {w} PROVE ClaimInv(v)' /\ WorkInv(v)'
    <2> DEFINE q == worker[v].op
               c == worker[v].claim
               p == worker[v].pc
    <2>1. worker'[v] = worker[v]
      BY <1>5
    <2>2. CASE p = "idle"
      BY <2>1, <2>2 DEF ClaimInv, WorkInv, Applied, Cleaned
    <2>3. CASE p # "idle"
      <3>1. /\ q \in Ops /\ c \in Rows /\ c.holder = v /\ shell[q].pc # "idle"
            /\ row[q] = NoRow \/ row[q].holder # None
            /\ c.gen \in spawned[q] \cup {NoGen}
            /\ c.gen # NoGen => row[q] = NoRow \/ row[q].gen # NoGen
            /\ c.disp = "release" => c.gen # NoGen
        BY <2>3 DEF Inv, ClaimInv
      <3>2. WorkInv(v)
        BY DEF Inv
      <3>3. p = "kill" => row[q] = c /\ q \notin lapsed
        BY <3>2 DEF WorkInv
      <3>4. /\ row'[q] = NoRow \/ row'[q].holder # None
            /\ row[q] = NoRow \/ row[q].gen # NoGen => row'[q] = NoRow \/ row'[q].gen # NoGen
            /\ row'[q] = c => row[q] = c
            /\ p = "kill" => row'[q] = c /\ q \notin lapsed'
        BY <1>1, <1>2, <1>3, <1>6, <3>1, <3>3
      <3>5. ClaimInv(v)'
        BY <1>8, <2>1, <3>1, <3>4 DEF ClaimInv
      <3>6. WorkInv(v)'
        BY <1>8, <2>1, <3>2, <3>4 DEF WorkInv
      <3> QED BY <3>5, <3>6
    <2> QED BY <2>2, <2>3
  <1> QED BY <1>7, <1>12, <1>13, <1>14 DEF Inv

LEMMA RestartStep ==
    ASSUME Inv, DaemonRestarts
    PROVE  Inv'
  <1>1. /\ inst < MaxInst /\ inst' = inst + 1
        /\ UNCHANGED <<row, sess, lapsed, nextGen, spawned, shell, worker>>
    BY DEF DaemonRestarts, journalVars
  <1>2. /\ ledger' \in [Ops -> Entries] /\ mapped' \in [Ops -> Gens \cup {NoGen}]
        /\ wire' \in [Ops -> [reserve : Nat, start : Nat]]
        /\ answer' \in [Ops -> {"none", "reserved", "full", "applied", "refused"}]
        /\ \A o \in Ops : /\ ledger'[o].st = "unknown" /\ mapped'[o] = NoGen
                          /\ wire'[o] = NoWire /\ answer'[o] = "none"
    BY NoWireParts, SMT DEF DaemonRestarts, NoEntry, Entries
  <1>3. inst \in Insts /\ inst' \in Insts
    BY <1>1, TaskStartAssumption DEF Inv, TypeInv, DaemonTyped, Insts
  <1>4. TypeInv'
    BY <1>1, <1>2, <1>3 DEF Inv, TypeInv, JournalTyped, DaemonTyped, WireTyped, ProcessTyped
  <1>5. ASSUME NEW o \in Ops PROVE OpInv(o)'
    <2>1. /\ OpInv(o) /\ ledger'[o].st = "unknown" /\ mapped'[o] = NoGen
          /\ wire'[o] = NoWire /\ answer'[o] = "none"
          /\ wire'[o].reserve = 0 /\ wire'[o].start = 0
      BY <1>2, NoWireParts DEF Inv
    <2>2. row[o].bound \in Insts \cup {Unbound}
      BY ShellTypes, RowParts DEF Inv
    <2>3. row'[o].bound <= inst' /\ row'[o].bound # inst'
      BY <1>1, <1>3, <2>1, <2>2 DEF OpInv, RowInv, Insts, Unbound
    <2>4. WireInv(o)'  BY <1>1, <2>1, SMT DEF OpInv, WireInv
    <2>5. LeaseInv(o)'  BY <1>1, <2>1, SMT DEF OpInv, LeaseInv
    <2>6. SpawnInv(o)'  BY <1>1, <2>1, SMT DEF OpInv, SpawnInv
    <2>7. RowInv(o)'  BY <1>1, <2>1, <2>3, SMT DEF OpInv, RowInv
    <2> QED BY <2>4, <2>5, <2>6, <2>7 DEF OpInv
  <1>6. ASSUME NEW w \in Workers PROVE ClaimInv(w)' /\ WorkInv(w)'
    <2>1. ClaimInv(w) /\ WorkInv(w)
      BY DEF Inv
    <2>2. ClaimInv(w)'
      BY <1>1, <2>1 DEF ClaimInv
    <2>3. worker[w].pc \in Cleaned => worker[w].op \in Ops
      BY <2>1 DEF ClaimInv, Cleaned
    <2>4. WorkInv(w)'
      BY <1>1, <1>2, <2>1, <2>3 DEF WorkInv
    <2> QED BY <2>2, <2>4
  <1> QED BY <1>4, <1>5, <1>6 DEF Inv

LEMMA OpSteps ==
    ASSUME Inv, NEW o \in Ops, TypeInv', OpInv(o)', OpStep(o)
    PROVE  Inv'
  <1>1. ASSUME NEW q \in Ops PROVE OpInv(q)'
    <2>1. CASE q = o  BY <2>1
    <2>2. CASE q # o
      <3>1. OpSame(q) /\ OpInv(q)  BY <2>2 DEF Inv, OpStep
      <3> QED BY <3>1, OpFrame
    <2> QED BY <2>1, <2>2
  <1>2. ASSUME NEW w \in Workers PROVE ClaimInv(w)' /\ WorkInv(w)'
    BY WorkersStay DEF Inv
  <1> QED BY <1>1, <1>2 DEF Inv

LEMMA InvInit == Init => Inv
  <1> SUFFICES ASSUME Init PROVE Inv  OBVIOUS
  <1>1. IdleShell \in ShellSet /\ IdleShell.pc = "idle" /\ IdleShell.held = NoRow
        /\ IdleShell.gen = NoGen
    BY SMT DEF IdleShell, ShellSet, States
  <1>2. IdleWorker \in WorkerStates /\ IdleWorker.pc = "idle"
    BY SMT DEF IdleWorker, WorkerStates, States
  <1>3. NoEntry \in Entries /\ NoEntry.st = "unknown"
    BY SMT DEF NoEntry, Entries
  <1>4. 1 \in Insts /\ 1 \in 1 .. (MaxGen + 1)
    BY TaskStartAssumption DEF Insts
  <1>5. TypeInv
    BY <1>1, <1>2, <1>3, <1>4, SessionShapes, NoWireParts
    DEF Init, TypeInv, JournalTyped, DaemonTyped, WireTyped, ProcessTyped
  <1>6. ASSUME NEW o \in Ops PROVE OpInv(o)
    <2>1. /\ row[o] = NoRow /\ sess[o] = NoSess /\ ledger[o].st = "unknown" /\ mapped[o] = NoGen
          /\ wire[o] = NoWire /\ answer[o] = "none" /\ shell[o].pc = "idle"
          /\ shell[o].held = NoRow /\ shell[o].gen = NoGen /\ spawned[o] = {}
          /\ inst = 1
      BY <1>1, <1>3 DEF Init
    <2>2. WireInv(o)  BY <2>1, NoWireParts, SMT DEF WireInv, Quiet, Unsent
    <2>3. LeaseInv(o)  BY <2>1, NoRowParts, SMT DEF LeaseInv, Exchange
    <2>4. SpawnInv(o)  BY <2>1, NoRowParts, SessionShapes, SMT DEF SpawnInv, Unsent
    <2>5. RowInv(o)  BY <2>1, NoRowParts, SMT DEF RowInv, Unbound
    <2> QED BY <2>2, <2>3, <2>4, <2>5 DEF OpInv
  <1>7. ASSUME NEW w \in Workers PROVE ClaimInv(w) /\ WorkInv(w)
    BY <1>2 DEF Init, ClaimInv, WorkInv, Applied, Cleaned
  <1> QED BY <1>5, <1>6, <1>7 DEF Inv

(* Inv is inductive while no request outlives its exchange.                    *)
LEMMA InvStep ==
    ASSUME TimelyWire, Inv, [Next]_vars
    PROVE  Inv'
  <1>1. CASE UNCHANGED vars
    BY <1>1 DEF vars, journalVars, daemonVars, wireVars, Inv, TypeInv, JournalTyped, DaemonTyped,
         WireTyped, ProcessTyped, OpInv, WireInv, LeaseInv, SpawnInv, RowInv, ClaimInv, WorkInv
  <1>2. CASE \E o \in Ops : \/ ShellStep(o) \/ ShellDies(o) \/ HandleReserve(o) \/ HandleStart(o)
                            \/ LoseRequest(o) \/ ChildExits(o) \/ SessionRemoved(o)
                            \/ LeaseLapses(o) \/ Edit(o)
    <2>1. PICK o \in Ops : \/ ShellStep(o) \/ ShellDies(o) \/ HandleReserve(o) \/ HandleStart(o)
                           \/ LoseRequest(o) \/ ChildExits(o) \/ SessionRemoved(o)
                           \/ LeaseLapses(o) \/ Edit(o)
      BY <1>2
    <2>2. TypeInv /\ OpInv(o)
      BY DEF Inv
    <2>3. TypeInv' /\ OpInv(o)' /\ OpStep(o)
      BY <2>1, <2>2, ShellSteps, HandleReserveStep, HandleStartStep, LoseRequestStep, WorldSteps
    <2> QED BY <2>3, OpSteps
  <1>3. CASE \E w \in Workers : WorkerStep(w)
    BY <1>3, ConnectStep, LookupStep, RetireUnappliedStep, CompensateStep, DeleteSteps, MarkSteps,
       PublishStep, KillStep, RetireAppliedStep
    DEF WorkerStep
  <1>4. CASE \E w \in Workers : WorkerAborts(w)
    BY <1>4, DropStep DEF WorkerAborts, At, journalVars
  <1>5. CASE \E o \in Ops, w \in Workers : Claim(w, o)
    BY <1>5, ClaimStep
  <1>6. CASE DaemonRestarts
    BY <1>6, RestartStep
  <1> QED BY <1>1, <1>2, <1>3, <1>4, <1>5, <1>6 DEF Next

LEMMA InvAlways ==
    ASSUME TimelyWire
    PROVE  Spec => []Inv
  <1>1. Inv /\ [Next]_vars => Inv'
    BY InvStep
  <1> QED BY <1>1, InvInit, PTL DEF Spec

-----------------------------------------------------------------------------
(* The theorems. *)

(* While no request outlives its exchange: what the journal and the store      *)
(* record of a generation happened.  The token spawned it, no token spawns     *)
(* twice (HandleStart against a crash, a replay, a restart and recovery), and  *)
(* a row to be released was published with its generation.                     *)
THEOREM RecordsAreTruthful ==
    ASSUME TimelyWire
    PROVE  Spec => []RecordsTruthful
<1>1. Inv => RecordsTruthful
  <2> SUFFICES ASSUME Inv, NEW o \in Ops
               PROVE  /\ {row[o].gen, sess[o].gen} \ {NoGen} \subseteq spawned[o]
                      /\ Cardinality(spawned[o]) <= 1
                      /\ row[o].disp = "release" => sess[o].gen = row[o].gen
    BY DEF RecordsTruthful
  <2>1. OpInv(o)
    BY DEF Inv
  <2>2. Cardinality(spawned[o]) <= 1
    <3>1. CASE spawned[o] = {}
      BY <3>1, FS_EmptySet
    <3>2. CASE spawned[o] # {}
      <4>1. PICK g : g \in spawned[o]
        BY <3>2
      <4>2. spawned[o] = {g}
        BY <2>1, <4>1 DEF OpInv, SpawnInv
      <4>3. Cardinality({g}) = 1
        BY FS_Singleton
      <4> QED BY <4>2, <4>3
    <3> QED BY <3>1, <3>2
  <2>3. {row[o].gen, sess[o].gen} \ {NoGen} \subseteq spawned[o]
    BY <2>1 DEF OpInv, SpawnInv
  <2>4. row[o].disp = "release" => sess[o].gen = row[o].gen
    BY <2>1 DEF OpInv, RowInv
  <2> QED BY <2>2, <2>3, <2>4
<1> QED
  BY <1>1, InvAlways, PTL

(* No PTY is lost track of: a Session in the daemon has a journal row bound to *)
(* that daemon, or is the one the durable Session record names, whatever       *)
(* process dies, stalls or loses its answer.                                   *)
THEOREM EveryPtyAccounted ==
    ASSUME TimelyWire
    PROVE  Spec => []PtyAccounted
<1>1. Inv => PtyAccounted
  BY DEF Inv, OpInv, RowInv, PtyAccounted
<1> QED
  BY <1>1, InvAlways, PTL

(* Recovery's Kill (cleanup_changed_applied) never removes a Session that the  *)
(* durable Session record names.                                               *)
THEOREM PublishedIsNotKilled ==
    ASSUME TimelyWire
    PROVE  Spec => RecoveryNeverKillsPublished
<1>1. Inv /\ [Next]_vars =>
        [\A w \in Workers : Kill(w) =>
           \A o \in Ops : mapped'[o] # mapped[o] => sess[o].gen # mapped[o]]_vars
  <2> SUFFICES ASSUME Inv, NEW w \in Workers, Kill(w), NEW q \in Ops, mapped'[q] # mapped[q]
               PROVE  sess[q].gen # mapped[q]
    OBVIOUS
  <2>1. worker[w].pc = "kill"
    BY DEF Kill, At
  <2>2. PICK o \in Ops : o = worker[w].op
    BY <2>1, ClaimFacts DEF Inv
  <2>3. /\ OpInv(o) /\ row[o] = worker[w].claim /\ row[o].disp = "finalize"
        /\ worker[w].gen \in spawned[o]
    BY <2>1, <2>2 DEF Inv, WorkInv
  <2>4. worker[w].gen # NoGen /\ mapped \in [Ops -> Gens \cup {NoGen}]
    BY <2>3, ShellTypes DEF Inv, TypeInv, DaemonTyped, Gens, NoGen
  <2>5. q = o /\ mapped[o] = worker[w].gen
    BY <2>2, <2>4 DEF Kill
  <2>6. sess[o].gen = NoGen
    BY <2>3 DEF OpInv, RowInv
  <2> QED BY <2>4, <2>5, <2>6
<1> QED
  BY <1>1, InvAlways, PTL DEF RecoveryNeverKillsPublished, Spec
=============================================================================
