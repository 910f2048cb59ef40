# hydra-local in TLA+

A verification project for the concurrent core of hydra-local: the `pty-daemon`
process that owns every terminal session, the renderer's synchronisation and
routing of terminal lines (`maestro-renderer`), the journalled start of agent
tasks (`maestro-shell`), the WebRTC signalling between cloud, desktop and browser
(`hydra-cloud`, `hydra-agent`, `web-client`), and the agent's window-size
ownership. The modules are translated from the Rust and TypeScript
source; the line ranges are in `PROJECT.json` (`map`). TLC checks the modules on
small instances, TLAPS proves the registry's properties for every value of the
constants.

All modules follow the Unix build (`#[cfg(not(windows))]`).

## 1. The system

hydra-local keeps terminal sessions alive independently of the windows that
show them. One `pty-daemon` per user owns the pseudo-terminals and their child
processes. Clients connect to its Unix socket and exchange newline-delimited
JSON: the desktop shell (`maestro-shell`, `maestro-app`) starts, releases and
kills sessions, the renderer (`maestro-renderer`) attaches and draws, the remote
agent (`hydra-agent`) bridges sessions to a browser through WebRTC, with
`hydra-cloud` as the signalling broker.

| Part | State it keeps | Operations | Talks to |
|---|---|---|---|
| Registry (`daemon.rs`) | `sessions`: id to Session; `start_operations`: ledger token to entry; `channels` | StartSession (ordinary, conditional), Reserve/Lookup/RetireStartOperation, Kill, shutdown | every connection handler, under one mutex |
| Session (`session.rs`) | PTY, authoritative grid, exit latch, attachment fence (`active_guards`, pending and retired handoff tokens) | pump thread, resize, attach_state, acquire/detach/cancel of guards, kill | registry, forwarders (two broadcast channels) |
| Connection (`main.rs`) | `ClientState`: owner nonce, attachments, two refusal latches | Attach, Detach, CancelAttachmentHandoff, Kill, Snapshot, Resize, Write | registry, Session, outbound queue |
| Forwarder (`main.rs`) | `prev_snapshot`, `baseline_revision`, `notifications_through_revision` | one task per attachment: frames to Damage/Grid/Resync/bell/exit | broadcast channels, outbound queue |
| Outbound queue (`outbound.rs`) | admission mutex, byte budget, bounded MPSC | send, try_send, fail | writer task |
| Renderer routing (`client.rs`) | published binding, bind receipt, owed Detaches; the reader's route and retired bindings | try_bind_viewport, clear_viewport, admission and commit of lines | UI thread, reader thread, the daemon's socket |
| Renderer sync (`sync.rs`, `client.rs`) | phase, current revision, held grid, request in flight, pending recoveries | on_grid, on_damage, on_resync_required, on_session_exited, recovery requests and retries | the daemon's socket |
| Shell journal (`agent_task_start_*.rs`) | durable records of task starts | journal, reserve, start, recover, retire | the ledger |
| Agent (`hydra-agent`) | serve slots, seen offers, relay-credential cache, peers, bridges, revocation, heartbeat | offer/answer, supervise, revoke | cloud, daemon |
| Window-size owner (`winsize_owner.rs`, `viewport_control.rs`) | override, viewed claim, creation leases, deferred attach, reclaims; two files; the adapter's leases | attach, resize, create, reclaim, publish | browsers, daemon, desktop host |
| Signalling (`hydra-cloud`) | sessions with offer, answer and candidates; waiters of the wake hub | post, long poll, wake, cancel | agent, browser |

What is hard here:

* **Interleaving.** A handler is cancelled at any `await`, a guard is acquired
  under the daemon mutex and installed after it is released, Kill releases its
  own guard before it asks for the mutex, pump threads run without any of them.
* **Ordering.** A Snapshot reply is captured under a lock and queued later, so
  the forwarder's events overtake it; the exit and the last frame travel on two
  channels.
* **Lost and repeated requests.** Acknowledgements of a start get lost, so starts
  are replayed against a ledger; handoff tokens are replayed against a fence.
* **Crashes.** A start that the daemon applied and a task record that names it cannot
  share a transaction; files outlive the process that wrote them; a hint is lost with
  the listener that should have forwarded it.
* **Identity.** Ids are reused (a session id after a restart, a pid after a wait, a
  binding of the same tab): a late line, Detach, signal or reclaim must not hit the new
  holder.
* **Clocks.** Leases, grace periods and credential windows are measured on clocks that
  stop or are set.
* **Limits.** A broadcast ring that overwrites unread frames, a bounded queue that
  blocks both tasks of a connection, four bounded tables.
* **Shutdown.** Handlers are detached tasks that nothing stops.

The properties that make each part correct are the ones listed in section 4; the
places where they could break are the `hazards` of `PROJECT.json`.

## 2. Modules

| Module | Models |
|---|---|
| `Daemon` | registry, ledger, attachment fences and all connections |
| `DaemonShutdown` | `Daemon` composed with the signal, the shutdown sweep and the end of the process |
| `SessionStream` | one session's way from the pump thread to one renderer's screen |
| `ChildReap`, `ChildReap_proofs` | one session's child: pump thread, reaping, exit latch, kills, pid reuse; its safety properties proved |
| `StreamRoute` | the renderer's bindings over tab switches: UI thread, daemon, reader thread |
| `TaskStart` | a journalled task start: shell, journal, daemon, recovery workers, crashes |
| `Signaling` | cloud broker and wake hub, desktop offer loop, browser progress loop |
| `CandidateLink` | abstract: what each party receives of the other's ICE candidates; `Signaling` implements it |
| `WinsizeOwner` | who sizes a PTY: connections, daemon reader, desktop host, owner files |
| `Daemon_proofs` | proofs about `Daemon`: types, replay fence, ledger, removal of running Sessions |
| `DaemonFence_proofs` | proofs about `Daemon`: exact guard count, what a guard protects, owners of offers, the four table limits |
| `SessionStream_proofs` | proofs about `SessionStream`: exact display, no rewind, one exit, exact bells |
| `StreamRoute_proofs` | proofs about `StreamRoute`: nothing stale on screen, bindings stay served, exits told once, echoes painted |
| `TaskStart_proofs` | proofs about `TaskStart`: every PTY accounted for, truthful records, published PTYs not killed |
| `Signaling_proofs` | proofs about `Signaling`: exact hub, no missed wake, the refinement of `CandidateLink` |
| `WinsizeOwner_proofs` | proofs about `WinsizeOwner`: current reclaims and claims, leases, files |
| `MC...` | instances for TLC |

### Daemon

A step is one critical section: what a handler does between two points at which
another task may run. The state follows the code's fields: `mapped` is
`Daemon.sessions`, `ledger` is `start_operations`, `guards`, `pending` and
`retired` are the three fields of `AttachmentFence` of every generation, `att`
is `ClientState.attachments`, `startRefused` and `attachRefused` are the two
latches. `conn` and `req` are the program counter and the locals of a handler
that takes several critical sections. `origin` and `reopened` are history.

* A *generation* stands for one Session object. The code draws 128 random bits;
  the model numbers them, so that a collision is excluded. The fence belongs to
  the generation, as in the code, where `Arc<Mutex<AttachmentFence>>` outlives the
  map entry.
* Attach is `AttachAcquire` (under the daemon mutex), `Install`, then
  `BaselineSent` or `BaselineFailed` (the awaited restore Grid). A connection
  that is lost at the await is `Disconnect` in state `"baseline"`; there is no
  await between acquisition and installation, so none in `"install"`.
* Kill is `KillRelease` and `KillTake`; a Kill refused because of the generation
  or of somebody's guard closes the connection.
* `StartOrdinary` has the three successful outcomes (room, eviction of one
  reclaimable Session, explicit restart). Conditional starts are `ReserveStart`,
  `StartApplied`, `StartRefusedReserved`, `StartAnswered`, `RetireStart`.
  Requests that change nothing (a Lookup, a failed ordinary start, a plain Attach
  of an unknown id) are stuttering steps and have no action.
* Losing a connection releases its guards one after the other, each under its own
  Session's mutex; the model does it in one step. The releases commute and none of
  them concerns two Sessions.
* Abstracted: ids, tokens and owner nonces are model values; a slot of `Clients`
  is reused after it closes, when nothing refers to its nonce any more
  (`PendingOwnerPresent`). Input validation is a refusal that may always happen.

### DaemonShutdown

`Sweep` is `shutdown_with_timeout`: every mapped child is killed, the ones in `R`
confirm within the budget, the map is cleared. `Exit` is the return of
`run_platform`. All of `Daemon`'s client actions stay enabled between the two.

### SessionStream

A screen is a geometry and a look; `screen[r]` is the authoritative grid at
revision `r`. `Damage(b, r)` turns the screen of revision `b`, and no other, into
that of `r`; applied to anything else it leaves garbage (`look = None`). That is
all the properties need of cells, spans and scroll operations.

* The pump thread: `Output` (advance and broadcast under one grid lock), `Latch`,
  `Announce`, `PumpEnds`. `Resize` bumps the revision and broadcasts nothing.
* `Attach` subscribes, snapshots and reads the latch under one grid lock. The
  request handler itself queues the restore Grid (`fpc = "restore"`), so no
  Snapshot request is read before that.
* The forwarder: the two polls of the biased `select!` are two steps
  (`PollFrame`/`PollLagged`/`PollClosed`/`PollEmpty`, then `PollExit`), because the
  pump is an operating-system thread that runs between them. `frames` and `pos`
  are the broadcast channel: a receiver more than `RingCap` behind gets `Lagged`.
  `Notify` sends the frame's notifications (one bell stands for bells, titles and
  clipboard stores), `Diff` is the baseline test and `generate_damage`: equal
  screens are `NoChange`, different geometry is `Resync`, a change beyond the
  damage caps may be, anything else is `Damage`.
* `Send` is an awaited send: it waits while the queue is full. `out` stands for
  the queue and the socket.
* Snapshot requests are `Capture` (under the daemon lock) and `Reply` (after it).
* The renderer handles the head of `out`. `RequestRecovery` is
  `request_local_recovery`: coalesced behind a request in flight, admitted by the
  renderer's own queue or left to `RetryRecovery`.

### ChildReap

`spawn` is the progress of `Session::spawn` (worker first, then child, then gate),
`pump` the pump thread, `kpc` the callers of `kill_and_wait`, `lock` the mutex around
`ChildKillerState`. The kernel is external: `child`, `pid`, `eof`. After `waitpid`
the number may name another process (`PidReused`). `TryWait` has the four outcomes of
the code: collected, not yet or interrupted, and failed hard, which leads to the
blocking fallback; that may fail as well, and then an unknown exit is latched. A child
may ignore the one SIGHUP that is sent, so a kill may also return by its timeout. SIGCHLD is assumed to have its default disposition.

### StreamRoute

Three parties. The UI thread publishes a binding and queues Detach, Attach and
Snapshot (`Bind`, `Clear`, `Cleanup`). The daemon serves that queue in order while
every forwarder, also one whose abort has been requested and has not taken hold,
adds lines to the same wire. The reader's loop is split where it takes and releases
the binding's lock: `TopSync`, `ReadLine`, `Dispatch`, `CloneReceipt`, `NoteGrid`,
`Commit`. A line carries its session, PTY generation and the two output-generation
tags; its field `src`, the Attach that caused it, is history the reader never reads.
Only the primary pane is modelled (split panes hold the same state each), against a
daemon that echoes output generations; what a Grid contains is `SessionStream`'s
business.

### TaskStart

A step is one SQLite transaction, one request handled by the daemon or one answer
read. `row` is the journal row with its disposition and lease holder, `sess` the
durable Session record, `ledger` and `mapped` the part of `Daemon` the protocol
touches, `wire` and `answer` the socket. Shells and workers die or stall at any
step; daemons restart with an empty ledger; answers get lost; leases lapse under a
holder that is only slow. `TimelyWire` is the assumption that the code makes: a
request that was written is handled or dropped before the lease that covers it
lapses (lease 120 s, two exchanges of at most 30 s). The lease is wall-clock time and
the exchange is monotonic, so nothing enforces it: the run `task_delayed` and section 4
say what happens without it (`TimelyWire = FALSE`).
Two branches of the code are in the model and no behaviour reaches them, with or without
`TimelyWire`: a shell told AlreadyTerminal (its token is fresh and its Start is not yet
written), and a Finalize that finds its own Release row (`release_present`; every Finalize
follows a mark that drew a new lease token, so the row it finds is another's or gone).
Left out: the cap of 4096 rows, reconciliation of task status, and the starvation of
new rows behind rows of dead daemons (see the hazard).

### Signaling and CandidateLink

The store is the source of truth, a notification only makes a long poll look again.
Every await of a request is a step: register a waiter, query, wait, final read. A
client may give up and ask again while the request it left still runs, so each poll
has several request slots. Wake sources are optional in the code (`Waked`). One
notification stands for any number of the same key; the outcomes of a wait other than
a hint (timeout, listener lost, no slot) all lead to the same query and are merged.
The store, its notifications and HTTP are external; their contract is
`signaling-ports.ts` and the adapter of the broker's test. Device authority, size
limits of blobs and the capacity of `BoundedSeen` are left out. A browser polls until it
is told that its session is dead, its DataChannel opens or its attempt ends (`stopped`);
after that it asks for nothing but the cancellation (`onPollError`, `teardownAttempt`).
An answer checked before and written after a cancellation is therefore fetched only by a
browser that has not been told of it.

`CandidateLink` says what a party is promised: the candidates the other one posted,
each at most once, in the order of acceptance, none invented. `LinksDeliver` is that
specification under the mapping in `Signaling` (accepted is what a reader that starts
from 0 would get, delivered is what the party has taken in), so retried posts, lost answers, overlapping
polls and the sequence shared by both parties' candidates are all steps or stutters
of it.

### WinsizeOwner

The owner state sits behind one mutex; a step is one critical section. A Resize is
three (`ResizeCheck`, `ResizeQueue`, `ResizeNote`), an Attach two (`AttachViewed`
reserves, `Grid` publishes), a creation two or more, an override two (`SetSelected` and
the eager publication that follows the reply, `EagerPublish`). A teardown is three, in the
order of the code: the guard of `serve_control` drops the connection's leases when the
control loop returns (`CloseLeases`), `shutdown_session_resources` then revokes the
bridge (`CloseBridge`), and the serving slot goes last (`CloseSlot`). Between the first
two the daemon's reader may still publish a Grid of that connection. `Publication` is
`mutate_and_publish_owner`: either of the two writes may fail. `Restart` loses the
memory and keeps the files and the host's snapshot. Time is kept as ages, so there is
no bound on the clock; the clock is taken to be monotone. Generations end at `MaxGen`
the way the code handles the end of u64. Lease ids are only compared with the one the
host holds, so the model keeps the outcome of that comparison. Geometry is left out: it
decides no ownership, and a change of it only makes a reclaim stale. The host's
`ViewportSnapshotCache` also drops a snapshot when its time to live ends and refuses old
epochs and sequences; the model lets the host use the last snapshot however old it is,
which allows more than the code. `lapsed`,
`unseen`, `wrong`, the `ok` of a token and the `shown` and `reserved` of a snapshot are
history. `clear_remote_viewing`, `read_requested_owner` and a return to "no override"
have no caller outside tests.

## 3. Bounds and fairness

| Run | Bounds | Why they are enough |
|---|---|---|
| `daemon` | 2 ids, 2 connections, 2 generations, room for 1 Session; 3 handoff tokens with 2 pending and 1 retired, or 2 operation tokens with a ledger of 1 | a token can be forgotten by the replay fence, the pending table fills, an exited Session is evicted or restarted while the other connection holds or offers it; ledger full, replay on another connection, retire and reserve again, start at capacity, Kill of a replaced generation |
| `orphan` | 2 ids, 2 connections, 2 generations, no tokens | the violation takes one of each |
| `stream` | 2 output chunks, ring 1, queue 1, 1 resize, 1 Snapshot of the UI, 1 undecodable line, 2 looks, 2 sizes | lag needs two unread frames, overtaking needs one Snapshot in flight, a gap needs one lost line |
| `stale_screen` | 3 output chunks, ring and queue of 2 | cut to what the behaviour needs |
| `task` | 1 operation, 2 recovery workers, 2 daemons, 2 spawns, 2 faults (crashes are free; stalls, edits, aborts and lapses under a busy holder count) | a worker takes over from a slow shell, the daemon is replaced in between |
| `task_delayed` | the same, one worker, one daemon, requests not timely | the violation needs one stall and one lapse |
| `signal` | 1 session, 2 requests of the desktop's poll, hub of 2 with 1 per key, 1 fault | the hub is full, a client overlaps its own request, the listener is lost with waiters, a session is cancelled or expires between the check and the write of its answer; the invariants also hold with 2 faults (764,577 states, 40 s without the liveness) |
| `signal_links` | 2 candidates of the desktop, 1 of the browser, quota 2, 2 requests of the browser's poll, 1 fault | a retry after the first copy was read, the quota met, the order of two candidates across two overlapping polls, both parties in one sequence |
| `child_reap` | 2 killers | a kill between another one's check and signal |
| `route` | 2 sessions with 2 incarnations, 2 bindings, 1 live line, 1 retired binding | a switch and a same-tab revival with old lines in flight, the retired table full, an id restarted under an old binding |
| `winsize` | 2 connections, 1 pane, 4 generations | handoff, creation by the other, reconnect after the grace, exhaustion |
| `winsize_files` | 1 connection, 1 pane, 2 failed writes, 1 restart | a failed write, its failed rollback, a crash |

In `daemon` the two kinds of token are explored side by side, not combined
(`OneKindOfToken` of `MCDaemon`): TLC checks a state that has used both and goes no
further. Handoffs and the ledger meet only in the session map and the guards; the
proofs cover every combination.

Ids, connections and tokens are interchangeable, so the `Daemon` runs use symmetry;
`daemon` also checks an action property, which is a safety property and unaffected
by it. The same holds for the sessions of `route`, the connections of `winsize` and the
candidates and request slots of `signal_links`; no
liveness run uses symmetry. `winsize` also identifies states that differ
only in the files, in what the writer remembers of them and in the parts of a stale
snapshot (`WithoutFiles`): without failed writes nothing reads the files, and the host
reads of a snapshot that is not exact only whether it had a lease to send. In
`signal_links` no poll has a wake source, so TLC does not follow the listener, which none
of them reads (`NoHints`). Deadlock
checking is off: a daemon with every connection closed and the model's generations
used up, a session that ended and was delivered, a closed connection, a resolved task
start and a set of browsers that all left really stop.

`FairSpec` assumes weak fairness of the pump's last steps, of the forwarder, of
the request handler, of the renderer's reader and of its retry. Each is a thread
or a tokio task that is runnable as long as its step is enabled, and the queue is
FIFO, so no stronger fairness is needed. Nothing obliges the child to write or to
exit, the user to resize, a client to attach or to ask.

The other modules:

* `TaskStart`: every process runs, the daemon serves its connections, leases lapse, and
  a worker that finds a claimable row claims one (the two-second reconcile). Weak
  fairness only.
* `Signaling`: requests run, their timers fire, lost connections are noticed, clients
  poll again: the desktop for ever, a browser until it has stopped. Nothing is assumed of the listener, of its hints or of the serve tasks,
  so the liveness does not rest on wakes.
* `ChildReap`: threads run; strong fairness for a mutex that is free again and again (the
  pump sleeps between probes) and for `waitpid` finding a child that has died. Nothing is
  assumed of a signalled child: one SIGHUP is sent and nothing escalates.
* `StreamRoute` has no fairness: that an echo is never lost is stated of the states in
  which the daemon has nothing to serve and the reader nothing to read (`EchoPaints`).
* `WinsizeOwner`: the poll runs and time passes.

## 4. What is checked

### `daemon` (Daemon)
* `GuardCountExact`: `active_guards` is the number of connections that hold or are
  installing a guard, across repeated Attach, handoff, own Kill and loss.
* `GuardedSessionMapped`: a Session with a guard is the one mapped under its id.
* `PendingOwnerPresent`: a claimable offer belongs to a connection that is there and
  still holds the guard the offer was made with (`main.rs:614`, "a raw token never
  outlives its owner socket").
* `PendingNotRetired`: a remembered spent token is not claimable.
* `OperationSpawnsOnce`: an operation token spawns at most one Session until it is
  retired, and the ledger says which.
* `AppliedEntryNamesSession`: an applied entry names a generation that this
  operation spawned under this id, also after that Session is gone.
* `TablesBounded`: the four limits, eviction and replacement included.
* `LiveSessionOnlyKilled`: a running Session leaves the map only by a Kill that named
  its generation.

### `stream` (SessionStream)
* `HeldIsExact`: the display is exactly the screen of the revision the renderer
  believes it holds, never a mixture.
* `NeverRewinds`: the display never goes back to an earlier revision.
* `BellsExact`: bells are those of the frames since the attach, in order, once each,
  except for frames the ring itself dropped.
* `ExitOnce`: at most one SessionExited, nothing after it.
* `ExitDelivered` (liveness): an attached renderer always learns of the exit.
* `ForwarderConverges` (liveness): once output stops, the display of a client that asked
  for no Snapshot and lost no line is the session's screen.

### `child_reap` (ChildReap)
* `NoStraySignal`: a signal only goes to our own child, although it names a number that
  the kernel may have given away.
* `ReapAccounted` (`ChildHasReaper` and `CodeProvesReaped`): no child without a thread
  that will collect it until its exit is latched, and a latched exit code proves that it
  was collected. It speaks of codes only: the source claims it of every latch, which is
  false (`LatchProvesCollected`, below).
* `NobodyWaitsForEver` (liveness): the exit of a dead child is latched, every kill returns
  also when the child ignores the signal or the pump is stuck, the worker of a failed
  spawn ends.

### `route` (StreamRoute)
* `PaintedByOwnRoute`: what is on screen was caused by the published binding's own
  Attach, whatever old lines of the same id are still queued.
* `RouteStaysAttached`: no Detach of an earlier binding cuts the one that revived its id.
* `ExitToldOnce`: an adopted binding's exit is notified exactly once, under the
  generation that exited, also after the binding was replaced.
* `StaleIsInert`: a late line of an earlier binding never ends the connection.
* `EchoPaints`: when every request is served and every line read, the published binding is
  on screen.

### `task` (TaskStart)
* `PtyAccounted`: every Session a start put in the daemon is named by a journal row bound
  to that daemon or by the durable Session record.
* `RecordsTruthful`: what journal and store say about a generation happened; one token,
  one spawn per daemon.
* `RecoveryNeverKillsPublished`: no worker kills the PTY of a published task, however stale
  the row it claimed. `TimelyWire` closes the window between a worker's look at the graph
  and its Kill, in which another worker could publish: that race is not covered here.
* `RowsResolve` (liveness): a start leaves the journal, unless its daemon is gone.

### `signal`, `signal_links` (Signaling)
* `NoMissedWake`: a sleeping poll for which the store has something has a notification on
  its way.
* `HubExact`: the hub's slots are exactly the waiting polls.
* `LinksDeliver`: each direction of a session's candidates is a `CandidateLink`.
* `OfferServed`, `AnswerReachesBrowser` (liveness): with or without hints, unless the
  session dies first, every serve slot is taken or the browser has stopped asking.

### `winsize`, `winsize_files` (WinsizeOwner)
* `ReclaimIsCurrent`: a late reclaim takes away only claims that were shown or reserved
  when its snapshot was taken, of a pane that was claimed all the time since.
* `DeferredIsCurrent`: an Attach that waited for its Grid takes ownership only if nothing
  newer superseded it.
* `LeaseAwaitsViewing`: a creation lease holds a pane only while the control loop of its
  connection runs, and never beside the viewing by that connection which should have
  consumed it.
* `CleanMeansOnDisk`: while the writer believes in its last success, both files hold it.
* `FilesFollow`, `AllLocalAgain` (liveness): the files come to say who owns what, after
  failed writes, expiries and crashes; all panes return to the desktop once the browsers
  are gone.

### Violations: where the code and its own text disagree

`QuietScreenConverges` is `ForwarderConverges` without the exception for Snapshots and
lost lines.

* `orphan`: `main.rs:142` says that shutdown terminates and confirms every owned child
  so that no orphan is left. A detached handler whose StartSession obtains the mutex
  after the sweep leaves a running, unreported child. (The Windows path joins its
  handlers first.)
* `stale_screen`: `main.rs:1087` says that a structured-only client still gets its live
  updates. A Snapshot reply moves the renderer to a revision the forwarder's
  `prev_snapshot` does not know; if the screen then returns to its former look the
  diff is `NoChange` and the intermediate screen stays on display. The renderer's own
  bind plan asks for exactly such a Snapshot after every Attach.
* `task_delayed`: `agent_task_start_journal.rs:166` calls what recovery settles a "proof that
  this exact operation can no longer apply a Start", and `daemon.rs:663` describes
  retirement as the barrier behind it. The Unix daemon keeps no tombstone of a retired
  token. A shell stalls before it writes its Reserve, its lease lapses, a worker finds the
  token unknown, retires and compensates; the shell's Reserve then opens the token again
  and its Start spawns (`UnappliedProofSound` is refuted in 14 states). Nobody records that
  PTY: under `TimelyWire = FALSE` TLC refutes `PtyAccounted` and `RecordsTruthful` too, and
  `RecoveryNeverKillsPublished` once there are three faults (with two it holds).

### Other claims of the source that TLC refutes

Each is a definition of its module, or a property above under another constant; adding
it to a configuration with the bounds given finds the behaviour in seconds.

* `LatchProvesCollected` (ChildReap; the bounds of `child_reap`): `session.rs:1037` says that
  a set latch proves that the process-table entry was collected. When `try_wait` and then
  `wait` fail, the pump latches an unknown exit (`session.rs:744`); `kill_and_wait` answers
  that the child was reaped and `can_reclaim` lets the Session be evicted, with the child
  possibly running. TLC's trace has 12 states.
* `FinalFrameNotStranded` (SessionStream; 2 output chunks, one size, ring and queue of 2):
  `main.rs:1030` says that the last output cannot be stranded behind SessionExited. The
  two polls of the select are not one atomic look: the pump can broadcast the last frame
  and the exit between them, and the exit branch breaks the loop with the frame unread.
* `PendingUntilCovered` (SessionStream; the bounds of `stale_screen`): `sync.rs:211` says
  that a pending request is cleared only by a Grid that covers the highest observed
  revision. `highest_seen` is written by test code only, so any accepted Grid clears
  it. With an undecodable line this also leaves the display behind the session: the
  refused Damage is the last output, and the Grid it overtook ends the recovery.
* `RebindKeepsConnection` (StreamRoute; one incarnation, two retired bindings):
  `client.rs:5691` says that a rebind makes commit-time validation fail. A tab switch
  between the reader's reconciliation and its check of the bind receipt ends the whole
  connection.
* `ExitSurvivesRebind` (StreamRoute; three bindings, no live line): `client.rs:6005` says
  that the exit observation survives rebind races. A binding replaced before the reader
  adopts it is never retired and its exit is dropped.
* `ExactReclaim` (WinsizeOwner; two connections, two panes): `viewport_control.rs:120` says
  that a new claimant gets a fresh identity so that no delayed reclaim revokes it. A
  deferred Attach publishes under the generation of its reservation; when another
  connection's creation lease took a larger one in between, the maximum that identifies
  the lease does not change (with equal geometry).
* `ReservePublishesNothing` (same bounds): `winsize_owner.rs:84` says that a reservation
  publishes no ownership. It lifts a reclaim of the pane at once, and the reclaimed viewer
  owns it again.
* `ReclaimBlocksRepeats` (same bounds): `winsize_owner.rs:567` says that a reclaim blocks
  repeats of the viewing connection. Admission and queueing of a resize are two critical
  sections.

One comment is more pessimistic than the code: `webrtc-bridge.ts:763` says "A retry can
duplicate an opaque ICE candidate if the response was lost after commit". The broker's
`appendIce` answers a repeated candidate of the same party with the row it already has
(`signaling.ts:341`), so `LinksDeliver` holds with retried posts: no party takes a
candidate in twice. The comment says what may happen, so there is no run in which the code
could violate it.

## 5. What is proved

The safety properties that the passing runs check are theorems, and so is the
refinement of `CandidateLink` by `Signaling`. They hold for every value of the constants under the named assumptions of
their modules, which say only that markers such as `None` are not members of the sets
they mark, that bounds and limits are naturals, and which sets are finite:

* `Daemon`: ids, connections and operation tokens are finite sets; there is room for at
  least one Session and one retired token.
* `ChildReap`: any set of killers, finite or not.
* `SessionStream`: any screens, ring and queue capacities; any number of resizes,
  snapshots and garbled lines.
* `TaskStart`: any finite set of operations, any workers, daemon instances and faults. Its theorems assume
  `TimelyWire`, as their statements say: without it they are false (section 4).
* `Signaling`: any finite sets of sessions and request slots, any limits and faults.
* `WinsizeOwner`: any connections and sessions, any lease and grace.
* `StreamRoute`: any sessions, any number of bindings, incarnations, live lines and retired
  bindings, at least one of each but the live lines.

| Theorem | Module | States |
|---|---|---|
| `TypeCorrect` | `Daemon_proofs` | `Spec => []TypeOK` |
| `ReplayFence` | `Daemon_proofs` | `Spec => []PendingNotRetired` |
| `StartIdempotent` | `Daemon_proofs` | `Spec => []OperationSpawnsOnce` |
| `LedgerTruthful` | `Daemon_proofs` | `Spec => []AppliedEntryNamesSession` |
| `RunningSessionKept` | `Daemon_proofs` | `Spec => LiveSessionOnlyKilled` |
| `FenceCountsExactly` | `DaemonFence_proofs` | `Spec => []GuardCountExact` |
| `FenceProtects` | `DaemonFence_proofs` | `Spec => []GuardedSessionMapped` |
| `OffersHaveOwners` | `DaemonFence_proofs` | `Spec => []PendingOwnerPresent` |
| `LimitsHold` | `DaemonFence_proofs` | `Spec => []TablesBounded` |
| `ReapTyped` | `ChildReap_proofs` | `Spec => []TypeOK` |
| `SignalsOnlyOurChild` | `ChildReap_proofs` | `Spec => []NoStraySignal` |
| `ChildrenAreReaped` | `ChildReap_proofs` | `Spec => []ReapAccounted` |
| `StreamTyped` | `SessionStream_proofs` | `Spec => []TypeOK` |
| `DisplayExact` | `SessionStream_proofs` | `Spec => []HeldIsExact` |
| `DisplayForward` | `SessionStream_proofs` | `Spec => NeverRewinds` |
| `ExitSentOnce` | `SessionStream_proofs` | `Spec => []ExitOnce` |
| `BellsRing` | `SessionStream_proofs` | `Spec => []BellsExact` |
| `RouteTyped` | `StreamRoute_proofs` | `Spec => []TypeOK` |
| `OwnRoutePaints` | `StreamRoute_proofs` | `Spec => []PaintedByOwnRoute` |
| `BindingStaysServed` | `StreamRoute_proofs` | `Spec => []RouteStaysAttached` |
| `ExitsToldOnce` | `StreamRoute_proofs` | `Spec => []ExitToldOnce` |
| `StaleLinesInert` | `StreamRoute_proofs` | `Spec => []StaleIsInert` |
| `EchoIsPainted` | `StreamRoute_proofs` | `Spec => []EchoPaints` |
| `RecordsAreTruthful` | `TaskStart_proofs` | `TimelyWire`: `Spec => []RecordsTruthful` |
| `EveryPtyAccounted` | `TaskStart_proofs` | `TimelyWire`: `Spec => []PtyAccounted` |
| `PublishedIsNotKilled` | `TaskStart_proofs` | `TimelyWire`: `Spec => RecoveryNeverKillsPublished` |
| `HubIsExact` | `Signaling_proofs` | `Spec => []HubExact` |
| `WakesAreNotMissed` | `Signaling_proofs` | `Spec => []NoMissedWake` |
| `LinksAreDelivered` | `Signaling_proofs` | `Spec => LinksDeliver` (refinement) |
| `OwnerTypeCorrect` | `WinsizeOwner_proofs` | `Spec => []TypeOK` |
| `CleanFilesAreCurrent` | `WinsizeOwner_proofs` | `Spec => []CleanMeansOnDisk` |
| `LeasesAwaitViewing` | `WinsizeOwner_proofs` | `Spec => []LeaseAwaitsViewing` |
| `DeferredClaimsAreCurrent` | `WinsizeOwner_proofs` | `Spec => DeferredIsCurrent` |
| `ReclaimsAreCurrent` | `WinsizeOwner_proofs` | `Spec => []ReclaimIsCurrent` |

The arguments:

* *Types, replay fence.* `TypeOK` is inductive. `PendingNotRetired` is inductive
  relative to it; the heart is `RetireMembers`: dropping the oldest retired token never
  makes another token look retired.
* *Ledger.* `OperationSpawnsOnce` is not inductive: a start could draw a generation that
  an entry already names. `LedgerInv` adds `FreshUnclaimed` (an undrawn generation was
  spawned by no operation) and `AppliedEntryNamesSession`.
* *Running Sessions.* An action property: the only steps that change the map are a
  spawn, whose victims have exited, and the take of a Kill, which compares generations.
* *Fence.* `GuardedSessionMapped` needs the exact count, because a removal looks only at
  the counter. The count needs `MappedHome` (a mapped generation was spawned under that
  id) and `HeldMapped` and `InstallMapped` (what a connection holds or is installing under
  an id is what is mapped there), because a release goes by id: two ids could otherwise
  hold the same Session and lose only one guard. Their conjunction is `FenceInv`; it is
  inductive relative to `TypeOK` and `BusyNamesId` (a handler between two steps has its
  request's id at hand).
* *Owners.* `OwnerInv` says that the owner of a pending offer holds, or is installing, the
  guard that offers it. `Install` is the hard step: the replaced guard is dropped raw when
  its offer is the same, and otherwise detached, which retires the old offer. With
  `FenceInv` it gives `PendingOwnerPresent`.
* *Limits.* Each table separately. Handoff tokens need not be a finite set, so the
  invariant carries the finiteness of every pending table.
* *Child: lock and types.* `TypeOK` says who holds the lock (the pump exactly while it is
  between its probe and its latch, a killer exactly while it checks and signals). It is
  inductive once `TypeInv` adds that the worker thread is created once.
* *Child: signals.* `NoStraySignal` is not inductive, because a killer decides by
  `signalSafe` and not by whom the number names. `SignalInv` adds `SafeIsOurs` (while
  signals are allowed and the pump is not at the latch, the number is ours),
  `UnlockedWaitUnsafe` (the fallback that waits without the lock has disabled signals
  first), `KillsPublished` and `CheckHolds` (what a killer checked is still true when it
  signals). The lock closes the gap: a killer about to signal holds it, so the pump is not
  at the latch.
* *Child: reaping.* `ReapInv` adds to `ReapAccounted` that the worker stands behind its
  gate before there is a child (`WorkerFirst`), that only the worker of a failed spawn is
  sent away (`AbortedHasNoChild`), and that the pump comes to the latch with the code of a
  collected child (`CodeInHand`, `CodeProves`).

* *Stream: types and display.* `TypeOK` alone is not inductive: an event could be about a
  revision that no screen has. `TypeInv` says that everything to be sent or on its way is
  about an existing revision (`EventsTo(Rev)`) and that the forwarder has something to send
  exactly where it sends, and carries `HeldIsExact`, because damage is exact only on top of an
  exact base: `Apply(s, Diff(s, t)) = t` needs the base that `on_damage` compares.
* *Stream: exit.* `ExitInv`: an exit is the last event of the batch that holds it, and one was
  sent exactly when the forwarder is done.
* *Stream: bells.* `BellInv`: frames and the bells sent ascend (`FramesUp`, `BelledUp`), what the
  ring dropped lies before the receiver's position (`LostPassed`), and what rang is what was
  passed, up to the frame in hand (`Rung`, `HandExact`), whose bell is still in the batch or
  already sent.
* *Bindings.* None of the five is inductive: what is on screen depends on what is still in
  the daemon, in the queue and in the reader's hand. `Inv` is one invariant over the whole
  way of a line, from the request queue over the forwarders and the wire to the line in the
  hand, which counts as position 0 of the wire (`Pos`, `At`). `NamesInv`: an output
  generation names one incarnation of one session, wherever it occurs. `FreshInv`: nothing of
  an Attach that is unserved or refused exists. `QueueInv`: the published Attach is behind
  every Detach. `RouteInv`: the reader's binding is the published one or one it will not see
  again. `StaleInv`: an untagged Grid that is not the binding's own is ahead of the binding's echo,
  which is why an untagged line may be accepted once the binding is confirmed. `HandInv`:
  what the tokens in the reader's hand prove about the line. `ExitInv`, `EchoInv`, `KeptInv`: an exit is sent once, behind
  its echo, so that whoever waits for it has been confirmed by then, and it is in flight or
  told. `PaintInv`: the published echo is on its way or on screen. The UI's steps, the
  daemon's and the reader's are one lemma each (`BindKeeps`, `ServeKeeps`, `AcceptKeeps`,
  `DropKeeps`, `CommitKeeps` and others); `FreshStep`, `NeutralKeeps` and `QuietKeeps`
  confine the steps that do not touch the line in hand. TLC checked `Inv` on small
  instances before the proof.
* *Task start.* `Inv` is a conjunction per operation and per worker. `WireInv`: at most one
  request of an operation is under way, and none outside its exchange. `LeaseInv`: the shell's
  lease cannot lapse during an exchange, so a row that a worker holds has ended the shell's
  part for good. `SpawnInv`: one spawn per token, and the ledger, the map and `nextGen` agree
  with it. `RowInv`: a row bound to the running daemon is the trace of every spawn that no
  record names yet, and a row goes away only when the record names the generation or nothing was spawned.
  `ClaimInv` and `WorkInv` say what a worker knows of the row it holds between its
  transactions. Three frame lemmas (`OpFrame`, `WorkersStay`, `OthersStay`) confine a step to the
  operation and the worker it is about.
* *Wake hub.* `HubInv` adds to `HubExact` that a poll at its deadline has no slot
  (`RoundsSettled`) and that nobody waits on a listener that is down (`DownMeansNone`).
  `NoMissedWake` is inductive relative to it: news comes with a hint to everybody in the hub, and
  a poll enters the hub before it queries.
* *Candidates.* Two invariants. `SinceInv`: the open request a browser listens to carries the
  browser's cursor, so an answer that is taken in starts where the browser stands; the answer of
  a request it gave up is not taken in. `LinkInv`: what a party has taken in is exactly the
  peer's rows up to its cursor. Every step leaves the candidates alone, appends a new one to a
  log, or reads a batch (`LinkSteps`). An append is `Accept` on the one link it is for, a read
  is `Deliver` of everything accepted, or a stutter if there was nothing new. That reads join
  (`TookJoins`) and that an appended row comes last (`TookAppends`) rest on every set of rows having exactly
  one ascending enumeration (`OrderExists`, `OrderUnique`). That is induction over data, done with the
  predicate as a set: `SetInduction` follows from the well-foundedness of the naturals.
* *Window size: authority.* `AuthorityInv`: every generation in a claim, lease or token was drawn
  (`GensBelow`), a pending claim is its connection's own (`PendingOwn`), a token that is still
  good is the pending claim's (`TokenOwn`), and a lease belongs to a connection whose control
  loop runs and which does not view the pane (`LeaseInv`).
* *Window size: reclaim.* `ReclaimIsCurrent` looks at the steps since the host's snapshot.
  `ExactInv` says, for each pane whose snapshot is still exact: the claims that stand or are
  reserved now, also those that an override or an absence hides, are known to the snapshot or
  newer than it (`KnowsClaims`), and a pane without a shown claim in between still hides the
  claim of the snapshot's generation (`LapsedIsHidden`). Two lemmas carry it through the steps:
  no step makes a claim out of anything but a new generation or the pending reservation
  (`Evolves`), and a step that shows a hidden pane again shows only new claims (`Uncovers`).
* *Window size: files.* `CleanMeansOnDisk` is inductive as it stands.

## 6. Only model-checked

* All liveness properties: fairness and ENABLED are beyond the prover.
* The violations, which are counterexamples of TLC.

`TypeOK` is checked by TLC for `Daemon` and `SessionStream`, and proved for `Daemon`, `ChildReap`,
`SessionStream`, `StreamRoute` and `WinsizeOwner`. For `Signaling` and `TaskStart` the proofs carry typing
invariants of their own.

## 7. Not modelled

* The VT emulator, the cell diff and drawing: data transformations with no protocol
  state; their contract is in `Diff` and `Apply`.
* The Windows build: tombstones, retirement phases, the closing flag.
* Write, Scrollback, ListSessions, raw Output, channels: they change neither the
  registry nor the stream's revisions.
* Operating-system calls: sockets, credentials, PTYs. Signals and `waitpid` are in
  `ChildReap` as far as the code depends on them.
* The agent's cache of relay credentials: one mutex around a value and a window, over two
  clocks; a candidate for the next module.
* The WebRTC peers, the bridge's framing, flow control and rate limits, the control
  protocol's requests (they end in the daemon or in the store), enrolment and keys.
* The shell's store: layouts, records, migrations are single SQLite transactions; only
  the tables of a task start are modelled.
* The desktop application and the dashboard: user interface over the parts above. They
  are most of the repository's lines.
* Packaging, scripts, the launcher, the web client beyond its progress loop.

Every part is listed under `components` in `PROJECT.json` with its reason.

## 8. Plan

1. Small machines still to come: the relay-credential cache, the outbound byte budget, channels, the release of a
   session by the shell, revocation and heartbeat of the agent, the browser's send queue.
2. Compositions: `TaskStart` over the full `Daemon`, and `StreamRoute` over `SessionStream`, so
   that a route's revisions and its admission are checked together.
