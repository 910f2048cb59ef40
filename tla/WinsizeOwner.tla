------------------------------ MODULE WinsizeOwner ------------------------------
(***************************************************************************)
(* Who sizes a shared PTY: the desktop or a remote browser                 *)
(* (hydra-agent/src/winsize_owner.rs).  The owner state sits behind one    *)
(* mutex; its users are                                                    *)
(*                                                                         *)
(*  - every browser connection (remote_bridge.rs, remote_peer.rs), which   *)
(*    attaches, resizes, creates and finally tears down, one call at a     *)
(*    time, releasing the mutex between the parts of a call;               *)
(*  - the daemon reader of a connection, which turns the first Grid of a   *)
(*    viewed Attach into the deferred resize and the viewed claim;         *)
(*  - the desktop host, which reads a snapshot of the remotely owned panes *)
(*    and later reclaims one of them by its lease id (viewport_control.rs);*)
(*  - the two-second poll, which keeps two files on disk in step.          *)
(*                                                                         *)
(* Geometry is left out: it never decides ownership, and a changed one     *)
(* only lets the adapter refuse a reclaim that is accepted here.  Time is  *)
(* kept as ages, so that no bound on the clock is needed.                  *)
(***************************************************************************)
EXTENDS Integers, FiniteSets, FiniteSetsExt

CONSTANTS
    Conn,         \* connection ids; a reconnecting browser comes under a new one
    Sess,         \* session ids
    NoConn, NoSess,
    MaxGen,       \* the last authority generation (u64::MAX in the code)
    Grace,        \* GRACE, in ticks
    Lease,        \* CREATION_LEASE, in ticks
    MaxFaults,    \* bound on failed file operations
    MaxRestarts   \* bound on restarts of the agent

ASSUME WinsizeOwnerAssumption ==
    /\ NoConn \notin Conn /\ NoSess \notin Sess
    /\ MaxGen \in Nat \ {0} /\ Grace \in Nat \ {0} /\ Lease \in Nat \ {0}
    /\ MaxFaults \in Nat /\ MaxRestarts \in Nat

VARIABLES
    \* WinsizeOwner, behind the mutex
    override,     \* remote_selected
    viewed,       \* viewed_connection_id, viewed_session, its generation (0: None)
    leases,       \* creation_leases
    pending,      \* pending_viewed_attach
    nextGen,      \* next_authority_generation, MaxGen + 1 when exhausted
    reclaimed,    \* local_reclaimed_sessions
    zeroAge,      \* ticks since the last connection went, capped at Grace
    \* The two files and what the writer remembers of them
    dirty, published, disk, polling, faults,
    \* Connections
    conn,         \* the life of a connection
    op,           \* the call a connection is in the middle of
    route,        \* daemon route per connection and session
    token,        \* DeferredResizeAuthority waiting for its Grid
    \* The viewport control adapter and the desktop host
    adapter,      \* generation of the published lease, 0 when there is none
    held,         \* what the host holds of its last snapshot
    \* History
    restarts,
    lapsed,       \* panes without a claim at some time since the last snapshot
    unseen,       \* claims a reclaim revoked that its snapshot had not shown, ...
    wrong         \* ... nor known of, or that lapsed in between

ownerVars == <<override, viewed, leases, pending, nextGen, reclaimed, zeroAge>>
fileVars  == <<dirty, published, disk, faults>>
linkVars  == <<route, token>>
hostVars  == <<adapter, held, unseen, wrong>>
vars == <<ownerVars, fileVars, polling, conn, op, linkVars, hostVars, lapsed, restarts>>

Claim(c, s, g) == [c |-> c, s |-> s, g |-> g]
NoView         == Claim(NoConn, NoSess, 0)

\* PendingViewedAttachAuthority; rec is reclaimed_before_reservation.
NoPending == [c |-> NoConn, s |-> NoSess, g |-> 0, rec |-> FALSE]

\* A token and, as history, whether nothing has superseded it so far.
Token(g) == [g |-> g, ok |-> g # 0]
NoToken  == Token(0)

Idle == [kind |-> "idle", s |-> NoSess, viewed |-> FALSE]
Op(k, s, v) == [kind |-> k, s |-> s, viewed |-> v]

\* The content of winsize-owner-sessions and winsize-owner; Unpublished is the
\* writer's memory before its first success.
Files(S, o) == [sessions |-> S, owner |-> o]
Unpublished == Files({}, "none")

(***************************************************************************)
(* What the owner state means                                              *)
(***************************************************************************)
\* The serving count: the slot of a connection is released last.
Serving == {c \in Conn : conn[c] \in {"up", "cleared", "detached"}}

\* Present without the grace of a reconnect, and a force-remote that outlives it.
MutPresent == Serving # {} \/ zeroAge < Grace \/ override = "remote"

Present == Serving # {} \/ zeroAge < Grace

\* The claims on s that remote_owned_viewports folds into one viewport.
Claims(s) ==
    IF override = "local" \/ ~Present \/ s \in reclaimed THEN {}
    ELSE {x \in {viewed} : x.s = s /\ x.g # 0}
         \cup {Claim(l.c, l.s, l.g) : l \in {k \in leases : k.s = s}}

Owned == {s \in Sess : Claims(s) # {}}

Effective ==
    IF Owned # {} \/ (override = "remote" /\ Present) THEN "remote" ELSE "local"

\* The generation that stands for the claims on s.
Authority(s) == Max({x.g : x \in Claims(s)})

\* remote_resize_allowed
Allowed(c, s, v) ==
    s \in reclaimed => v /\ <<viewed.c, viewed.s>> # <<c, s>>

\* issue_authority_generation: n generations from the allocator on, 0 for None.
Exhausted == nextGen > MaxGen
Issued    == IF Exhausted THEN 0 ELSE nextGen
After(n)  == Min({nextGen + n, MaxGen + 1})

\* reclaimed once invalidate_pending_viewed_attach has run.
Restored == IF pending.rec THEN reclaimed \cup {pending.s} ELSE reclaimed

\* History: the panes that this step leaves to the desktop, other than by a reclaim
\* (which the adapter itself records).
Lapse == lapsed' = lapsed \cup (Sess \ (Owned' \cup reclaimed'))

\* Every token for a session in S has met something that supersedes it.
Superseded(S) ==
    [c \in Conn |-> [s \in Sess |->
        IF s \in S THEN [token[c][s] EXCEPT !.ok = FALSE] ELSE token[c][s]]]

(***************************************************************************)
(* The serialized writer of the two files (mutate_and_publish_owner)       *)
(***************************************************************************)
\* Either write fails: the first leaves both files, the second only winsize-owner.
WriteFails ==
    /\ faults < MaxFaults
    /\ faults' = faults + 1
    /\ \E S \in {disk.sessions, Owned'} : disk' = [disk EXCEPT !.sessions = S]

WriteBoth ==
    /\ disk' = Files(Owned', Effective')
    /\ published' = disk'
    /\ dirty' = FALSE
    /\ UNCHANGED faults

\* A writer that remembers a failure only when the first file was not written.
MutPublication(changed) ==
    IF changed \/ dirty \/ published # Files(Owned', Effective')
    THEN \/ WriteBoth
         \/ WriteFails /\ dirty' = (disk' = disk) /\ UNCHANGED published
    ELSE UNCHANGED fileVars

\* After the mutation, still under both locks.  A failed publication is dirty'.
Publication(changed) ==
    IF changed \/ dirty \/ published # Files(Owned', Effective')
    THEN \/ WriteBoth
         \/ WriteFails /\ dirty' = TRUE /\ UNCHANGED published
    ELSE UNCHANGED fileVars

\* A poll that trusts its memory of the last success.
MutPublicationNeeded == published # Files(Owned, Effective)

PublicationNeeded == dirty \/ published # Files(Owned, Effective)

\* The poll looks under the mutex and publishes, unconditionally, later.
PollCheck ==
    /\ ~polling /\ PublicationNeeded
    /\ polling' = TRUE
    /\ UNCHANGED <<ownerVars, fileVars, conn, op, linkVars, hostVars, restarts>>
    /\ Lapse

PollPublish ==
    /\ polling
    /\ polling' = FALSE
    /\ UNCHANGED <<ownerVars, conn, op, linkVars, hostVars, restarts>>
    /\ Lapse
    /\ Publication(TRUE)

(***************************************************************************)
(* Connections                                                             *)
(***************************************************************************)
\* refresh_live_authority_generations: the viewed claim first, then the leases in
\* their order, which is that of their generations; all leases go when the
\* generations run out.
Refresh ==
    LET v    == viewed.s # NoSess /\ viewed.s \notin reclaimed
        base == IF v THEN After(1) ELSE nextGen
        live == {l \in leases : l.s \notin reclaimed}
        New(l) == base + Cardinality({k \in live : k.g < l.g})
    IN  /\ viewed' = IF v THEN [viewed EXCEPT !.g = Issued] ELSE viewed
        /\ leases' = IF live # {} /\ base + Cardinality(live) > MaxGen + 1 THEN {}
                     ELSE (leases \ live) \cup {[l EXCEPT !.g = New(l)] : l \in live}
        /\ nextGen' = Min({base + Cardinality(live), MaxGen + 1})

\* A slot that is taken without rotating what the grace had hidden.
MutConnect(c) ==
    /\ conn[c] = "new"
    /\ conn' = [conn EXCEPT ![c] = "up"]
    /\ zeroAge' = 0
    /\ UNCHANGED <<viewed, leases, nextGen, override, pending, reclaimed, fileVars,
                   polling, op, linkVars, hostVars, restarts>>
    /\ Lapse

\* ServingSlot::acquire feeds set_serving under the mutex.
Connect(c) ==
    /\ conn[c] = "new"
    /\ conn' = [conn EXCEPT ![c] = "up"]
    /\ zeroAge' = 0
    /\ IF ~Present /\ override # "local" THEN Refresh
       ELSE UNCHANGED <<viewed, leases, nextGen>>
    /\ UNCHANGED <<override, pending, reclaimed, fileVars, polling, op, linkVars,
                   hostVars, restarts>>
    /\ Lapse

Ready(c) == conn[c] = "up" /\ op[c] = Idle

\* An override that leaves a pending Attach in place.
MutSetSelected(c, v) ==
    /\ Ready(c)
    /\ override' = v
    /\ leases' = IF v = "local" THEN {} ELSE leases
    /\ reclaimed' = IF v = "remote" THEN {} ELSE reclaimed
    /\ token' = IF override # v THEN Superseded(Sess) ELSE token
    /\ op' = [op EXCEPT ![c] = Op("publish", NoSess, FALSE)]
    /\ UNCHANGED <<viewed, nextGen, pending, zeroAge, fileVars, polling, conn, route,
                   hostVars, restarts>>
    /\ Lapse

\* A browser's set_winsize_owner; it has no way back to "none".  The files follow
\* once the mutex is free.
SetSelected(c, v) ==
    LET changed   == override # v
        after     == IF changed THEN Restored ELSE reclaimed
        hidden    == viewed.s \in after
        reexposes == /\ viewed.s # NoSess
                     /\ \/ override = "local" /\ v # "local" /\ ~hidden
                        \/ v = "remote" /\ hidden
    IN  /\ Ready(c)
        /\ override' = v
        /\ pending' = IF changed THEN NoPending ELSE pending
        /\ token' = IF changed THEN Superseded(Sess) ELSE token
        /\ leases' = IF v = "local" THEN {} ELSE leases
        /\ reclaimed' = IF v = "remote" THEN {} ELSE after
        /\ IF reexposes THEN viewed' = [viewed EXCEPT !.g = Issued] /\ nextGen' = After(1)
           ELSE UNCHANGED <<viewed, nextGen>>
        /\ op' = [op EXCEPT ![c] = Op("publish", NoSess, FALSE)]
        /\ UNCHANGED <<zeroAge, fileVars, polling, conn, route, hostVars, restarts>>
        /\ Lapse

\* The eager publish_owner_state before the reply; a failure is left to the poll.
EagerPublish(c) ==
    /\ op[c].kind = "publish"
    /\ op' = [op EXCEPT ![c] = Idle]
    /\ UNCHANGED <<ownerVars, polling, conn, linkVars, hostVars, restarts>>
    /\ Lapse
    /\ Publication(TRUE)

\* A viewed structured Attach reserves its authority before it is queued; a raw or
\* a background one carries none.  An exhausted allocator refuses the Attach.
AttachViewed(c, s) ==
    /\ Ready(c) /\ route[c][s] = "none" /\ ~Exhausted
    /\ nextGen' = After(1)
    /\ route' = [route EXCEPT ![c][s] = "pending"]
    /\ IF override = "local" \/ (s \in Restored /\ <<viewed.c, viewed.s>> = <<c, s>>)
       THEN /\ pending' = NoPending
            /\ reclaimed' = Restored
            /\ token' = Superseded(Sess)
       ELSE /\ pending' = [c |-> c, s |-> s, g |-> nextGen, rec |-> s \in Restored]
            /\ reclaimed' = Restored \ {s}
            /\ token' = [Superseded(Sess) EXCEPT ![c][s] = Token(nextGen)]
    /\ UNCHANGED <<override, viewed, leases, zeroAge, fileVars, polling, conn, op,
                   hostVars, restarts>>
    /\ Lapse

AttachPlain(c, s) ==
    /\ Ready(c) /\ route[c][s] = "none"
    /\ route' = [route EXCEPT ![c][s] = "pending"]
    /\ UNCHANGED <<ownerVars, fileVars, polling, conn, op, token, hostVars, restarts>>
    /\ Lapse

\* cancel_viewed_attach_authority for the tokens of c on the sessions in S.
Cancel(c, S) ==
    LET current == \E s \in S : token[c][s].g # 0 /\ token[c][s].g = pending.g
    IN  /\ pending' = IF current THEN NoPending ELSE pending
        /\ reclaimed' = IF current THEN Restored ELSE reclaimed
        /\ token' = [token EXCEPT ![c] = [s \in Sess |-> IF s \in S THEN NoToken ELSE @[s]]]
        /\ route' = [route EXCEPT ![c] = [s \in Sess |-> IF s \in S THEN "none" ELSE @[s]]]

\* Also an Attach whose queue failed: it cancels what it had reserved.
Detach(c, s) ==
    /\ Ready(c) /\ route[c][s] # "none"
    /\ Cancel(c, {s})
    /\ UNCHANGED <<override, viewed, leases, nextGen, zeroAge, fileVars, polling, conn,
                   op, hostVars, restarts>>
    /\ Lapse

\* The creation lease of c on s, whether consumed by a viewing or rolled back.
WithoutLease(c, s) == {l \in leases : <<l.c, l.s>> # <<c, s>>}

\* The daemon reader of c sees the exact Grid of its Attach to s: the route is
\* confirmed and, while the token is current, the resize is queued under the mutex.
\* The bridge, and with it the route, outlives the control loop and its leases.
Grid(c, s) ==
    LET mine    == token[c][s].g # 0 /\ token[c][s].g = pending.g
        refused == override = "local" \/ s \in reclaimed
    IN  /\ conn[c] \in {"up", "cleared"} /\ route[c][s] = "pending"
        /\ route' = [route EXCEPT ![c][s] = "confirmed"]
        /\ token' = [token EXCEPT ![c][s] = NoToken]
        /\ IF mine THEN pending' = NoPending ELSE UNCHANGED pending
        /\ \/ /\ mine /\ ~refused
              /\ viewed' = Claim(c, s, token[c][s].g)
              /\ leases' = WithoutLease(c, s)
              /\ reclaimed' = reclaimed \ {s}
           \/ /\ mine                                 \* refused, or the queue is closed
              /\ reclaimed' = Restored
              /\ UNCHANGED <<viewed, leases>>
           \/ /\ ~mine
              /\ UNCHANGED <<reclaimed, viewed, leases>>
        /\ UNCHANGED <<override, nextGen, zeroAge, fileVars, polling, conn, op, hostVars,
                       restarts>>
        /\ Lapse

\* TerminalMsg::Resize: admission under the mutex, ...
ResizeCheck(c, s, v) ==
    /\ Ready(c) /\ route[c][s] # "none" /\ Allowed(c, s, v)
    /\ op' = [op EXCEPT ![c] = Op("resize", s, v)]
    /\ UNCHANGED <<ownerVars, fileVars, polling, conn, linkVars, hostVars, restarts>>
    /\ Lapse

\* ... the daemon queue without it (an unconfirmed route only changes the size its
\* token carries, or is refused, and a queue that is closed or a session that is
\* gone ends the call), ...
ResizeQueue(c) ==
    /\ op[c].kind = "resize"
    /\ \/ /\ route[c][op[c].s] = "confirmed" /\ op[c].viewed
          /\ op' = [op EXCEPT ![c] = Op("note", @.s, TRUE)]
       \/ op' = [op EXCEPT ![c] = Idle]
    /\ UNCHANGED <<ownerVars, fileVars, polling, conn, linkVars, hostVars, restarts>>
    /\ Lapse

\* ... and note_remote_viewing_with_geometry under it again.
ResizeNote(c) ==
    LET s       == op[c].s
        handoff == <<viewed.c, viewed.s>> # <<c, s>>
    IN  /\ op[c].kind = "note"
        /\ op' = [op EXCEPT ![c] = Idle]
        /\ pending' = NoPending
        /\ token' = Superseded(Sess)
        /\ leases' = WithoutLease(c, s)
        /\ \/ /\ handoff /\ ~Exhausted
              /\ viewed' = Claim(c, s, nextGen)
              /\ nextGen' = nextGen + 1
              /\ reclaimed' = Restored \ {s}
           \/ /\ ~handoff \/ Exhausted
              /\ viewed' = IF handoff THEN [viewed EXCEPT !.g = 0] ELSE viewed
              /\ reclaimed' = Restored
              /\ UNCHANGED nextGen
        /\ UNCHANGED <<override, zeroAge, fileVars, polling, conn, route, hostVars, restarts>>
        /\ Lapse

(***************************************************************************)
(* Creations                                                               *)
(***************************************************************************)
\* note_remote_creation inserts a lease.
Reservable(c, s) ==
    /\ override # "local" /\ ~Exhausted
    /\ <<viewed.c, viewed.s>> # <<c, s>>
    /\ \A l \in leases : <<l.c, l.s>> # <<c, s>>

\* RemoteCreationLeasePublisher::reserve, before anything durable is written.  When
\* the files cannot be written the creation is refused and its lease undone.
CreateReserve(c, s) ==
    /\ Ready(c)
    /\ IF Reservable(c, s)
       THEN /\ leases' = leases \cup {[c |-> c, s |-> s, ttl |-> Lease, g |-> nextGen]}
            /\ reclaimed' = reclaimed \ {s}
            /\ nextGen' = After(1)
       ELSE UNCHANGED <<leases, reclaimed, nextGen>>
    /\ UNCHANGED <<override, viewed, pending, zeroAge, polling, conn, linkVars, hostVars,
                   restarts>>
    /\ Lapse
    /\ Publication(Reservable(c, s))
    /\ op' = [op EXCEPT ![c] =
                 IF ~Reservable(c, s) THEN Idle
                 ELSE IF dirty' THEN Op("undo", s, FALSE) ELSE Op("create", s, FALSE)]

\* The creation succeeded: the lease waits for its first viewing.
CreateCommit(c) ==
    /\ op[c].kind = "create"
    /\ op' = [op EXCEPT ![c] = Idle]
    /\ UNCHANGED <<ownerVars, fileVars, polling, conn, linkVars, hostVars, restarts>>
    /\ Lapse

\* The undo of a refused creation, or the guard dropped by a failed one.
CreateRollback(c) ==
    /\ op[c].kind \in {"create", "undo"}
    /\ op' = [op EXCEPT ![c] = Idle]
    /\ leases' = WithoutLease(c, op[c].s)
    /\ UNCHANGED <<override, viewed, pending, nextGen, reclaimed, zeroAge, polling, conn,
                   linkVars, hostVars, restarts>>
    /\ Lapse
    /\ Publication(leases' # leases)

(***************************************************************************)
(* The end of a connection: the control loop returns and drops its lease   *)
(* cleanup guard, then the bridge is revoked, then the slot is released    *)
(***************************************************************************)
\* A cleanup that leaves the leases to their expiry.
MutCloseLeases(c) ==
    /\ Ready(c)
    /\ conn' = [conn EXCEPT ![c] = "cleared"]
    /\ UNCHANGED <<ownerVars, polling, op, linkVars, hostVars, restarts>>
    /\ Lapse
    /\ Publication(FALSE)

\* clear_connection, on every return path of serve_control.
CloseLeases(c) ==
    /\ Ready(c)
    /\ conn' = [conn EXCEPT ![c] = "cleared"]
    /\ leases' = {l \in leases : l.c # c}
    /\ UNCHANGED <<override, viewed, pending, nextGen, reclaimed, zeroAge, polling, op,
                   linkVars, hostVars, restarts>>
    /\ Lapse
    /\ Publication(leases' # leases)

\* shutdown_session_resources: revoke_bridge cancels what still waits for a Grid.
CloseBridge(c) ==
    /\ conn[c] = "cleared"
    /\ conn' = [conn EXCEPT ![c] = "detached"]
    /\ Cancel(c, Sess)
    /\ UNCHANGED <<override, viewed, leases, nextGen, zeroAge, fileVars, polling, op,
                   hostVars, restarts>>
    /\ Lapse

\* ServingSlot's drop: the last one starts the grace (zeroAge is 0 while serving).
CloseSlot(c) ==
    /\ conn[c] = "detached"
    /\ conn' = [conn EXCEPT ![c] = "gone"]
    /\ UNCHANGED <<ownerVars, fileVars, polling, op, linkVars, hostVars, restarts>>
    /\ Lapse

(***************************************************************************)
(* The desktop host, through the viewport control adapter                  *)
(***************************************************************************)
\* ViewportControlState::reconcile.  A lease id is only ever compared with the one
\* the host holds: exact says that they are still the same.
Reconciled == [s \in Sess |-> IF s \in Owned THEN Authority(s) ELSE 0]
StillExact == [s \in Sess |-> held[s].exact /\ adapter[s] = Reconciled[s] /\ adapter[s] # 0]

\* shown is what the host was told; reserved, as history, the Attach that waited for
\* its Grid at that time.  ViewportSnapshotCache drops a snapshot earlier, when its
\* time to live ends or a newer epoch or sequence was accepted; here it may be used
\* however old it is, until the next one replaces it.
NotHeld == [exact |-> FALSE, shown |-> {}, reserved |-> {}]
Reservations(s) == {Claim(p.c, p.s, p.g) : p \in {q \in {pending} : q.s = s}}

\* SnapshotViewports
HostSnapshot ==
    /\ adapter' = Reconciled
    /\ held' = [s \in Sess |->
                  IF s \notin Owned THEN NotHeld
                  ELSE [exact |-> TRUE, shown |-> Claims(s), reserved |-> Reservations(s)]]
    /\ lapsed' = Sess \ (Owned \cup reclaimed)
    /\ UNCHANGED <<ownerVars, fileVars, polling, conn, op, linkVars, unseen, wrong, restarts>>

\* ReclaimViewport for a lease of the snapshot: refused as stale, or revokes s.
HostReclaim(s) ==
    /\ held[s].shown # {}
    /\ IF StillExact[s]
       THEN /\ pending' = IF pending.s = s THEN NoPending ELSE pending
            /\ reclaimed' = reclaimed \cup {s}
            /\ leases' = {l \in leases : l.s # s}
            /\ token' = Superseded({s})
            /\ unseen' = unseen \cup (Claims(s) \ held[s].shown)
            /\ wrong' = wrong \cup (IF s \in lapsed THEN Claims(s)
                                    ELSE Claims(s) \ (held[s].shown \cup held[s].reserved))
            /\ adapter' = [Reconciled EXCEPT ![s] = 0]
       ELSE /\ adapter' = Reconciled
            /\ UNCHANGED <<pending, reclaimed, leases, token, unseen, wrong>>
    /\ held' = [t \in Sess |-> IF t = s THEN NotHeld ELSE [held[t] EXCEPT !.exact = StillExact[t]]]
    /\ UNCHANGED <<override, viewed, nextGen, zeroAge, fileVars, polling, conn, op, route,
                   restarts>>
    /\ Lapse

(***************************************************************************)
(* Time and restarts                                                       *)
(***************************************************************************)
\* An expired lease is invisible to every reader; it is dropped here.
Tick ==
    /\ \/ Serving = {} /\ zeroAge < Grace
       \/ leases # {}
    /\ zeroAge' = IF Serving = {} THEN Min({zeroAge + 1, Grace}) ELSE 0
    /\ leases' = {[l EXCEPT !.ttl = @ - 1] : l \in {k \in leases : k.ttl > 1}}
    /\ UNCHANGED <<override, viewed, pending, nextGen, reclaimed, fileVars, polling, conn,
                   op, linkVars, hostVars, restarts>>
    /\ Lapse

\* Launch after a crash: memory is lost, the files and the host's snapshot are not,
\* and the adapter's new epoch makes every lease id a new one.
\* initialize_owner_publication writes both files, unless one of its steps fails.
Restart ==
    /\ restarts < MaxRestarts
    /\ restarts' = restarts + 1
    /\ override' = "none" /\ viewed' = NoView /\ leases' = {} /\ pending' = NoPending
    /\ nextGen' = 1 /\ reclaimed' = {} /\ zeroAge' = Grace
    /\ polling' = FALSE
    /\ conn' = [c \in Conn |-> IF conn[c] = "new" THEN "new" ELSE "gone"]
    /\ op' = [c \in Conn |-> Idle]
    /\ route' = [c \in Conn |-> [s \in Sess |-> "none"]]
    /\ token' = [c \in Conn |-> [s \in Sess |-> NoToken]]
    /\ adapter' = [s \in Sess |-> 0]
    /\ held' = [s \in Sess |-> [held[s] EXCEPT !.exact = FALSE]]
    /\ UNCHANGED <<unseen, wrong>>
    /\ Lapse
    /\ \/ WriteBoth
       \/ WriteFails /\ dirty' = TRUE /\ published' = Unpublished
       \/ /\ faults < MaxFaults                       \* the request file stays
          /\ faults' = faults + 1
          /\ dirty' = FALSE /\ published' = Unpublished
          /\ UNCHANGED disk

\* A launch whose first publication is still to come, over any files of the run
\* before.
Init ==
    /\ override = "none" /\ viewed = NoView /\ leases = {} /\ pending = NoPending
    /\ nextGen = 1 /\ reclaimed = {} /\ zeroAge = Grace
    /\ dirty = FALSE /\ published = Unpublished /\ polling = FALSE /\ faults = 0
    /\ disk \in {Files(S, o) : S \in SUBSET Sess, o \in {"local", "remote"}}
    /\ conn = [c \in Conn |-> "new"]
    /\ op = [c \in Conn |-> Idle]
    /\ route = [c \in Conn |-> [s \in Sess |-> "none"]]
    /\ token = [c \in Conn |-> [s \in Sess |-> NoToken]]
    /\ adapter = [s \in Sess |-> 0]
    /\ held = [s \in Sess |-> NotHeld]
    /\ restarts = 0 /\ lapsed = Sess /\ unseen = {} /\ wrong = {}

ConnStep(c) ==
    \/ Connect(c)
    \/ (\E v \in {"local", "remote"} : SetSelected(c, v)) \/ EagerPublish(c)
    \/ \E s \in Sess :
        \/ AttachViewed(c, s) \/ AttachPlain(c, s) \/ Detach(c, s) \/ Grid(c, s)
        \/ \E v \in BOOLEAN : ResizeCheck(c, s, v)
        \/ CreateReserve(c, s)
    \/ ResizeQueue(c) \/ ResizeNote(c)
    \/ CreateCommit(c) \/ CreateRollback(c)
    \/ CloseLeases(c) \/ CloseBridge(c) \/ CloseSlot(c)

Next ==
    \/ \E c \in Conn : ConnStep(c)
    \/ PollCheck \/ PollPublish
    \/ HostSnapshot \/ \E s \in Sess : HostReclaim(s)
    \/ Tick \/ Restart

Spec == Init /\ [][Next]_vars

\* The poll runs every two seconds and time passes; nothing is owed by a browser,
\* the daemon or the host.
FairSpec == Spec /\ WF_vars(PollCheck) /\ WF_vars(PollPublish) /\ WF_vars(Tick)

(***************************************************************************)
(* Properties                                                              *)
(***************************************************************************)
Gens == 0 .. MaxGen

TypeOK ==
    /\ override \in {"none", "local", "remote"}
    /\ viewed \in [c : Conn \cup {NoConn}, s : Sess \cup {NoSess}, g : Gens]
    /\ leases \subseteq [c : Conn, s : Sess, ttl : 1 .. Lease, g : Gens \ {0}]
    /\ pending \in [c : Conn \cup {NoConn}, s : Sess \cup {NoSess}, g : Gens, rec : BOOLEAN]
    /\ nextGen \in 1 .. MaxGen + 1
    /\ reclaimed \subseteq Sess
    /\ zeroAge \in 0 .. Grace
    /\ dirty \in BOOLEAN /\ polling \in BOOLEAN
    /\ disk \in [sessions : SUBSET Sess, owner : {"local", "remote"}]
    /\ published \in [sessions : SUBSET Sess, owner : {"none", "local", "remote"}]
    /\ faults \in 0 .. MaxFaults /\ restarts \in 0 .. MaxRestarts
    /\ conn \in [Conn -> {"new", "up", "cleared", "detached", "gone"}]
    /\ op \in [Conn -> [kind : {"idle", "publish", "resize", "note", "create", "undo"},
                        s : Sess \cup {NoSess}, viewed : BOOLEAN]]
    /\ route \in [Conn -> [Sess -> {"none", "pending", "confirmed"}]]
    /\ token \in [Conn -> [Sess -> [g : Gens, ok : BOOLEAN]]]
    /\ adapter \in [Sess -> Gens]
    /\ \A s \in Sess : held[s].exact \in BOOLEAN

\* A reclaim by the host, however late it arrives, takes away only claims that the
\* snapshot it acts on had shown or that were reserved by then, and only if the pane
\* had a claim, shown or reclaimed, all the time since: a handoff to another pane or connection
\* and back, a creation, an override and its return, a reconnect after the grace or
\* a restart in between makes the reclaim stale.
ReclaimIsCurrent == wrong = {}

\* A viewed Attach that was deferred until its Grid takes ownership only if, since
\* its reservation, no reclaim of its pane, no newer viewing by anybody and no
\* change of the override came in between.
DeferredIsCurrent ==
    [][\A c \in Conn, s \in Sess :
          viewed'.g = token[c][s].g /\ viewed'.g \notin {0, viewed.g} => token[c][s].ok]_vars

\* A creation lease holds a pane only for a browser whose control loop still runs and
\* that does not view the pane yet: whatever Grid, resize, refused publication,
\* reconnect or teardown came in between, the first viewing has consumed it and the
\* return of serve_control has dropped it.
LeaseAwaitsViewing ==
    \A l \in leases : conn[l.c] = "up" /\ <<viewed.c, viewed.s>> # <<l.c, l.s>>

\* While the writer believes that its last publication succeeded, both files hold
\* exactly what it remembers, also after a failed second write and a rollback to
\* the state before.
CleanMeansOnDisk == ~dirty /\ published.owner # "none" => disk = published

\* Once ownership stays what it is, the files come to say so and stay so, whatever
\* writes failed, a crash left behind or an expiry changed.
FilesFollow ==
    \A S \in SUBSET Sess, o \in {"local", "remote"} :
        <>[](Owned = S /\ Effective = o) => <>[](disk = Files(S, o))

\* When every browser is gone for good the desktop gets every pane back.
AllLocalAgain == <>[](Serving = {}) => <>[](disk = Files({}, "local"))

-----------------------------------------------------------------------------
(* Claims of the source's comments that TLC refutes on small instances; the  *)
(* README (section 4) gives the instances and the behaviours.                *)

\* "Reserve a unique pending viewed claim without publishing remote ownership": an
\* Attach that waits for its Grid makes no pane remotely owned.
ReservePublishesNothing ==
    [][pending' # pending /\ pending'.g # 0 => Owned' \subseteq Owned]_vars

\* "A new authenticated claimant must receive a fresh exact identity even when its
\* geometry matches the prior owner. Otherwise a delayed reclaim for that prior owner
\* could revoke the new claim": a reclaim revokes only what its snapshot had shown.
ExactReclaim == unseen = {}

\* "A local reclaim blocks only repeats from the exact connection/session that was
\* viewing": such a repeat reaches the PTY in no state where the pane is reclaimed.
ReclaimBlocksRepeats ==
    [][\A c \in Conn :
          op[c].kind = "resize" /\ op'[c].kind = "note" =>
              ~(op[c].s \in reclaimed /\ <<viewed.c, viewed.s>> = <<c, op[c].s>>)]_vars
=============================================================================
