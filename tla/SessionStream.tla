---------------------------- MODULE SessionStream ----------------------------
(***************************************************************************)
(* One terminal session on its way to one renderer: the PTY pump thread    *)
(* that advances the grid and broadcasts frames (session.rs), the attach   *)
(* snapshot and the forwarder task that turns frames into Damage, Grid,    *)
(* ResyncRequired, bell and SessionExited events, the request handler that *)
(* answers Snapshot (main.rs), the client's bounded ordered queue          *)
(* (outbound.rs), and the renderer's SyncState that decides which events   *)
(* reach the screen (maestro-renderer sync.rs and client.rs).              *)
(*                                                                         *)
(* A screen is abstracted to its geometry and its look; revision r of the  *)
(* authoritative grid is screen[r].  Damage from revision b to r turns the *)
(* screen of b, and no other, into the screen of r.                        *)
(***************************************************************************)
EXTENDS Naturals, Sequences

CONSTANTS
    Looks,         \* what a screen can look like
    Sizes,         \* the geometries of a screen
    InitScreen,    \* the blank screen of a new session
    None,          \* "no value"
    RingCap,       \* capacity of the output broadcast (1024 frames)
    OutCap,        \* capacity of the outbound queue
    MaxFrames,     \* bound of the model: output chunks
    MaxResizes,    \* bound of the model: resize requests
    MaxSnapshots,  \* bound of the model: Snapshot requests of the UI
    MaxGarbled     \* bound of the model: undecodable Damage lines

Screens == [size : Sizes, look : Looks]

ASSUME ScreenAssumption == InitScreen \in Screens /\ None \notin Screens
ASSUME CapAssumption == RingCap \in Nat \ {0} /\ OutCap \in Nat \ {0}
ASSUME BoundAssumption ==
    {MaxFrames, MaxResizes, MaxSnapshots, MaxGarbled} \subseteq Nat

VARIABLES
    screen,     \* the grid's history; its revision is Len(screen)
    frames,     \* revisions of the frames broadcast so far
    child,      \* "running", "latched", "announced" or "gone" (pump ended)
    removed,    \* the Session was taken out of the daemon map
    fpc,        \* where the forwarder stands
    pos,        \* frames the forwarder's receiver has passed
    frame,      \* the revision of the frame in hand
    todo,       \* events the forwarder is about to send, in order
    prev,       \* revision of prev_snapshot
    baseline,   \* baseline_revision
    notified,   \* notifications_through_revision
    out,        \* the outbound queue and the socket behind it
    asked,      \* Snapshot requests the daemon has not read
    reply,      \* revision of the Grid the handler is about to send
    phase,      \* SyncState.phase
    current,    \* SyncState.current; 0 is None
    held,       \* the screen on display
    inFlight,   \* SyncState.request_in_flight
    recovery,   \* Shared.pending_recoveries: "none", "pending", "admitted"
    used,       \* how much of the model's bounds is spent
    attachedAt, \* history: revision of the attach snapshot
    lost,       \* history: frames the ring dropped before they were read
    belled,     \* history: revisions whose bell was queued, in order
    exits,      \* history: SessionExited events queued
    seen        \* history: highest revision of a Damage that was refused

gridVars == <<screen, frames, child, removed>>
fwdVars  == <<fpc, pos, frame, todo, prev, baseline, notified>>
wireVars == <<out, asked, reply>>
syncVars == <<phase, current, held, inFlight, recovery>>
histVars == <<attachedAt, lost, belled, exits, seen>>
vars == <<gridVars, fwdVars, wireVars, syncVars, used, histVars>>

Rev == Len(screen)

Grid(r)      == [type |-> "grid", base |-> 0, rev |-> r]
Damage(b, r) == [type |-> "damage", base |-> b, rev |-> r]
Bell(r)      == [type |-> "bell", base |-> 0, rev |-> r]
Resync       == [type |-> "resync", base |-> 0, rev |-> 0]
Exited       == [type |-> "exited", base |-> 0, rev |-> 0]

Events == [type : {"grid", "damage", "bell", "resync", "exited"},
           base : Nat, rev : Nat]

TypeOK ==
    /\ screen \in Seq(Screens) /\ Rev >= 1
    /\ frames \in Seq(2 .. Rev)
    /\ child \in {"running", "latched", "announced", "gone"}
    /\ removed \in BOOLEAN
    /\ fpc \in {"none", "restore", "idle", "poll", "pollExit", "frame", "diff",
               "send", "done"}
    /\ pos \in 0 .. Len(frames)
    /\ {frame, prev, baseline, notified, reply, current, attachedAt, seen} \subseteq 0 .. Rev
    /\ todo \in Seq(Events) /\ out \in Seq(Events)
    /\ asked \in Nat
    /\ phase \in {"AwaitingBaseline", "Synchronized", "AwaitingResync", "Exited"}
    /\ held \in [size : Sizes, look : Looks \cup {None}] \cup {None}
    /\ inFlight \in BOOLEAN
    /\ recovery \in {"none", "pending", "admitted"}
    /\ used \in [resizes : 0 .. MaxResizes, snapshots : 0 .. MaxSnapshots,
                 garbled : 0 .. MaxGarbled]
    /\ lost \subseteq 1 .. Rev /\ belled \in Seq(1 .. Rev) /\ exits \in Nat

Init ==
    /\ screen = <<InitScreen>> /\ frames = << >>
    /\ child = "running" /\ removed = FALSE
    /\ fpc = "none" /\ pos = 0 /\ frame = 0 /\ todo = << >>
    /\ prev = 0 /\ baseline = 0 /\ notified = 0
    /\ out = << >> /\ asked = 0 /\ reply = 0
    /\ phase = "AwaitingBaseline" /\ current = 0 /\ held = None
    /\ inFlight = FALSE /\ recovery = "none"
    /\ used = [resizes |-> 0, snapshots |-> 0, garbled |-> 0]
    /\ attachedAt = 0 /\ lost = {} /\ belled = << >> /\ exits = 0 /\ seen = 0

-----------------------------------------------------------------------------
(* The pump thread and the other writers of the grid. *)

\* One chunk of child output: the grid advances and the frame is broadcast
\* under one grid lock.  The chunk need not change what is seen.
Output(look) ==
    /\ child = "running" /\ Len(frames) < MaxFrames
    /\ screen' = Append(screen, [screen[Rev] EXCEPT !.look = look])
    /\ frames' = Append(frames, Rev + 1)
    /\ UNCHANGED <<child, removed, fwdVars, wireVars, syncVars, used, histVars>>

\* A resize re-lays the grid and bumps the revision; nothing is broadcast.  The
\* handle was resolved while the session was live; the resize itself runs on the
\* blocking pool and may land after the exit.
Resize(size) ==
    /\ size # screen[Rev].size
    /\ used.resizes < MaxResizes
    /\ used' = [used EXCEPT !.resizes = @ + 1]
    /\ screen' = Append(screen, [screen[Rev] EXCEPT !.size = size])
    /\ UNCHANGED <<frames, child, removed, fwdVars, wireVars, syncVars, histVars>>

\* The pump saw end of file and reaped the child: the exit latch is set ...
Latch ==
    /\ child = "running" /\ child' = "latched"
    /\ UNCHANGED <<screen, frames, removed, fwdVars, wireVars, syncVars, used, histVars>>

\* ... then the exit is broadcast ...
Announce ==
    /\ child = "latched" /\ child' = "announced"
    /\ UNCHANGED <<screen, frames, removed, fwdVars, wireVars, syncVars, used, histVars>>

\* ... then the thread ends and drops its senders.
PumpEnds ==
    /\ child = "announced" /\ child' = "gone"
    /\ UNCHANGED <<screen, frames, removed, fwdVars, wireVars, syncVars, used, histVars>>

\* The Session leaves the daemon map and drops its senders: by daemon shutdown,
\* or by the Kill of the attached connection itself, whose forwarder stays.
Remove ==
    /\ ~ removed /\ removed' = TRUE
    /\ UNCHANGED <<screen, frames, child, fwdVars, wireVars, syncVars, used, histVars>>

OutputClosed == removed /\ child = "gone"

-----------------------------------------------------------------------------
(* Attach and the forwarder task. *)

\* attach_state and the start of the forwarder.  Subscription, snapshot and
\* latch are read under one grid lock; the request handler itself queues the
\* restore Grid, and an exited session gets no forwarder.
Attach ==
    /\ fpc = "none" /\ ~ removed
    /\ pos' = Len(frames)
    /\ prev' = Rev /\ baseline' = Rev /\ notified' = Rev
    /\ todo' = IF child = "running" THEN <<Grid(Rev)>> ELSE <<Grid(Rev), Exited>>
    /\ fpc' = "restore" /\ attachedAt' = Rev
    /\ UNCHANGED <<gridVars, frame, wireVars, syncVars, used, lost, belled, exits, seen>>

\* Mutation: the loop goes on after the exit was sent.
MutSend ==
    /\ fpc \in {"restore", "send"} /\ Len(out) < OutCap
    /\ out' = Append(out, Head(todo))
    /\ todo' = Tail(todo)
    /\ belled' = IF Head(todo).type = "bell"
                 THEN Append(belled, Head(todo).rev) ELSE belled
    /\ exits' = IF Head(todo).type = "exited" THEN exits + 1 ELSE exits
    /\ fpc' = IF Tail(todo) # << >> THEN fpc
              ELSE IF Head(todo).type = "bell" THEN "diff" ELSE "poll"
    /\ UNCHANGED <<gridVars, pos, frame, prev, baseline, notified, asked, reply,
                   syncVars, used, attachedAt, lost, seen>>

\* An awaited send: the event takes a slot of the queue as soon as one is free.
Send ==
    /\ fpc \in {"restore", "send"} /\ Len(out) < OutCap
    /\ out' = Append(out, Head(todo))
    /\ todo' = Tail(todo)
    /\ belled' = IF Head(todo).type = "bell"
                 THEN Append(belled, Head(todo).rev) ELSE belled
    /\ exits' = IF Head(todo).type = "exited" THEN exits + 1 ELSE exits
    /\ fpc' = IF Tail(todo) # << >> THEN fpc
              ELSE CASE Head(todo).type = "bell"   -> "diff"
                     [] Head(todo).type = "exited" -> "done"
                     [] OTHER                      -> "poll"
    /\ UNCHANGED <<gridVars, pos, frame, prev, baseline, notified, asked, reply,
                   syncVars, used, attachedAt, lost, seen>>

\* select! polls the output receiver first ...
PollFrame ==
    /\ fpc = "poll" /\ pos < Len(frames) /\ Len(frames) - pos <= RingCap
    /\ pos' = pos + 1 /\ frame' = frames[pos + 1] /\ fpc' = "frame"
    /\ UNCHANGED <<gridVars, todo, prev, baseline, notified, wireVars, syncVars,
                   used, histVars>>

\* Mutation: a lag announces a new baseline and does not ship it.
MutPollLagged ==
    /\ fpc = "poll" /\ Len(frames) - pos > RingCap
    /\ lost' = lost \cup {frames[k] : k \in (pos + 1) .. (Len(frames) - RingCap)}
    /\ pos' = Len(frames) - RingCap
    /\ baseline' = Rev /\ prev' = Rev
    /\ todo' = <<Resync>> /\ fpc' = "send"
    /\ UNCHANGED <<gridVars, frame, notified, wireVars, syncVars, used,
                   attachedAt, belled, exits, seen>>

\* ... which reports Lagged once the ring has overwritten unread frames: a
\* fresh snapshot becomes the baseline and is shipped before more output.
PollLagged ==
    /\ fpc = "poll" /\ Len(frames) - pos > RingCap
    /\ lost' = lost \cup {frames[k] : k \in (pos + 1) .. (Len(frames) - RingCap)}
    /\ pos' = Len(frames) - RingCap
    /\ baseline' = Rev /\ prev' = Rev
    /\ todo' = <<Resync, Grid(Rev)>> /\ fpc' = "send"
    /\ UNCHANGED <<gridVars, frame, notified, wireVars, syncVars, used,
                   attachedAt, belled, exits, seen>>

\* ... and Closed when the senders are gone and every frame was read.
PollClosed ==
    /\ fpc = "poll" /\ pos = Len(frames) /\ OutputClosed
    /\ todo' = <<Exited>> /\ fpc' = "send"
    /\ UNCHANGED <<gridVars, pos, frame, prev, baseline, notified, wireVars,
                   syncVars, used, histVars>>

\* With no output ready it goes on to poll the exit receiver.  The two polls
\* are not one atomic look: the pump thread runs between them.
PollEmpty ==
    /\ fpc = "poll" /\ pos = Len(frames) /\ ~ OutputClosed
    /\ fpc' = "pollExit"
    /\ UNCHANGED <<gridVars, pos, frame, todo, prev, baseline, notified, wireVars,
                   syncVars, used, histVars>>

\* Mutation: the exit receiver is not looked at.
MutPollExit ==
    /\ fpc = "pollExit" /\ fpc' = "idle"
    /\ UNCHANGED <<gridVars, pos, frame, todo, prev, baseline, notified, wireVars,
                   syncVars, used, histVars>>

PollExit ==
    /\ fpc = "pollExit"
    /\ IF child \in {"announced", "gone"}
       THEN todo' = <<Exited>> /\ fpc' = "send"
       ELSE fpc' = "idle" /\ UNCHANGED todo
    /\ UNCHANGED <<gridVars, pos, frame, prev, baseline, notified, wireVars,
                   syncVars, used, histVars>>

\* Both receivers were pending; a waker runs the task again.
Wake ==
    /\ fpc = "idle"
    /\ pos < Len(frames) \/ child \in {"announced", "gone"}
    /\ fpc' = "poll"
    /\ UNCHANGED <<gridVars, pos, frame, todo, prev, baseline, notified, wireVars,
                   syncVars, used, histVars>>

\* Mutation: the notification boundary is the content baseline.
MutNotify ==
    /\ fpc = "frame"
    /\ IF frame > baseline
       THEN todo' = <<Bell(frame)>> /\ fpc' = "send" /\ notified' = frame
       ELSE fpc' = "diff" /\ UNCHANGED <<todo, notified>>
    /\ UNCHANGED <<gridVars, pos, frame, prev, baseline, wireVars, syncVars,
                   used, histVars>>

\* The notifications of the frame go out first, whether or not its content
\* is already part of the baseline.
Notify ==
    /\ fpc = "frame"
    /\ IF frame > notified
       THEN todo' = <<Bell(frame)>> /\ fpc' = "send" /\ notified' = frame
       ELSE fpc' = "diff" /\ UNCHANGED <<todo, notified>>
    /\ UNCHANGED <<gridVars, pos, frame, prev, baseline, wireVars, syncVars,
                   used, histVars>>

\* A frame at or below the baseline is dropped.  Otherwise the last shipped
\* snapshot is compared with a fresh one: equal screens send nothing, another
\* geometry or a change beyond the damage caps sends a full baseline, anything
\* else is Damage.
Diff ==
    /\ fpc = "diff"
    /\ \/ /\ frame <= baseline \/ screen[prev] = screen[Rev]
          /\ fpc' = "poll" /\ UNCHANGED <<todo, prev, baseline>>
       \/ /\ frame > baseline /\ screen[prev] # screen[Rev]
          /\ baseline' = Rev /\ prev' = Rev
          /\ todo' = <<Resync, Grid(Rev)>> /\ fpc' = "send"
       \/ /\ frame > baseline /\ screen[prev].size = screen[Rev].size
          /\ screen[prev].look # screen[Rev].look
          /\ prev' = Rev
          /\ todo' = <<Damage(prev, Rev)>> /\ fpc' = "send"
          /\ UNCHANGED baseline
    /\ UNCHANGED <<gridVars, pos, frame, notified, wireVars, syncVars, used, histVars>>

-----------------------------------------------------------------------------
(* The handler of Snapshot requests on the same connection. *)

\* Mutation: a reply nobody asked for.
MutCapture ==
    /\ reply = 0 /\ fpc # "restore"
    /\ asked' = asked - 1
    /\ reply' = IF removed THEN 0 ELSE Rev
    /\ UNCHANGED <<gridVars, fwdVars, out, syncVars, used, histVars>>

\* The screen is captured under the daemon lock, when the handler is done with
\* the requests before it, Attach included ...
Capture ==
    /\ asked > 0 /\ reply = 0 /\ fpc # "restore"
    /\ asked' = asked - 1
    /\ reply' = IF removed THEN 0 ELSE Rev
    /\ UNCHANGED <<gridVars, fwdVars, out, syncVars, used, histVars>>

\* ... and sent after it is released.
Reply ==
    /\ reply # 0 /\ Len(out) < OutCap
    /\ out' = Append(out, Grid(reply))
    /\ reply' = 0
    /\ UNCHANGED <<gridVars, fwdVars, asked, syncVars, used, histVars>>

-----------------------------------------------------------------------------
(* The renderer. *)

\* request_local_recovery: one Snapshot, unless one is outstanding.  The
\* renderer's own outbound queue admits it or leaves it to a retry.
RequestRecovery ==
    IF phase = "Exited" \/ inFlight
    THEN UNCHANGED <<phase, inFlight, recovery, asked>>
    ELSE \/ /\ recovery = "none"
            /\ recovery' = "admitted" /\ asked' = asked + 1
            /\ phase' = "AwaitingResync" /\ inFlight' = TRUE
         \/ /\ recovery = "none"
            /\ recovery' = "pending"
            /\ UNCHANGED <<phase, inFlight, asked>>
         \/ /\ recovery = "admitted"
            /\ phase' = "AwaitingResync" /\ inFlight' = TRUE
            /\ UNCHANGED <<recovery, asked>>
         \/ /\ recovery = "pending"
            /\ UNCHANGED <<phase, inFlight, recovery, asked>>

Received(type) == out # << >> /\ Head(out).type = type /\ out' = Tail(out)

\* Mutation: revisions are compared for equality only.
MutOnGrid ==
    LET r == Head(out).rev IN
    /\ Received("grid")
    /\ IF phase = "Exited" \/ r = current
       THEN UNCHANGED syncVars
       ELSE /\ inFlight' = FALSE /\ recovery' = "none"
            /\ phase' = "Synchronized" /\ current' = r /\ held' = screen[r]
    /\ UNCHANGED <<gridVars, fwdVars, asked, reply, used, histVars>>

\* SyncState::on_grid and the commit that follows it.
OnGrid ==
    LET r == Head(out).rev IN
    /\ Received("grid")
    /\ IF phase = "Exited" \/ r < current
       THEN UNCHANGED syncVars
       ELSE /\ inFlight' = FALSE /\ recovery' = "none"
            /\ IF r = current THEN UNCHANGED <<phase, current, held>>
               ELSE /\ phase' = "Synchronized" /\ current' = r
                    /\ held' = screen[r]
    /\ UNCHANGED <<gridVars, fwdVars, asked, reply, used, histVars>>

\* What Damage d does to the screen on display.
Apply(d) ==
    IF held = screen[d.base] THEN screen[d.rev]
    ELSE [held EXCEPT !.look = None]

\* Mutation: continuity is not checked, any newer frame is applied.
MutApplicable(d) ==
    /\ current # 0
    /\ d.rev > current
    /\ screen[d.rev].size = held.size

\* The conditions under which SyncState::on_damage commits a frame.
Applicable(d) ==
    /\ current # 0
    /\ d.rev > current
    /\ d.base = current
    /\ screen[d.rev].size = held.size

OnDamage ==
    LET d == Head(out) IN
    /\ Received("damage")
    /\ \/ /\ phase = "Exited" \/ (current # 0 /\ d.rev <= current)
          /\ UNCHANGED <<syncVars, asked, seen>>
       \/ /\ phase # "Exited" /\ Applicable(d)
          /\ phase' = "Synchronized" /\ current' = d.rev /\ held' = Apply(d)
          /\ inFlight' = FALSE /\ recovery' = "none"
          /\ UNCHANGED <<asked, seen>>
       \/ /\ phase # "Exited" /\ ~ Applicable(d)
          /\ current = 0 \/ d.rev > current
          /\ RequestRecovery
          /\ seen' = d.rev
          /\ UNCHANGED <<current, held>>
    /\ UNCHANGED <<gridVars, fwdVars, reply, used, attachedAt, lost, belled, exits>>

\* A Damage line that does not decode is lost, and recovery is requested.
OnGarbledDamage ==
    /\ used.garbled < MaxGarbled /\ current # 0
    /\ used' = [used EXCEPT !.garbled = @ + 1]
    /\ Received("damage")
    /\ RequestRecovery
    /\ UNCHANGED <<gridVars, fwdVars, reply, current, held, histVars>>

OnResyncRequired ==
    /\ Received("resync")
    /\ IF phase = "Exited" THEN UNCHANGED <<phase, inFlight>>
       ELSE phase' = "AwaitingResync" /\ inFlight' = FALSE
    /\ UNCHANGED <<gridVars, fwdVars, asked, reply, current, held, recovery,
                   used, histVars>>

OnSessionExited ==
    /\ Received("exited")
    /\ phase' = "Exited"
    /\ UNCHANGED <<gridVars, fwdVars, asked, reply, current, held, inFlight,
                   recovery, used, histVars>>

OnBell ==
    /\ Received("bell")
    /\ UNCHANGED <<gridVars, fwdVars, asked, reply, syncVars, used, histVars>>

\* The UI plan that follows an Attach with a Snapshot request.
AskSnapshot ==
    /\ fpc # "none" /\ used.snapshots < MaxSnapshots
    /\ used' = [used EXCEPT !.snapshots = @ + 1]
    /\ asked' = asked + 1
    /\ UNCHANGED <<gridVars, fwdVars, out, reply, syncVars, histVars>>

\* retry_pending_recoveries after the renderer's queue drained.
RetryRecovery ==
    /\ recovery = "pending"
    /\ recovery' = "admitted" /\ asked' = asked + 1
    /\ UNCHANGED <<gridVars, fwdVars, out, reply, phase, current, held, inFlight,
                   used, histVars>>

-----------------------------------------------------------------------------
PumpEnding == Announce \/ PumpEnds
Forwarder == Send \/ PollFrame \/ PollLagged \/ PollClosed \/ PollEmpty
             \/ PollExit \/ Wake \/ Notify \/ Diff
Handler == Capture \/ Reply
Renderer == OnGrid \/ OnDamage \/ OnGarbledDamage \/ OnResyncRequired
            \/ OnSessionExited \/ OnBell

Next ==
    \/ \E look \in Looks : Output(look)
    \/ \E size \in Sizes : Resize(size)
    \/ Latch \/ PumpEnding \/ Remove
    \/ Attach \/ AskSnapshot
    \/ Forwarder \/ Handler \/ Renderer \/ RetryRecovery

\* Every task that has something to do is run: the pump thread by the kernel,
\* the forwarder and the handler by the tokio runtime, the reader thread and
\* the retry by the renderer.  Nothing obliges the child to produce output or
\* to exit, nor a client to attach or to ask.
Fairness ==
    WF_vars(PumpEnding) /\ WF_vars(Forwarder) /\ WF_vars(Handler)
    /\ WF_vars(Renderer) /\ WF_vars(RetryRecovery)

Spec == Init /\ [][Next]_vars
FairSpec == Spec /\ Fairness

-----------------------------------------------------------------------------
(* Properties. *)

\* What the renderer shows is exactly the authoritative screen of the
\* revision it believes it holds: no lag, lost line, overtaking snapshot or
\* resize ever leaves a mixture of two revisions on display.
HeldIsExact == current # 0 => held = screen[current]

\* The display never goes back to an earlier revision, although snapshot
\* replies and forwarder events overtake each other.
NeverRewinds == [][current' >= current]_vars

\* The client's bells are exactly those of the frames broadcast since it
\* attached, in order and once each, except for frames the ring itself
\* dropped: a lag resync folds the content of a retained frame into its Grid
\* and still rings the frame's bell.
BellsExact ==
    fpc \in {"idle", "poll", "pollExit"} =>
        /\ \A i, j \in DOMAIN belled : i < j => belled[i] < belled[j]
        /\ {belled[i] : i \in DOMAIN belled} =
             {frames[k] : k \in {j \in 1 .. pos : frames[j] > attachedAt /\ frames[j] \notin lost}}

\* End of session is delivered at most once, and the forwarder sends nothing
\* after it.
ExitOnce == exits <= 1 /\ (exits = 1 => fpc = "done" /\ todo = << >>)

\* An attached renderer always learns that the session ended, whichever of
\* the exit broadcast and the closing of the output channel comes first.
ExitDelivered == (child # "running" /\ fpc # "none") ~> phase = "Exited"

\* A resize re-laid the grid and no output chunk has announced it yet.
ResizeUnpublished == Rev > 1 /\ (frames = << >> \/ frames[Len(frames)] < Rev)

\* The attached renderer "still gets its live updates": once output stops, the
\* screen on display is the session's screen, unless the session ended or was
\* removed, or a resize is waiting for the next output chunk.
ScreenCurrent ==
    fpc = "none" \/ phase = "Exited" \/ removed \/ ResizeUnpublished
    \/ held = screen[Rev]
QuietScreenConverges == <>[]ScreenCurrent

\* The forwarder alone does converge: through lag, full queues and resizes, a
\* client that asks for no Snapshot and loses no line ends up with the
\* session's screen.  A Snapshot reply sent past the forwarder, asked for by
\* the UI or by a recovery, can break this: see QuietScreenConverges.
ForwarderConverges ==
    <>[](used.snapshots > 0 \/ used.garbled > 0 \/ ScreenCurrent)

\* The forwarder's comment on its biased select: the final output "cannot be
\* stranded behind SessionExited".
FinalFrameNotStranded == exits = 1 => pos = Len(frames)

-----------------------------------------------------------------------------
(* Claims of the source's comments that TLC refutes on small instances; the  *)
(* README (section 4) gives the instances and the behaviours.                *)

\* SyncState::on_grid: "the pending state is only cleared once an accepted
\* Grid finally covers the highest observed revision".
PendingUntilCovered ==
    [][inFlight /\ ~ inFlight' /\ Head(out).type = "grid" => current' >= seen]_vars
=============================================================================
