------------------------------ MODULE StreamRoute ------------------------------
(***************************************************************************)
(* Which terminal lines may paint the renderer's active viewport while the *)
(* user switches tabs.  One connection carries three concurrent parties:   *)
(*                                                                         *)
(*  - the UI thread, which publishes a binding (epoch, session, output     *)
(*    generation, expected PTY generation) and queues Detach, Attach and   *)
(*    Snapshot requests (try_bind_viewport, clear_viewport);               *)
(*  - the daemon, whose handler serves that queue in order while the       *)
(*    forwarder of each Attach, also one whose abort was requested and has *)
(*    not taken hold, adds live lines to the same outbound queue;          *)
(*  - the reader thread, which adopts the binding, admits or refuses every *)
(*    line (RoutedSyncState::accepts), and commits it under the lock of    *)
(*    the binding.                                                         *)
(*                                                                         *)
(* The client half is maestro-renderer/src/client.rs, the daemon half      *)
(* pty-daemon/src/main.rs.  The viewport has its primary pane only; the    *)
(* split panes hold RoutedSyncStates of the same type.  The daemon echoes  *)
(* output generations (every daemon that allows a rebind does).  A line's  *)
(* field src is history: the Attach whose request or forwarder caused it.  *)
(***************************************************************************)
EXTENDS Integers, Sequences, FiniteSets, SequencesExt

CONSTANTS
    Sess,        \* session ids
    NoSess,      \* no session: the neutral viewport
    MaxBind,     \* bound on bindings (output generations) of the connection
    MaxFrames,   \* bound on the live lines forwarders send
    MaxGen,      \* bound on the PTY incarnations of one session id
    MaxRetired   \* MAX_RETIRED_EXIT_BINDINGS

ASSUME StreamRouteAssumption ==
    /\ NoSess \notin Sess
    /\ MaxBind \in Nat \ {0} /\ MaxFrames \in Nat
    /\ MaxGen \in Nat \ {0} /\ MaxRetired \in Nat \ {0}

VARIABLES
    \* The UI thread and what it shares with the reader
    active,      \* the published binding
    admission,   \* token of exact_viewport_admission, the newest bind's receipt
    nextOg,      \* output generations allocated so far
    attached,    \* attached_sessions: ids whose Attach was queued
    owed,        \* pending_detach_sessions: ids whose Detach is still owed
    grid,        \* the src of the painted grid, 0 when the viewport is blank
    exitShown,   \* the src of the exit shown, 0 when none is
    closed,      \* "open", or why the connection failed closed
    \* The daemon
    out,         \* requests queued towards the daemon
    att,         \* output generation attached per session, 0 when detached
    fwd,         \* forwarders that have not stopped
    gen, ended,  \* PTY incarnation of a session and whether it has exited
    frames,      \* live lines sent so far
    wire,        \* lines queued towards the renderer
    \* The reader thread
    pc, rEpoch, route, retired, line, pre, post, proof,
    \* History
    adopted,     \* output generations the reader has adopted
    evicted,     \* retired bindings dropped by the bound
    sent,        \* output generations whose exit line was sent
    told         \* generations named by the exit notices, per binding

uiVars     == <<active, admission, nextOg, attached, owed>>
paintVars  == <<grid, exitShown>>
daemonVars == <<att, fwd, gen, ended, frames, sent>>
localVars  == <<rEpoch, route, retired, adopted, evicted, told>>
lineVars   == <<line, pre, post, proof>>
vars == <<uiVars, paintVars, closed, out, daemonVars, wire, pc, localVars, lineVars>>

Ogs == 1 .. MaxBind

\* An ActiveBindingToken; NoToken is the Rust None.
Token(e, s, og) == [epoch |-> e, id |-> s, og |-> og]
NoToken == Token(0, NoSess, 0)

\* A RoutedSyncState: its proof (ExactPending or ExactConfirmed) and the part
\* of its SyncState that matters here.
NewRoute(s, og, g) ==
    [id |-> s, og |-> og, gen |-> g, confirmed |-> FALSE, exited |-> FALSE,
     asked |-> FALSE]
NoRoute == NewRoute(NoSess, 0, 0)

\* A line on the wire.  SessionExited names no PTY generation on the wire: the
\* gen of an exit line is the forwarder's own, which the reader never reads.
Line(k, s, g, echo, live, src) ==
    [kind |-> k, id |-> s, gen |-> g, echo |-> echo, live |-> live, src |-> src]
NoLine == Line("none", NoSess, 0, 0, 0, 0)

Detach(s)         == [op |-> "detach", id |-> s, og |-> 0, gen |-> 0]
Attach(s, og, g)  == [op |-> "attach", id |-> s, og |-> og, gen |-> g]
Snapshot(s)       == [op |-> "snapshot", id |-> s, og |-> 0, gen |-> 0]

Forwarder(s, og, g, a) == [id |-> s, og |-> og, gen |-> g, aborted |-> a]

\* The exit forwarded by f has happened.
HasExited(f) == ended[f.id] \/ gen[f.id] > f.gen

(***************************************************************************)
(* Admission of a line into a binding                                      *)
(***************************************************************************)
\* PTY generations are unique: two sessions never share one.
Authorized(r, e) ==
    e.kind \in {"grid", "damage"} => <<e.id, e.gen>> = <<r.id, r.gen>>

\* A variant that takes an untagged line for the current route's.
MutClaimsRoute(r, e) == {e.echo, e.live} \subseteq {0, r.og}

ClaimsRoute(r, e) ==
    IF e.echo = 0 /\ e.live = 0 THEN r.confirmed
    ELSE {e.echo, e.live} = {0, r.og}

\* A variant that confirms a pending route by any Grid of its session.
MutAccepts(r, e) ==
    /\ e.id = r.id
    /\ Authorized(r, e)
    /\ \/ ~r.confirmed /\ e.kind = "grid"
       \/ r.confirmed /\ e.live # 0 /\ e.live = r.og
       \/ r.confirmed /\ e.live = 0 /\ e.kind = "grid"

Accepts(r, e) ==
    /\ e.id = r.id
    /\ Authorized(r, e)
    /\ \/ ~r.confirmed /\ e.kind = "grid" /\ e.live = 0 /\ e.echo = r.og
       \/ r.confirmed /\ e.live # 0 /\ e.echo = 0 /\ e.live = r.og
       \/ r.confirmed /\ e.live = 0 /\ e.kind = "grid" /\ e.echo \in {0, r.og}

\* RetiredExitBindings::retain: the oldest binding makes room for a new one.
Retain(rs, r) ==
    IF r = NoRoute \/ \E i \in DOMAIN rs : rs[i].og = r.og THEN rs
    ELSE LET all == Append(rs, r)
         IN  IF Len(all) > MaxRetired THEN Tail(all) ELSE all

\* sync_active_session: the reader's binding after it looked at the shared one.
BindingUnchanged ==
    /\ rEpoch = active.epoch
    /\ <<route.id, route.og, route.gen>> = <<active.id, active.og, active.gen>>

AdoptedRoute ==
    IF BindingUnchanged THEN route
    ELSE IF active.id = NoSess THEN NoRoute
    ELSE NewRoute(active.id, active.og, active.gen)

RetiredNow == IF BindingUnchanged THEN retired ELSE Retain(retired, route)

SyncHistory ==
    /\ rEpoch' = active.epoch
    /\ adopted' = adopted \cup ({active.og} \ {0})
    /\ evicted' = evicted \cup
          {o \in Ogs : /\ o = route.og \/ \E i \in DOMAIN retired : retired[i].og = o
                       /\ o # AdoptedRoute.og
                       /\ ~\E i \in DOMAIN RetiredNow : RetiredNow[i].og = o}

Tag(e) == IF e.echo # 0 THEN e.echo ELSE e.live

Contradicted(e) ==
    \E i \in DOMAIN retired : retired[i].og = Tag(e) /\ ~Authorized(retired[i], e)

\* RetiredExitBindings::observe_durable_event: the echo advances a retired
\* binding off-paint, and its exit is notified and ends its retention.
Observe(rs, e) ==
    LET hit == {i \in DOMAIN rs : rs[i].og = Tag(e) /\ Accepts(rs[i], e)}
    IN  IF \E i \in hit : e.kind = "grid" /\ e.echo # 0
        THEN /\ retired' = [i \in DOMAIN rs |->
                              [rs[i] EXCEPT !.confirmed = @ \/ i \in hit]]
             /\ UNCHANGED told
        ELSE IF \E i \in hit : e.kind = "exit" /\ ~rs[i].exited
        THEN LET i == CHOOSE i \in hit : TRUE
             IN  /\ retired' = RemoveAt(rs, i)
                 /\ told' = [told EXCEPT ![rs[i].og] = Append(@, rs[i].gen)]
        ELSE retired' = rs /\ UNCHANGED told

(***************************************************************************)
(* The UI thread                                                           *)
(***************************************************************************)
Detaches(ids) == SetToSeq({Detach(s) : s \in ids})

\* A variant that queues the Attach ahead of the Detaches.
MutBind(s) ==
    /\ closed = "open" /\ nextOg < MaxBind
    /\ nextOg' = nextOg + 1
    /\ active' = [epoch |-> active.epoch + 1, id |-> s, og |-> nextOg', gen |-> gen[s]]
    /\ admission' = Token(active.epoch + 1, s, nextOg')
    /\ out' = out \o <<Attach(s, nextOg', gen[s])>> \o Detaches(owed \cup attached)
                  \o <<Snapshot(s)>>
    /\ attached' = {s} /\ owed' = {}
    /\ grid' = 0 /\ exitShown' = 0
    /\ UNCHANGED <<closed, daemonVars, wire, pc, localVars, lineVars>>

\* try_bind_viewport as the owner calls it: every owed and every admitted
\* forwarder is detached ahead of the new Attach, in one admitted batch.
Bind(s) ==
    /\ closed = "open" /\ nextOg < MaxBind
    /\ nextOg' = nextOg + 1
    /\ active' = [epoch |-> active.epoch + 1, id |-> s, og |-> nextOg', gen |-> gen[s]]
    /\ admission' = Token(active.epoch + 1, s, nextOg')
    /\ out' = out \o Detaches(owed \cup attached)
                  \o <<Attach(s, nextOg', gen[s]), Snapshot(s)>>
    /\ attached' = {s} /\ owed' = {}
    /\ grid' = 0 /\ exitShown' = 0
    /\ UNCHANGED <<closed, daemonVars, wire, pc, localVars, lineVars>>

\* clear_viewport blanks at once; its Detach batch is admitted or stays owed.
\* A bind the full queue refuses revokes the old binding in the same way.
Clear ==
    /\ closed = "open" /\ active.id # NoSess
    /\ active' = [epoch |-> active.epoch + 1, id |-> NoSess, og |-> 0, gen |-> 0]
    /\ admission' = NoToken
    /\ grid' = 0 /\ exitShown' = 0
    /\ attached' = {}
    /\ \/ out' = out \o Detaches(owed \cup attached) /\ owed' = {}
       \/ UNCHANGED out /\ owed' = owed \cup attached
    /\ UNCHANGED <<nextOg, closed, daemonVars, wire, pc, localVars, lineVars>>

\* try_admit_pending_detach_cleanup, through try_detach_while_neutral.
Cleanup ==
    /\ closed = "open" /\ active.id = NoSess /\ owed # {}
    /\ out' = out \o Detaches(owed)
    /\ owed' = {}
    /\ UNCHANGED <<active, admission, nextOg, attached, paintVars, closed,
                   daemonVars, wire, pc, localVars, lineVars>>

(***************************************************************************)
(* The daemon                                                              *)
(***************************************************************************)
\* Dropping an attachment asks its forwarder to abort.
AbortFor(s) == {IF f.id = s THEN [f EXCEPT !.aborted = TRUE] ELSE f : f \in fwd}

ServeDetach(s) ==
    /\ att' = [att EXCEPT ![s] = 0]
    /\ fwd' = AbortFor(s)
    /\ UNCHANGED <<wire, sent>>

\* The generation-conditional Attach: refusal, or the echoed restore Grid, and
\* then either the exit the session has already latched or a new forwarder.
ServeAttach(s, og, g) ==
    IF gen[s] # g
    THEN /\ wire' = Append(wire, Line("refused", s, g, 0, 0, og))
         /\ UNCHANGED <<att, fwd, sent>>
    ELSE /\ att' = [att EXCEPT ![s] = og]
         /\ wire' = Append(wire, Line("grid", s, g, og, 0, og)) \o
                    (IF ended[s] THEN <<Line("exit", s, g, 0, og, og)>> ELSE <<>>)
         /\ sent' = IF ended[s] THEN sent \cup {og} ELSE sent
         /\ fwd' = AbortFor(s) \cup
                   (IF ended[s] THEN {} ELSE {Forwarder(s, og, g, FALSE)})

ServeSnapshot(s) ==
    /\ wire' = Append(wire, Line("grid", s, gen[s], 0, 0, att[s]))
    /\ UNCHANGED <<att, fwd, sent>>

Serve ==
    /\ closed = "open" /\ out # <<>>
    /\ LET r == Head(out)
       IN  \/ r.op = "detach" /\ ServeDetach(r.id)
           \/ r.op = "attach" /\ ServeAttach(r.id, r.og, r.gen)
           \/ r.op = "snapshot" /\ ServeSnapshot(r.id)
    /\ out' = Tail(out)
    /\ UNCHANGED <<uiVars, paintVars, closed, gen, ended, frames, pc, localVars,
                   lineVars>>

\* A forwarder's live line: Damage, or the Grid of a resync.  An aborted one
\* that was past its last await still sends the line it had begun.
ForwardFrame(f, k) ==
    /\ closed = "open" /\ frames < MaxFrames
    /\ frames' = frames + 1
    /\ wire' = Append(wire, Line(k, f.id, f.gen, 0, f.og, f.og))
    /\ fwd' = IF f.aborted THEN fwd \ {f} ELSE fwd
    /\ UNCHANGED <<uiVars, paintVars, closed, out, att, gen, ended, sent, pc,
                   localVars, lineVars>>

ForwardExit(f) ==
    /\ closed = "open" /\ HasExited(f)
    /\ wire' = Append(wire, Line("exit", f.id, f.gen, 0, f.og, f.og))
    /\ sent' = sent \cup {f.og}
    /\ fwd' = fwd \ {f}
    /\ UNCHANGED <<uiVars, paintVars, closed, out, att, gen, ended, frames, pc,
                   localVars, lineVars>>

AbortTakesHold(f) ==
    /\ f.aborted
    /\ fwd' = fwd \ {f}
    /\ UNCHANGED <<uiVars, paintVars, closed, out, att, gen, ended, frames, sent,
                   wire, pc, localVars, lineVars>>

SessionEnds(s) ==
    /\ closed = "open" /\ ~ended[s]
    /\ ended' = [ended EXCEPT ![s] = TRUE]
    /\ UNCHANGED <<uiVars, paintVars, closed, out, att, fwd, gen, frames, sent,
                   wire, pc, localVars, lineVars>>

\* An exited session is started again under its id, once nobody is attached.
Restart(s) ==
    /\ closed = "open" /\ ended[s] /\ att[s] = 0 /\ gen[s] < MaxGen
    /\ gen' = [gen EXCEPT ![s] = @ + 1]
    /\ ended' = [ended EXCEPT ![s] = FALSE]
    /\ UNCHANGED <<uiVars, paintVars, closed, out, att, fwd, frames, sent, wire,
                   pc, localVars, lineVars>>

(***************************************************************************)
(* The reader thread                                                       *)
(***************************************************************************)
\* fail_closed_connection: the whole connection ends and the viewport blanks.
FailClosed(why) ==
    /\ closed' = why /\ pc' = "stopped"
    /\ active' = [epoch |-> active.epoch + 1, id |-> NoSess, og |-> 0, gen |-> 0]
    /\ admission' = NoToken
    /\ attached' = {} /\ owed' = {}
    /\ grid' = 0 /\ exitShown' = 0

\* The loop's locals end with the line they were captured for.
LineDone == line' = NoLine /\ pre' = NoToken /\ post' = NoToken /\ proof' = NoToken

SharedToken(s) ==
    IF active.id = s THEN Token(active.epoch, s, active.og) ELSE NoToken

LocalToken(s) ==
    IF route.id = s THEN Token(rEpoch, s, route.og) ELSE NoToken

\* sync_active_session at the top of the loop, before the blocking read.
TopSync ==
    /\ pc = "top" /\ closed = "open"
    /\ route' = AdoptedRoute /\ retired' = RetiredNow /\ SyncHistory
    /\ pc' = "read"
    /\ UNCHANGED <<uiVars, paintVars, closed, out, daemonVars, wire, told, lineVars>>

\* A line arrives.  The binding the reader held before it is captured first.
ReadLine ==
    /\ pc = "read" /\ closed = "open" /\ wire # <<>>
    /\ wire' = Tail(wire)
    /\ IF Head(wire).kind = "refused" \/ Contradicted(Head(wire))
       THEN /\ FailClosed(IF Head(wire).kind = "refused" THEN "refused" ELSE "retired")
            /\ UNCHANGED <<nextOg, line, pre>>
       ELSE /\ line' = Head(wire) /\ pre' = LocalToken(line'.id) /\ pc' = "post"
            /\ UNCHANGED <<uiVars, paintVars, closed>>
    /\ UNCHANGED <<out, daemonVars, localVars, post, proof>>

\* Then the binding that is shared now.
PostToken ==
    /\ pc = "post" /\ closed = "open"
    /\ post' = SharedToken(line.id)
    /\ pc' = "dispatch"
    /\ UNCHANGED <<uiVars, paintVars, closed, out, daemonVars, wire, localVars,
                   line, pre, proof>>

\* is_exact_post_attach_echo
PostAttachEcho ==
    /\ line.kind = "grid" /\ line.live = 0
    /\ post # NoToken /\ line.echo = post.og

\* The reader reconciles once more and dispatches: a line read across a change
\* of binding may only be that binding's own echo, and what the binding does
\* not accept can still be a retired binding's exit.
Dispatch ==
    /\ pc = "dispatch" /\ closed = "open"
    /\ SyncHistory
    /\ LET r == AdoptedRoute
           routed == r # NoRoute /\ post # NoToken /\ (pre = post \/ PostAttachEcho)
       IN  IF routed /\ ~Authorized(r, line) /\ ClaimsRoute(r, line)
           THEN /\ FailClosed("contradiction")
                /\ route' = r /\ retired' = RetiredNow /\ LineDone
                /\ UNCHANGED <<nextOg, told>>
           ELSE IF routed /\ Accepts(r, line)
           THEN /\ route' = [r EXCEPT !.confirmed = TRUE]
                /\ retired' = RetiredNow
                /\ pc' = IF line.kind = "grid" THEN "clone" ELSE "commit"
                /\ UNCHANGED <<uiVars, paintVars, closed, told, lineVars>>
           ELSE /\ route' = r /\ Observe(RetiredNow, line)
                /\ pc' = "top" /\ LineDone
                /\ UNCHANGED <<uiVars, paintVars, closed>>
    /\ UNCHANGED <<out, daemonVars, wire>>

\* note_exact_viewport_grid takes the newest bind's receipt, if there is one,
CloneReceipt ==
    /\ pc = "clone" /\ closed = "open"
    /\ proof' = admission
    /\ pc' = IF admission = NoToken THEN "commit" ELSE "note"
    /\ UNCHANGED <<uiVars, paintVars, closed, out, daemonVars, wire, localVars,
                   line, pre, post>>

\* and note_grid checks the line's token against it.  A receipt that is no
\* longer the newest has been failed by the bind or clear that replaced it.
NoteGrid ==
    /\ pc = "note" /\ closed = "open"
    /\ IF proof = post /\ admission = proof
       THEN pc' = "commit" /\ UNCHANGED <<uiVars, paintVars, closed>>
       ELSE FailClosed("receipt") /\ UNCHANGED nextOg
    /\ UNCHANGED <<out, daemonVars, wire, localVars, lineVars>>

\* A variant that checks the token captured before the read.
MutTokenCurrent == SharedToken(pre.id) = pre /\ active.id # NoSess

\* The token captured with the line is still the published binding.
TokenCurrent == SharedToken(post.id) = post /\ active.id # NoSess

\* commit_active_grid; a grid also settles an outstanding recovery Snapshot.
CommitGrid ==
    /\ line.kind = "grid"
    /\ route' = IF route.exited THEN route ELSE [route EXCEPT !.asked = FALSE]
    /\ grid' = IF TokenCurrent /\ ~route.exited THEN line.src ELSE grid
    /\ UNCHANGED <<exitShown, out, told>>

\* Damage applies to the held grid, or is ignored, or (a gap) asks once for a
\* fresh Snapshot under the captured token.
CommitDamage ==
    /\ line.kind = "damage"
    /\ \/ /\ TokenCurrent /\ grid # 0 /\ ~route.exited
          /\ grid' = line.src /\ UNCHANGED <<route, out>>
       \/ /\ TokenCurrent /\ ~route.exited /\ ~route.asked
          /\ out' = Append(out, Snapshot(line.id))
          /\ route' = [route EXCEPT !.asked = TRUE]
          /\ UNCHANGED grid
       \/ UNCHANGED <<grid, route, out>>
    /\ UNCHANGED <<exitShown, told>>

\* A variant in which a rebind also takes the exit notice away.
MutCommitExit ==
    /\ line.kind = "exit"
    /\ IF route.exited \/ ~TokenCurrent THEN UNCHANGED <<route, exitShown, told>>
       ELSE /\ route' = [route EXCEPT !.exited = TRUE]
            /\ exitShown' = line.src
            /\ told' = [told EXCEPT ![route.og] = Append(@, route.gen)]
    /\ UNCHANGED <<grid, out>>

\* commit_active_exit is gated by the token; the exit notice is not.
CommitExit ==
    /\ line.kind = "exit"
    /\ IF route.exited THEN UNCHANGED <<route, exitShown, told>>
       ELSE /\ route' = [route EXCEPT !.exited = TRUE]
            /\ exitShown' = IF TokenCurrent THEN line.src ELSE exitShown
            /\ told' = [told EXCEPT ![route.og] = Append(@, route.gen)]
    /\ UNCHANGED <<grid, out>>

Commit ==
    /\ pc = "commit" /\ closed = "open"
    /\ CommitGrid \/ CommitDamage \/ CommitExit
    /\ pc' = "top" /\ LineDone
    /\ UNCHANGED <<uiVars, closed, daemonVars, wire, rEpoch, retired, adopted, evicted>>

Init ==
    \E s \in Sess :
        /\ active = [epoch |-> 1, id |-> s, og |-> 1, gen |-> 1]
        /\ admission = Token(1, s, 1)
        /\ nextOg = 1 /\ attached = {s} /\ owed = {}
        /\ grid = 0 /\ exitShown = 0 /\ closed = "open"
        /\ out = <<Attach(s, 1, 1), Snapshot(s)>>
        /\ att = [x \in Sess |-> 0] /\ fwd = {}
        /\ gen = [x \in Sess |-> 1] /\ ended = [x \in Sess |-> FALSE]
        /\ frames = 0 /\ wire = <<>> /\ sent = {}
        /\ pc = "top" /\ rEpoch = 1 /\ route = NewRoute(s, 1, 1) /\ retired = <<>>
        /\ adopted = {1} /\ evicted = {} /\ told = [o \in Ogs |-> <<>>]
        /\ line = NoLine /\ pre = NoToken /\ post = NoToken /\ proof = NoToken

Reader == TopSync \/ ReadLine \/ PostToken \/ Dispatch \/ CloneReceipt \/ NoteGrid \/ Commit

Next ==
    \/ \E s \in Sess : Bind(s) \/ SessionEnds(s) \/ Restart(s)
    \/ Clear \/ Cleanup
    \/ Serve
    \/ \E f \in fwd : \/ \E k \in {"damage", "grid"} : ForwardFrame(f, k)
                      \/ ForwardExit(f) \/ AbortTakesHold(f)
    \/ Reader

Spec == Init /\ [][Next]_vars

(***************************************************************************)
(* Properties                                                              *)
(***************************************************************************)
Gens == 1 .. MaxGen
TokenSet == [epoch : 0 .. 2 * MaxBind + 1, id : Sess \cup {NoSess}, og : 0 .. MaxBind]
RouteSet == [id : Sess \cup {NoSess}, og : 0 .. MaxBind, gen : 0 .. MaxGen,
             confirmed : BOOLEAN, exited : BOOLEAN, asked : BOOLEAN]
LineSet == [kind : {"none", "grid", "damage", "exit", "refused"},
            id : Sess \cup {NoSess}, gen : 0 .. MaxGen, echo : 0 .. MaxBind,
            live : 0 .. MaxBind, src : 0 .. MaxBind]

\* The type invariant.  The owner owes no Detach while a binding is published,
\* no line carries both tags, and a retired binding was adopted once.
TypeOK ==
    /\ active \in [epoch : 1 .. 2 * MaxBind + 1, id : Sess \cup {NoSess},
                    og : 0 .. MaxBind, gen : 0 .. MaxGen]
    /\ admission \in TokenSet /\ nextOg \in Ogs
    /\ attached \subseteq Sess /\ owed \subseteq Sess
    /\ grid \in 0 .. MaxBind /\ exitShown \in 0 .. MaxBind
    /\ closed \in {"open", "refused", "retired", "contradiction", "receipt"}
    /\ out \in Seq([op : {"detach", "attach", "snapshot"}, id : Sess,
                     og : 0 .. MaxBind, gen : 0 .. MaxGen])
    /\ att \in [Sess -> 0 .. MaxBind]
    /\ fwd \subseteq [id : Sess, og : Ogs, gen : Gens, aborted : BOOLEAN]
    /\ gen \in [Sess -> Gens] /\ ended \in [Sess -> BOOLEAN]
    /\ frames \in 0 .. MaxFrames /\ wire \in Seq(LineSet)
    /\ pc \in {"top", "read", "post", "dispatch", "clone", "note", "commit", "stopped"}
    /\ rEpoch \in 1 .. 2 * MaxBind + 1 /\ route \in RouteSet
    /\ retired \in Seq(RouteSet) /\ Len(retired) <= MaxRetired
    /\ line \in LineSet /\ {pre, post, proof} \subseteq TokenSet
    /\ adopted \subseteq Ogs /\ evicted \subseteq Ogs /\ sent \subseteq Ogs
    /\ told \in [Ogs -> Seq(0 .. MaxGen)]
    /\ active.id # NoSess => owed = {}
    /\ \A i \in DOMAIN wire : wire[i].echo = 0 \/ wire[i].live = 0
    /\ \A i \in DOMAIN retired : retired[i].og \in adopted

\* Nothing stale is ever on screen: the grid and the exit shown were caused by
\* the published binding's own Attach, its forwarder or a reply behind its
\* echo, however many old lines of the same session (aborted forwarders, late
\* Snapshot replies) are still queued when the tab is switched or revived.
PaintedByOwnRoute ==
    /\ grid # 0 => grid = active.og
    /\ exitShown # 0 => exitShown = active.og

\* The daemon keeps serving the published binding: no id-only Detach of an
\* earlier binding reaches the daemon behind the Attach that revived its id.
RouteStaysAttached ==
    active.id # NoSess =>
        \/ \E i \in DOMAIN out :
              /\ out[i].op = "attach" /\ out[i].og = active.og
              /\ \A j \in DOMAIN out : j > i => out[j] # Detach(active.id)
        \/ /\ att[active.id] = active.og
           /\ \A j \in DOMAIN out : out[j] # Detach(active.id)
        \/ \E i \in DOMAIN wire : wire[i].kind = "refused" /\ wire[i].src = active.og

ExitInFlight(o) ==
    \/ \E i \in DOMAIN wire : wire[i].kind = "exit" /\ wire[i].live = o
    \/ pc \in {"post", "dispatch", "commit"} /\ line.kind = "exit" /\ line.live = o

\* An exit line is notified exactly once, under the generation that exited, to
\* every binding the reader has adopted: it survives the binding's retirement
\* by a clear or a switch, and no second line repeats it.
ExitToldOnce ==
    closed = "open" =>
        \A o \in Ogs :
            /\ Len(told[o]) <= 1
            /\ told[o] # <<>> => o \in sent /\ told[o][1] # 0
            /\ o \in (sent \cap adopted) \ evicted => ExitInFlight(o) \/ told[o] # <<>>

\* A stale line is inert: the reader never takes it for a contradiction of the
\* replacement binding (event_claims_current_route).
StaleIsInert == closed \notin {"retired", "contradiction"}

\* No echo is dropped: when the daemon has served every request and the reader
\* has read every line, the published binding is on screen, also when its only
\* echo was read across the change of binding.
EchoPaints ==
    closed = "open" /\ active.id # NoSess /\ out = <<>> /\ wire = <<>> /\ pc = "read"
        => grid = active.og

-----------------------------------------------------------------------------
(* Claims of the source's comments that TLC refutes on small instances; the  *)
(* README (section 4) gives the instances and the behaviours.                *)

\* "A clear/rebind after this point makes commit-time validation fail": a line
\* overtaken by a rebind is dropped, and only a refused Attach ends the
\* connection.
RebindKeepsConnection == closed # "receipt"

\* "the app observation ... survives viewport clear/rebind races": no exit line
\* of any binding is consumed without a notice.
ExitSurvivesRebind ==
    closed = "open" =>
        \A o \in sent \ evicted : ExitInFlight(o) \/ told[o] # <<>>
================================================================================
