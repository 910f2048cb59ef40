------------------------------- MODULE Daemon -------------------------------
(***************************************************************************)
(* The session registry of pty-daemon (daemon.rs, session.rs, main.rs, the *)
(* build for Unix): the map from session ids to Session objects, the       *)
(* start-operation ledger, the attachment fence of every Session, and the  *)
(* per-connection ClientState whose requests read and change them.         *)
(*                                                                         *)
(* One step is one critical section: what a handler does under the global  *)
(* daemon mutex (or, for detach, under a Session's fence mutex) between    *)
(* two points where another task may run.  Handlers that take several      *)
(* critical sections (Attach, Kill) are several actions joined by conn[c]. *)
(***************************************************************************)
EXTENDS Naturals, Sequences, FiniteSets

CONSTANTS
    Ids,          \* session ids
    Clients,      \* client connections (a slot is reused after it closes)
    Tokens,       \* attachment handoff tokens
    OpTokens,     \* start-operation tokens
    None,         \* "no value": Rust's Option::None
    MaxSessions,  \* MAX_SESSIONS
    MaxLedger,    \* MAX_START_OPERATION_LEDGER_ENTRIES
    MaxPending,   \* MAX_ATTACHMENT_HANDOFF_TOKENS
    MaxRetired,   \* MAX_RETIRED_ATTACHMENT_HANDOFF_TOKENS
    MaxGen        \* bound of the model: how many Sessions are ever spawned

ASSUME NoneAssumption ==
    None \notin Ids \cup Clients \cup Tokens \cup OpTokens \cup (Ids \X OpTokens)
ASSUME FiniteAssumption ==
    IsFiniteSet(Clients) /\ IsFiniteSet(Ids) /\ IsFiniteSet(OpTokens)
ASSUME BoundAssumption ==
    /\ MaxSessions \in Nat \ {0}
    /\ MaxLedger \in Nat
    /\ MaxPending \in Nat
    /\ MaxRetired \in Nat \ {0}
    /\ MaxGen \in Nat

NoGen == 0

\* A generation names one Session object for ever: SessionGeneration::new
\* draws 128 random bits, modelled as a number never drawn before.
Gens == 1 .. MaxGen

VARIABLES
    mapped,        \* Daemon.sessions: the generation installed under an id
    home,          \* Session.id of every generation spawned so far
    exited,        \* the generations whose exit latch is set
    nextGen,       \* the generation the next spawn draws
    guards,        \* AttachmentFence.active_guards of a generation
    pending,       \* AttachmentFence.pending_handoffs: token -> owner
    retired,       \* AttachmentFence.retired_handoffs, oldest first
    ledger,        \* Daemon.start_operations
    conn,          \* where a connection's handler stands
    req,           \* the local variables of a handler between two steps
    att,           \* ClientState.attachments
    startRefused,  \* ClientState.conditional_start_refused
    attachRefused, \* connections with conditional_attach_refused set
    origin,        \* history: the operation token that spawned a generation
    reopened       \* history: the operation tokens retired at least once

fenceVars  == <<guards, pending, retired>>
mapVars    == <<mapped, home, exited, nextGen, origin>>
ledgerVars == <<ledger, reopened>>
connVars   == <<conn, req, att, startRefused, attachRefused>>
vars == <<mapVars, fenceVars, ledgerVars, connVars>>

NoAttachment == [gen |-> NoGen, offered |-> None]
NoRequest    == [id |-> None, gen |-> NoGen, offered |-> None]
NoEntry      == [st |-> "none", id |-> None, gen |-> NoGen]

Attachments == [gen : Gens \cup {NoGen}, offered : Tokens \cup {None}]
Requests    == [id : Ids \cup {None}, gen : Gens \cup {NoGen},
                offered : Tokens \cup {None}]
Entries     == [st : {"none", "reserved", "applied", "refused"},
                id : Ids \cup {None}, gen : Gens \cup {NoGen}]

\* ClientRequest::Attach's optional handoff.
Handoffs == {[kind |-> "plain", token |-> None]}
            \cup [kind : {"offer", "claim"}, token : Tokens]

\* SessionStartPrecondition: Absent, or ExitedGeneration with its generation.
Preconditions == {[kind |-> "absent", gen |-> NoGen]}
                 \cup [kind : {"exited"}, gen : Gens]

TypeOK ==
    /\ mapped \in [Ids -> Gens \cup {NoGen}]
    /\ home \in [Gens -> Ids \cup {None}]
    /\ exited \in SUBSET Gens
    /\ nextGen \in 1 .. (MaxGen + 1)
    /\ guards \in [Gens -> Nat]
    /\ pending \in [Gens -> [Tokens -> Clients \cup {None}]]
    /\ retired \in [Gens -> Seq(Tokens)]
    /\ ledger \in [OpTokens -> Entries]
    /\ conn \in [Clients -> {"closed", "idle", "install", "baseline", "kill"}]
    /\ req \in [Clients -> Requests]
    /\ att \in [Clients -> [Ids -> Attachments]]
    /\ startRefused \in [Clients -> (Ids \X OpTokens) \cup {None}]
    /\ attachRefused \in SUBSET Clients
    /\ origin \in [Gens -> OpTokens \cup {None}]
    /\ reopened \in SUBSET OpTokens

Init ==
    /\ mapped = [i \in Ids |-> NoGen]
    /\ home = [g \in Gens |-> None]
    /\ exited = {}
    /\ nextGen = 1
    /\ guards = [g \in Gens |-> 0]
    /\ pending = [g \in Gens |-> [t \in Tokens |-> None]]
    /\ retired = [g \in Gens |-> << >>]
    /\ ledger = [o \in OpTokens |-> NoEntry]
    /\ conn = [c \in Clients |-> "closed"]
    /\ req = [c \in Clients |-> NoRequest]
    /\ att = [c \in Clients |-> [i \in Ids |-> NoAttachment]]
    /\ startRefused = [c \in Clients |-> None]
    /\ attachRefused = {}
    /\ origin = [g \in Gens |-> None]
    /\ reopened = {}

-----------------------------------------------------------------------------
(* The attachment fence of one Session. *)

IsRetired(r, t) == \E k \in 1 .. Len(r) : r[k] = t

\* AttachmentFence::retire: remember a token once, forgetting the oldest.
Retire(r, t) ==
    IF IsRetired(r, t) THEN r
    ELSE Append(IF Len(r) = MaxRetired THEN Tail(r) ELSE r, t)

PendingTokens(g) == {t \in Tokens : pending[g][t] # None}

AttachmentInUse(g) == guards[g] > 0 \/ PendingTokens(g) # {}

\* Mutation: eviction looks at the exit latch only.
MutCanReclaim(g) == g \in exited

CanReclaim(g) == g \in exited /\ ~ AttachmentInUse(g)

SaturatingDec(n) == IF n > 0 THEN n - 1 ELSE 0

\* Mutation: the guard's offer is retired without looking whether there is one.
MutRetiring(c, S, g) == {att[c][i].offered : i \in {j \in S : att[c][j].gen = g}}

\* The tokens that detaching connection c's attachments to the ids in S
\* retires on generation g: still pending, and still owned by c.
Retiring(c, S, g) ==
    {t \in Tokens : \E i \in S : att[c][i].gen = g /\ att[c][i].offered = t
                                 /\ pending[g][t] = c}

\* AttachmentGuard::release of the guards c holds on S, with explicit = false.
DropGuards(c, S) ==
    /\ guards' = [g \in Gens |-> IF \E i \in S : att[c][i].gen = g
                                 THEN SaturatingDec(guards[g]) ELSE guards[g]]
    /\ UNCHANGED <<pending, retired>>

\* Mutation: connection loss drops the guards raw and leaves the offers.
MutDetachGuards(c, S) == DropGuards(c, S)

\* AttachmentGuard::detach: the same, and the pending offers are retired.
DetachGuards(c, S) ==
    /\ guards' = [g \in Gens |-> IF \E i \in S : att[c][i].gen = g
                                 THEN SaturatingDec(guards[g]) ELSE guards[g]]
    /\ pending' = [g \in Gens |-> [t \in Tokens |->
                     IF t \in Retiring(c, S, g) THEN None ELSE pending[g][t]]]
    /\ retired' = [g \in Gens |->
                     IF Retiring(c, S, g) = {} THEN retired[g]
                     ELSE Retire(retired[g], CHOOSE t \in Retiring(c, S, g) : TRUE)]

-----------------------------------------------------------------------------
(* Connections. *)

\* The latch test that opens handle_request: after a typed refusal only the
\* content-blind requests and an exact replay of the refused Start proceed.
Accepts(c) ==
    conn[c] = "idle" /\ startRefused[c] = None /\ c \notin attachRefused

AcceptsStart(c, i, o) ==
    /\ conn[c] = "idle"
    /\ c \notin attachRefused
    /\ startRefused[c] \in {None, <<i, o>>}

\* Leaving handle_client's loop, for whatever reason, drops ClientState.
CloseClient(c) ==
    /\ DetachGuards(c, Ids)
    /\ att' = [att EXCEPT ![c] = [i \in Ids |-> NoAttachment]]
    /\ conn' = [conn EXCEPT ![c] = "closed"]
    /\ req' = [req EXCEPT ![c] = NoRequest]
    /\ startRefused' = [startRefused EXCEPT ![c] = None]
    /\ attachRefused' = attachRefused \ {c}
    /\ UNCHANGED <<mapVars, ledgerVars>>

\* accept_loop_unix takes a connection; ClientState::new.
Accept(c) ==
    /\ conn[c] = "closed"
    /\ conn' = [conn EXCEPT ![c] = "idle"]
    /\ UNCHANGED <<mapVars, fenceVars, ledgerVars, req, att, startRefused, attachRefused>>

\* EOF, a malformed line, or a failed outbound queue.  The last one cancels a
\* handler at an await point; "install" has none.
Disconnect(c) ==
    /\ conn[c] \in {"idle", "baseline", "kill"}
    /\ CloseClient(c)

-----------------------------------------------------------------------------
(* Attach, Detach, CancelAttachmentHandoff. *)

\* Mutation: an offer is not looked up in the replay fence.
MutAcquirable(c, g, h) ==
    \/ h.kind = "plain"
    \/ /\ h.kind = "offer"
       /\ \/ pending[g][h.token] = c
          \/ /\ pending[g][h.token] = None
             /\ Cardinality(PendingTokens(g)) < MaxPending
    \/ h.kind = "claim" /\ pending[g][h.token] # None

\* Session::acquire_attachment succeeds for connection c.
Acquirable(c, g, h) ==
    \/ h.kind = "plain"
    \/ /\ h.kind = "offer"
       /\ ~ IsRetired(retired[g], h.token)
       /\ \/ pending[g][h.token] = c
          \/ /\ pending[g][h.token] = None
             /\ Cardinality(PendingTokens(g)) < MaxPending
    \/ h.kind = "claim" /\ pending[g][h.token] # None

\* The generation comparison of acquire_session_attachment_if_generation;
\* an Attach without an expectation (e = NoGen) only needs the id mapped.
ExpectationHolds(i, e) == mapped[i] # NoGen /\ e \in {NoGen, mapped[i]}

\* The first critical section of Attach: the guard is acquired.
AttachAcquire(c, i, e, h) ==
    LET g == mapped[i] IN
    /\ Accepts(c)
    /\ ExpectationHolds(i, e)
    /\ Acquirable(c, g, h)
    /\ guards' = [guards EXCEPT ![g] = @ + 1]
    /\ \/ h.kind = "plain" /\ UNCHANGED <<pending, retired>>
       \/ /\ h.kind = "offer"
          /\ pending' = [pending EXCEPT ![g][h.token] = c]
          /\ UNCHANGED retired
       \/ /\ h.kind = "claim"
          /\ pending' = [pending EXCEPT ![g][h.token] = None]
          /\ retired' = [retired EXCEPT ![g] = Retire(@, h.token)]
    /\ conn' = [conn EXCEPT ![c] = "install"]
    /\ req' = [req EXCEPT ![c] = [id |-> i, gen |-> g,
                  offered |-> IF h.kind = "offer" THEN h.token ELSE None]]
    /\ UNCHANGED <<mapVars, ledgerVars, att, startRefused, attachRefused>>

\* A typed refusal latches the connection when the Attach carried a handoff.
AttachRefused(c, i, e, h) ==
    /\ Accepts(c)
    /\ e # NoGen /\ ~ ExpectationHolds(i, e)
    /\ h.kind # "plain"
    /\ attachRefused' = attachRefused \cup {c}
    /\ UNCHANGED <<mapVars, fenceVars, ledgerVars, conn, req, att, startRefused>>

\* Any other failure of an Attach with a handoff closes the connection.
AttachInvalid(c, i, e, h) ==
    /\ Accepts(c)
    /\ h.kind # "plain"
    /\ IF ExpectationHolds(i, e) THEN ~ Acquirable(c, mapped[i], h) ELSE e = NoGen
    /\ CloseClient(c)

\* ClientState::install, after the daemon mutex is released.
Install(c) ==
    LET r == req[c]
        sameOffer == r.offered # None /\ att[c][r.id].offered = r.offered IN
    /\ conn[c] = "install"
    /\ IF sameOffer THEN DropGuards(c, {r.id}) ELSE DetachGuards(c, {r.id})
    /\ att' = [att EXCEPT ![c][r.id] = [gen |-> r.gen, offered |-> r.offered]]
    /\ conn' = [conn EXCEPT ![c] = "baseline"]
    /\ UNCHANGED <<mapVars, ledgerVars, req, startRefused, attachRefused>>

\* The awaited restore Grid was queued; the handler returns.
BaselineSent(c) ==
    /\ conn[c] = "baseline"
    /\ conn' = [conn EXCEPT ![c] = "idle"]
    /\ req' = [req EXCEPT ![c] = NoRequest]
    /\ UNCHANGED <<mapVars, fenceVars, ledgerVars, att, startRefused, attachRefused>>

\* ClientState::detach.
DetachId(c, i) ==
    /\ DetachGuards(c, {i})
    /\ att' = [att EXCEPT ![c][i] = NoAttachment]

\* The restore Grid could not be queued: the attachment is taken back.
BaselineFailed(c) ==
    /\ conn[c] = "baseline"
    /\ DetachId(c, req[c].id)
    /\ conn' = [conn EXCEPT ![c] = "idle"]
    /\ req' = [req EXCEPT ![c] = NoRequest]
    /\ UNCHANGED <<mapVars, ledgerVars, startRefused, attachRefused>>

Detach(c, i) ==
    /\ Accepts(c)
    /\ DetachId(c, i)
    /\ UNCHANGED <<mapVars, ledgerVars, conn, req, startRefused, attachRefused>>

\* Any connection may cancel a token it knows.
CancelHandoff(c, i, t) ==
    LET g == mapped[i] IN
    /\ Accepts(c)
    /\ g # NoGen
    /\ pending[g][t] # None
    /\ pending' = [pending EXCEPT ![g][t] = None]
    /\ retired' = [retired EXCEPT ![g] = Retire(@, t)]
    /\ UNCHANGED <<mapVars, ledgerVars, connVars, guards>>

-----------------------------------------------------------------------------
(* Kill. *)

\* Mutation: Kill forgets its attachment without releasing the guard.
MutKillRelease(c, i, e) ==
    /\ Accepts(c)
    /\ att' = [att EXCEPT ![c][i] = NoAttachment]
    /\ conn' = [conn EXCEPT ![c] = "kill"]
    /\ req' = [req EXCEPT ![c] = [id |-> i, gen |-> e, offered |-> None]]
    /\ UNCHANGED <<mapVars, fenceVars, ledgerVars, startRefused, attachRefused>>

\* The connection gives up its own guard before it asks for the daemon mutex.
KillRelease(c, i, e) ==
    /\ Accepts(c)
    /\ DetachId(c, i)
    /\ conn' = [conn EXCEPT ![c] = "kill"]
    /\ req' = [req EXCEPT ![c] = [id |-> i, gen |-> e, offered |-> None]]
    /\ UNCHANGED <<mapVars, ledgerVars, startRefused, attachRefused>>

\* Mutation: the take goes by id alone.
MutKillTake(c) ==
    LET i == req[c].id IN
    /\ conn[c] = "kill"
    /\ mapped[i] # NoGen /\ ~ AttachmentInUse(mapped[i])
    /\ mapped' = [mapped EXCEPT ![i] = NoGen]
    /\ conn' = [conn EXCEPT ![c] = "idle"]
    /\ req' = [req EXCEPT ![c] = NoRequest]
    /\ UNCHANGED <<home, exited, nextGen, origin, fenceVars, ledgerVars,
                   att, startRefused, attachRefused>>

\* take_session_if_generation: nothing mapped, a refusal, or the removal.
KillTake(c) ==
    LET i == req[c].id
        g == mapped[i] IN
    /\ conn[c] = "kill"
    /\ \/ /\ g # NoGen
          /\ g # req[c].gen \/ AttachmentInUse(g)
          /\ CloseClient(c)
       \/ /\ g = NoGen \/ (g = req[c].gen /\ ~ AttachmentInUse(g))
          /\ mapped' = [mapped EXCEPT ![i] = NoGen]
          /\ conn' = [conn EXCEPT ![c] = "idle"]
          /\ req' = [req EXCEPT ![c] = NoRequest]
          /\ UNCHANGED <<home, exited, nextGen, origin, fenceVars, ledgerVars,
                         att, startRefused, attachRefused>>

-----------------------------------------------------------------------------
(* StartSession and the start-operation ledger. *)

SessionCount == Cardinality({i \in Ids : mapped[i] # NoGen})
LedgerCount  == Cardinality({o \in OpTokens : ledger[o].st # "none"})

\* Mutation: a restart reuses the generation of the Session it replaces.
MutSpawn(i, o, V) ==
    LET g == IF mapped[i] # NoGen THEN mapped[i] ELSE nextGen IN
    /\ nextGen \in Gens
    /\ mapped' = [j \in Ids |-> IF j = i THEN g
                                ELSE IF j \in V THEN NoGen ELSE mapped[j]]
    /\ home' = [home EXCEPT ![g] = i]
    /\ origin' = [origin EXCEPT ![g] = o]
    /\ nextGen' = IF g = nextGen THEN nextGen + 1 ELSE nextGen
    /\ exited' = exited \ {g}

\* Spawn a Session under id i for operation o, after removing the ids in V.
Spawn(i, o, V) ==
    /\ nextGen \in Gens
    /\ mapped' = [j \in Ids |-> IF j = i THEN nextGen
                                ELSE IF j \in V THEN NoGen ELSE mapped[j]]
    /\ home' = [home EXCEPT ![nextGen] = i]
    /\ origin' = [origin EXCEPT ![nextGen] = o]
    /\ nextGen' = nextGen + 1
    /\ UNCHANGED exited

\* start_session_with_restart_and_environment.  A live same-id Session and
\* every error leave the daemon as it was, so only success is a step: a new
\* id with room, a new id at the limit that evicts one reclaimable Session,
\* or an explicit restart of an exited Session nobody is attached to.
StartOrdinary(c, i, restart) ==
    LET g == mapped[i] IN
    /\ Accepts(c)
    /\ \/ /\ g = NoGen /\ SessionCount < MaxSessions
          /\ Spawn(i, None, {})
       \/ /\ g = NoGen /\ SessionCount >= MaxSessions
          /\ \E v \in Ids : /\ mapped[v] # NoGen /\ CanReclaim(mapped[v])
                            /\ Spawn(i, None, {v})
       \/ /\ g # NoGen /\ g \in exited /\ restart /\ ~ AttachmentInUse(g)
          /\ Spawn(i, None, {})
    /\ UNCHANGED <<fenceVars, ledgerVars, connVars>>

\* Mutation: the ledger limit is off by one.
MutReserveStart(c, i, o) ==
    /\ Accepts(c)
    /\ ledger[o].st = "none"
    /\ LedgerCount <= MaxLedger
    /\ ledger' = [ledger EXCEPT ![o] = [st |-> "reserved", id |-> i, gen |-> NoGen]]
    /\ UNCHANGED <<mapVars, fenceVars, connVars, reopened>>

\* reserve_start_operation for a token without an entry.
ReserveStart(c, i, o) ==
    /\ Accepts(c)
    /\ ledger[o].st = "none"
    /\ LedgerCount < MaxLedger
    /\ ledger' = [ledger EXCEPT ![o] = [st |-> "reserved", id |-> i, gen |-> NoGen]]
    /\ UNCHANGED <<mapVars, fenceVars, connVars, reopened>>

\* The daemon-map predicate of a conditional start, with its capacity rule:
\* it never evicts.
PreconditionHolds(i, p) ==
    LET g == mapped[i] IN
    \/ p.kind = "absent" /\ g = NoGen /\ SessionCount < MaxSessions
    \/ p.kind = "exited" /\ g = p.gen /\ g \in exited /\ ~ AttachmentInUse(g)

\* Mutation: a replay of an applied operation is run again.
MutStartApplied(c, i, o, p) ==
    /\ AcceptsStart(c, i, o)
    /\ ledger[o].st \in {"reserved", "applied"} /\ ledger[o].id = i
    /\ PreconditionHolds(i, p)
    /\ Spawn(i, o, {})
    /\ ledger' = [ledger EXCEPT ![o] = [st |-> "applied", id |-> i, gen |-> nextGen]]
    /\ startRefused' = [startRefused EXCEPT ![c] = None]
    /\ UNCHANGED <<fenceVars, reopened, conn, req, att, attachRefused>>

\* start_session_conditionally publishes a new Session and the ledger entry.
StartApplied(c, i, o, p) ==
    /\ AcceptsStart(c, i, o)
    /\ ledger[o].st = "reserved" /\ ledger[o].id = i
    /\ PreconditionHolds(i, p)
    /\ Spawn(i, o, {})
    /\ ledger' = [ledger EXCEPT ![o] = [st |-> "applied", id |-> i, gen |-> nextGen]]
    /\ startRefused' = [startRefused EXCEPT ![c] = None]
    /\ UNCHANGED <<fenceVars, reopened, conn, req, att, attachRefused>>

\* The reserved operation is refused for good: the precondition failed, or
\* validation or the spawn did.
StartRefusedReserved(c, i, o) ==
    /\ AcceptsStart(c, i, o)
    /\ ledger[o].st = "reserved" /\ ledger[o].id = i
    /\ ledger' = [ledger EXCEPT ![o] = [st |-> "refused", id |-> i, gen |-> NoGen]]
    /\ startRefused' = [startRefused EXCEPT ![c] = <<i, o>>]
    /\ UNCHANGED <<mapVars, fenceVars, reopened, conn, req, att, attachRefused>>

\* Replays, and starts without an exact reservation, answer from the ledger.
StartAnswered(c, i, o) ==
    /\ AcceptsStart(c, i, o)
    /\ ~ (ledger[o].st = "reserved" /\ ledger[o].id = i)
    /\ startRefused' = [startRefused EXCEPT ![c] =
                          IF ledger[o].st = "applied" /\ ledger[o].id = i
                          THEN None ELSE <<i, o>>]
    /\ UNCHANGED <<mapVars, fenceVars, ledgerVars, conn, req, att, attachRefused>>

\* retire_start_operation: e is NoGen for Unapplied, else the generation.
\* Retire stays available on a latched connection.
RetireStart(c, i, o, e) ==
    /\ conn[c] = "idle"
    /\ ledger[o].id = i
    /\ IF e = NoGen THEN ledger[o].st \in {"reserved", "refused"}
                    ELSE ledger[o].st = "applied" /\ ledger[o].gen = e
    /\ ledger' = [ledger EXCEPT ![o] = NoEntry]
    /\ reopened' = reopened \cup {o}
    /\ UNCHANGED <<mapVars, fenceVars, connVars>>

\* The pump thread of a Session reaps its child and sets the exit latch,
\* without the daemon mutex.
ChildExit(g) ==
    /\ g < nextGen /\ g \notin exited
    /\ exited' = exited \cup {g}
    /\ UNCHANGED <<mapped, home, nextGen, origin, fenceVars, ledgerVars, connVars>>

-----------------------------------------------------------------------------
AttachStep(c) ==
    \/ \E i \in Ids, e \in Gens \cup {NoGen}, h \in Handoffs :
         \/ AttachAcquire(c, i, e, h)
         \/ AttachRefused(c, i, e, h)
         \/ AttachInvalid(c, i, e, h)
    \/ Install(c)
    \/ BaselineSent(c)
    \/ BaselineFailed(c)
    \/ \E i \in Ids : Detach(c, i)
    \/ \E i \in Ids, t \in Tokens : CancelHandoff(c, i, t)

KillStep(c) ==
    \/ \E i \in Ids, e \in Gens : KillRelease(c, i, e)
    \/ KillTake(c)

StartStep(c) ==
    \/ \E i \in Ids, restart \in BOOLEAN : StartOrdinary(c, i, restart)
    \/ \E i \in Ids, o \in OpTokens :
         \/ ReserveStart(c, i, o)
         \/ \E p \in Preconditions : StartApplied(c, i, o, p)
         \/ StartRefusedReserved(c, i, o)
         \/ StartAnswered(c, i, o)
         \/ \E e \in Gens \cup {NoGen} : RetireStart(c, i, o, e)

ClientStep(c) == Disconnect(c) \/ AttachStep(c) \/ KillStep(c) \/ StartStep(c)

Next ==
    \/ \E c \in Clients : Accept(c) \/ ClientStep(c)
    \/ \E g \in Gens : ChildExit(g)

Spec == Init /\ [][Next]_vars

-----------------------------------------------------------------------------
(* Properties. *)

Holders(g) == {c \in Clients : \E i \in Ids : att[c][i].gen = g}
Installing(g) == {c \in Clients : conn[c] = "install" /\ req[c].gen = g}

\* The fence's counter is exact: active_guards of a Session is the number of
\* connections that really hold a guard on it, across repeated Attach
\* requests, handoffs, own kills and connection loss.  One guard too many
\* pins the Session for ever; one too few lets Kill or a restart take it from
\* under a client.
GuardCountExact ==
    \A g \in Gens :
      guards[g] = Cardinality(Holders(g)) + Cardinality(Installing(g))

\* A Session somebody holds a guard on is the Session mapped under its id: no
\* Kill, restart or capacity eviction removes or replaces it meanwhile.
GuardedSessionMapped ==
    \A g \in Gens : Holders(g) \cup Installing(g) # {} =>
      home[g] \in Ids /\ mapped[home[g]] = g

\* A pending handoff offer belongs to a connection that is still there and
\* still holds the guard it offered the token with ("a raw token never
\* outlives its owner socket"), and its Session is still mapped.
PendingOwnerPresent ==
    \A g \in Gens, t \in Tokens : pending[g][t] # None =>
      /\ home[g] \in Ids /\ mapped[home[g]] = g
      /\ LET c == pending[g][t] IN
           \/ att[c][home[g]] = [gen |-> g, offered |-> t]
           \/ conn[c] = "install" /\ req[c].gen = g /\ req[c].offered = t

\* A token that can still be claimed is not one the replay fence remembers as
\* spent: a claimed, cancelled or detached offer is never claimable again
\* while the fence remembers it.
PendingNotRetired ==
    \A g \in Gens, t \in Tokens :
      pending[g][t] # None => ~ IsRetired(retired[g], t)

\* A start operation spawns at most one Session until its token is retired,
\* however often Start is replayed and by whichever connection, and the
\* ledger says exactly which Session that was.
OperationSpawnsOnce ==
    \A o \in OpTokens \ reopened : \A g \in Gens :
      origin[g] = o <=> ledger[o].st = "applied" /\ ledger[o].gen = g

\* A terminal ledger entry tells the truth about the generation it names,
\* also after that Session was removed or replaced.
AppliedEntryNamesSession ==
    \A o \in OpTokens : ledger[o].st = "applied" =>
      /\ ledger[o].gen \in Gens /\ ledger[o].gen < nextGen
      /\ origin[ledger[o].gen] = o /\ home[ledger[o].gen] = ledger[o].id

\* The four tables stay within their limits, replacement and eviction included.
TablesBounded ==
    /\ SessionCount <= MaxSessions
    /\ LedgerCount <= MaxLedger
    /\ \A g \in Gens : /\ Cardinality(PendingTokens(g)) <= MaxPending
                       /\ Len(retired[g]) <= MaxRetired

\* A running Session leaves the map only through a Kill that named its
\* generation; neither a start at capacity, nor a restart, nor a Kill issued
\* for an earlier Session under the same id ever takes it.
LiveSessionOnlyKilled ==
    [][\A i \in Ids :
         mapped[i] # NoGen /\ mapped[i] \notin exited /\ mapped'[i] # mapped[i] =>
           /\ mapped'[i] = NoGen
           /\ \E c \in Clients : /\ conn[c] = "kill" /\ req[c].id = i
                                 /\ req[c].gen = mapped[i]]_vars
=============================================================================
