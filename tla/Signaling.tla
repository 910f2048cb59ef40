------------------------------ MODULE Signaling ------------------------------
(***************************************************************************)
(* WebRTC signalling: the broker and the wake hub of hydra-cloud           *)
(* (signaling.ts, offer-wake.ts), the desktop agent's offer loop           *)
(* (hydra-agent remote_peer.rs) and the browser's progress loop            *)
(* (web-client webrtc-bridge.ts).                                          *)
(*                                                                         *)
(* The store is the only source of truth; a notification is a hint that    *)
(* makes a long poll look again.  Hints are dropped while the listener is  *)
(* down, HTTP answers are lost, clients give up and ask again while the    *)
(* request they left is still running.  One cloud replica; each await is a *)
(* step.  One desktop is the target of every session; a session has its    *)
(* own browser.  The store and its notifications are external: their       *)
(* contract is signaling-ports.ts and the adapter of the broker's test.    *)
(***************************************************************************)
EXTENDS Naturals, Sequences, FiniteSets, SequencesExt

CONSTANTS
    Sess,          \* signalling sessions
    Desk,          \* the desktop's offer poll
    DeskSlots,     \* HTTP requests the desktop's poll can have open at once
    Slots,         \* HTTP requests a browser's poll can have open at once
    NoSlot,        \* no request
    Blobs,         \* the candidates: records of the party it comes from and the candidate
    MaxIce,        \* MAX_ICE_PER_SESSION
    Waked,         \* polls with a wake source: offerWake and progressWake are optional
    TotalLimit,    \* waiters in the hub
    PerKeyLimit,   \* waiters under one key
    MaxServes,     \* MAX_CONCURRENT_SERVES
    MaxPosts,      \* bound: candidate posts in flight per session
    MaxFaults      \* bound: lost answers, listener losses, cancellations, expiries

Polls   == {Desk} \cup Sess
SlotsOf(k) == IF k = Desk THEN DeskSlots ELSE Slots
Reqs    == {r \in Polls \X (DeskSlots \cup Slots) : r[2] \in SlotsOf(r[1])}
ReqsOf(k) == {k} \X SlotsOf(k)
Parties == {"browser", "desktop"}
Peer(p) == IF p = "browser" THEN "desktop" ELSE "browser"

ASSUME SignalingAssumption ==
    /\ Desk \notin Sess /\ Waked \subseteq Polls /\ NoSlot \notin DeskSlots \cup Slots
    /\ MaxIce \in Nat /\ MaxServes \in Nat \ {0} /\ MaxFaults \in Nat /\ MaxPosts \in Nat
    /\ TotalLimit \in Nat \ {0} /\ PerKeyLimit \in Nat \ {0}
    /\ IsFiniteSet(Sess) /\ IsFiniteSet(Slots) /\ IsFiniteSet(DeskSlots) /\ IsFiniteSet(Blobs)
    /\ \A b \in Blobs : DOMAIN b = {"from", "cand"} /\ b.from \in Parties

VARIABLES
    status,       \* the session's row: its status ...
    over,         \* ... whether expiresAtMs has passed
    ice,          \* ... and its candidates; the sequence number is the index
    answering,    \* answers whose liveness check has passed, not yet written
    posting,      \* candidates whose liveness check has passed
    notes,        \* keys with notifications on their way
    available,    \* the hub: is the listener up
    waiting,      \* the hub: registered waiters
    waiterCount,  \* the hub: how many it believes there are
    req,          \* the open requests
    asked,        \* the request each client listens to, if any
    handled,      \* the desktop's BoundedSeen
    serving,      \* sessions the desktop serves
    answerSeen,   \* browsers that have installed the answer
    stopped,      \* browsers that poll no more: attempt over, or channel open
    cursor,       \* per session and party, the candidate cursor ...
    got,          \* ... and the candidates taken in
    faults

storeVars  == <<status, over, ice, answering, posting>>
hubVars    == <<available, waiting, waiterCount>>
clientVars == <<asked, handled, serving, answerSeen, stopped, cursor, got>>
vars == <<storeVars, notes, hubVars, req, clientVars, faults>>

Idle     == [pc |-> "idle", sub |-> FALSE, out |-> "none", last |-> FALSE,
             since |-> 0, seen |-> FALSE]
Requests == [pc : {"idle", "query", "wait", "final"}, sub : BOOLEAN,
             out : {"none", "hint", "other"},
             last : BOOLEAN, since : 0 .. MaxIce, seen : BOOLEAN]
Links    == Sess \X Parties

TypeOK ==
    /\ status \in [Sess -> {"none", "pending", "answered", "cancelled", "expired"}]
    /\ over \in SUBSET Sess
    /\ \A s \in Sess : ToSet(ice[s]) \subseteq Blobs /\ Len(ice[s]) <= MaxIce
    /\ answering \in SUBSET Sess /\ posting \in SUBSET (Sess \X Blobs)
    /\ notes \in SUBSET Polls
    /\ available \in BOOLEAN /\ waiting \in SUBSET Reqs /\ waiterCount \in Nat
    /\ req \in [Reqs -> Requests]
    /\ asked \in [Polls -> DeskSlots \cup Slots \cup {NoSlot}]
    /\ handled \in SUBSET Sess /\ serving \in SUBSET handled
    /\ answerSeen \in SUBSET Sess /\ stopped \in SUBSET Sess
    /\ cursor \in [Links -> 0 .. MaxIce]
    /\ \A l \in Links : ToSet(got[l]) \subseteq Blobs
    /\ faults \in 0 .. MaxFaults

Init ==
    /\ status = [s \in Sess |-> "none"]
    /\ over = {}
    /\ ice = [s \in Sess |-> << >>]
    /\ answering = {}
    /\ posting = {}
    /\ notes = {}
    /\ available \in BOOLEAN
    /\ waiting = {}
    /\ waiterCount = 0
    /\ req = [r \in Reqs |-> Idle]
    /\ asked = [k \in Polls |-> NoSlot]
    /\ handled = {}
    /\ serving = {}
    /\ answerSeen = {}
    /\ stopped = {}
    /\ cursor = [l \in Links |-> 0]
    /\ got = [l \in Links |-> << >>]
    /\ faults = 0

Fault == faults < MaxFaults /\ faults' = faults + 1

-----------------------------------------------------------------------------
(* The store (external).  A commit notifies the keys it may matter to; the *)
(* notification is dropped when nobody listens.                            *)

Notify(k) == notes' = IF available THEN notes \cup {k} ELSE notes

\* requireLive
Live(s) == status[s] \in {"pending", "answered"} /\ s \notin over

\* A set of sequence numbers in ascending order.
InOrder(I) ==
    CHOOSE q \in [1 .. Cardinality(I) -> I] :
        \A i, j \in 1 .. Cardinality(I) : i < j => q[i] < q[j]

\* getPeerIceSince: the peer's candidates after a sequence number, in order.
PeerRows(s, p, since) == {i \in (since + 1) .. Len(ice[s]) : ice[s][i].from = Peer(p)}
PeerIce(s, p, since) ==
    LET rows  == PeerRows(s, p, since)
        order == InOrder(rows)
    IN  [i \in 1 .. Cardinality(rows) |-> ice[s][order[i]]]

-----------------------------------------------------------------------------
(* The broker's plain operations. *)

\* createSession, called by the browser of the session.
CreateSession(s) ==
    /\ status[s] = "none"
    /\ status' = [status EXCEPT ![s] = "pending"]
    /\ Notify(Desk)
    /\ UNCHANGED <<over, ice, answering, posting, hubVars, req, clientVars, faults>>

\* answer and addIce read the header, check it and then write: between the
\* two another request may cancel the session or find it expired.  An answer
\* may be posted again.
CheckAnswer(s) ==
    /\ s \in serving /\ s \notin answering /\ Live(s)
    /\ answering' = answering \cup {s}
    /\ UNCHANGED <<status, over, ice, posting, notes, hubVars, req, clientVars, faults>>

\* setAnswer
WriteAnswer(s) ==
    /\ s \in answering
    /\ answering' = answering \ {s}
    /\ status' = [status EXCEPT ![s] = "answered"]
    /\ Notify(s)
    /\ UNCHANGED <<over, ice, posting, hubVars, req, clientVars, faults>>

\* Candidate posts are retried when a response is lost (flushLocalIce in
\* webrtc-bridge.ts expects that to duplicate a candidate; the row's tuple is
\* the same, and appendIce does not).
CheckIce(s, b) ==
    /\ b.from = "desktop" => s \in serving
    /\ Live(s) /\ <<s, b>> \notin posting
    /\ Cardinality({x \in posting : x[1] = s}) < MaxPosts
    /\ posting' = posting \cup {<<s, b>>}
    /\ UNCHANGED <<status, over, ice, answering, notes, hubVars, req, clientVars, faults>>

\* appendIce: the duplicate check, the quota and the sequence are one step.
WriteIce(s, b) ==
    /\ <<s, b>> \in posting
    /\ posting' = posting \ {<<s, b>>}
    /\ IF b \notin ToSet(ice[s]) /\ Len(ice[s]) < MaxIce
       THEN ice' = [ice EXCEPT ![s] = Append(@, b)] /\ Notify(s)
       ELSE UNCHANGED <<ice, notes>>
    /\ UNCHANGED <<status, over, answering, hubVars, req, clientVars, faults>>

\* requireLive refuses an answer, a candidate post or a candidate read that
\* comes too late, and writes 'expired'.
RefuseExpired(s) ==
    /\ s \in over /\ status[s] \in {"pending", "answered"}
    /\ status' = [status EXCEPT ![s] = "expired"]
    /\ UNCHANGED <<over, ice, answering, posting, notes, hubVars, req, clientVars, faults>>

\* cancel, by either party, whatever the status.  A browser whose attempt is
\* over asks for it itself (teardown).
Cancel(s) ==
    /\ status[s] # "none"
    /\ Fault \/ (s \in stopped /\ UNCHANGED faults)
    /\ status' = [status EXCEPT ![s] = "cancelled"]
    /\ Notify(s)
    /\ UNCHANGED <<over, ice, answering, posting, hubVars, req, clientVars>>

\* expiresAtMs passes; the next read that meets it writes 'expired'.
TimeToLive(s) ==
    /\ status[s] # "none" /\ s \notin over /\ Fault
    /\ over' = over \cup {s}
    /\ UNCHANGED <<status, ice, answering, posting, notes, hubVars, req, clientVars>>

\* Mutation: the cursor counts the candidates instead of their sequence.
MutFetchIce(s) ==
    /\ s \in serving /\ Live(s)
    /\ got' = [got EXCEPT ![<<s, "desktop">>] = @ \o PeerIce(s, "desktop", cursor[<<s, "desktop">>])]
    /\ cursor' = [cursor EXCEPT ![<<s, "desktop">>] = Len(got'[<<s, "desktop">>])]
    /\ UNCHANGED <<storeVars, notes, hubVars, req, asked, handled, serving, answerSeen, stopped,
                   faults>>

\* iceSince and the desktop's admission of the batch: the cursor moves to the
\* highest sequence of both parties.
FetchIce(s) ==
    /\ s \in serving /\ Live(s)
    /\ got' = [got EXCEPT ![<<s, "desktop">>] = @ \o PeerIce(s, "desktop", cursor[<<s, "desktop">>])]
    /\ cursor' = [cursor EXCEPT ![<<s, "desktop">>] = Len(ice[s])]
    /\ UNCHANGED <<storeVars, notes, hubVars, req, asked, handled, serving, answerSeen, stopped,
                   faults>>

-----------------------------------------------------------------------------
(* The wake hub (BoundedSignalingWakeHub). *)

\* settle: a waiter is resolved once and leaves the hub.  Callers treat every
\* outcome but a hint alike: timeout and unavailable are "other".
Settle(rs, out) ==
    /\ req' = [r \in Reqs |-> IF r \in rs \cap waiting THEN [req[r] EXCEPT !.out = out]
                              ELSE req[r]]
    /\ waiting' = waiting \ rs
    /\ waiterCount' = waiterCount - Cardinality(rs \cap waiting)

\* publish, on a notification: every current waiter of the key.  More of the
\* same key may follow.
Publish(k) ==
    /\ k \in notes
    /\ notes' \in {notes, notes \ {k}}
    /\ Settle(ReqsOf(k), "hint")
    /\ UNCHANGED <<storeVars, available, clientVars, faults>>

\* Mutation: waiters survive the loss of the listener.
MutListenerLost ==
    /\ available /\ Fault
    /\ available' = FALSE
    /\ notes' = {}
    /\ UNCHANGED <<storeVars, waiting, waiterCount, req, clientVars>>

\* markUnavailable: the listener is lost, with what was on its way, and every
\* waiter is released to fall back on its own query.
ListenerLost ==
    /\ available /\ Fault
    /\ available' = FALSE
    /\ notes' = {}
    /\ Settle(Reqs, "other")
    /\ UNCHANGED <<storeVars, clientVars>>

\* markAvailable
ListenerBack ==
    /\ ~ available
    /\ available' = TRUE
    /\ UNCHANGED <<storeVars, notes, waiting, waiterCount, req, clientVars, faults>>

\* Mutation: the wait has no timer of its own.
MutTimerFires(r) ==
    /\ r \in waiting /\ ~ available
    /\ Settle({r}, "other")
    /\ UNCHANGED <<storeVars, notes, available, clientVars, faults>>

\* The timer of wait().
TimerFires(r) ==
    /\ r \in waiting
    /\ Settle({r}, "other")
    /\ UNCHANGED <<storeVars, notes, available, clientVars, faults>>

\* Mutation: an aborted request keeps its place until it ends.
MutAborted(r) ==
    /\ req[r].pc # "idle" /\ asked[r[1]] # r[2]
    /\ req' = [req EXCEPT ![r] = Idle]
    /\ UNCHANGED <<storeVars, notes, hubVars, clientVars, faults>>

\* The HTTP connection of a request nobody listens to is seen to be gone: the
\* waiter is released at once, whatever the request is doing.
Aborted(r) ==
    /\ req[r].pc # "idle" /\ asked[r[1]] # r[2]
    /\ req' = [req EXCEPT ![r] = Idle]
    /\ waiting' = waiting \ {r}
    /\ waiterCount' = waiterCount - Cardinality(waiting \cap {r})
    /\ UNCHANGED <<storeVars, notes, available, clientVars, faults>>

-----------------------------------------------------------------------------
(* Long polls: pendingForTargetWait and progressWait. *)

HasRoom(k) ==
    /\ waiterCount < TotalLimit
    /\ Cardinality(waiting \cap ReqsOf(k)) < PerKeyLimit

\* The head of the loop: subscribe and start the wait, then read the store.
\* Without a wake source there is one plain read; a refused registration and
\* a deadline that has passed leave no waiter.
Subscribe(r, q) ==
    LET sub == r[1] \in Waked /\ available /\ HasRoom(r[1])
        on  == sub /\ ~ q.last IN
    /\ req' = [req EXCEPT ![r] = [q EXCEPT !.pc = "query", !.sub = sub,
                                           !.out = IF on THEN "none" ELSE "other"]]
    /\ waiting' = IF on THEN waiting \cup {r} ELSE waiting
    /\ waiterCount' = IF on THEN waiterCount + 1 ELSE waiterCount

\* A client starts its next poll.
Poll(k, i) ==
    LET r == <<k, i>> IN
    /\ asked[k] = NoSlot /\ req[r].pc = "idle"
    /\ k \in Sess => status[k] # "none" /\ k \notin stopped
    /\ asked' = [asked EXCEPT ![k] = i]
    /\ Subscribe(r, IF k = Desk THEN Idle
                    ELSE [Idle EXCEPT !.since = cursor[<<k, "browser">>],
                                      !.seen = k \in answerSeen])
    /\ UNCHANGED <<storeVars, notes, available, handled, serving, answerSeen, stopped, cursor,
                   got, faults>>

\* What the query of a poll would return now.
Offers == {s \in Sess : status[s] = "pending" /\ s \notin over}
Delta(r) ==
    IF r[1] = Desk THEN Offers # {}
    ELSE \/ ~ Live(r[1])
         \/ status[r[1]] = "answered" /\ ~ req[r].seen
         \/ Len(ice[r[1]]) > req[r].since

\* The desktop takes an offer it has not handled yet, if it may serve more.
TakeOffer(found) ==
    \/ /\ Cardinality(serving) < MaxServes
       /\ \E s \in found \ handled :
            handled' = handled \cup {s} /\ serving' = serving \cup {s}
    \/ /\ Cardinality(serving) >= MaxServes \/ found \subseteq handled
       /\ UNCHANGED <<handled, serving>>

\* The browser installs an answer it did not have and admits the candidates
\* of the snapshot; told that the session is dead, it fails the attempt.
TakeProgress(s, since, seen) ==
    IF Live(s)
    THEN /\ answerSeen' = IF status[s] = "answered" /\ ~ seen THEN answerSeen \cup {s}
                          ELSE answerSeen
         /\ got' = [got EXCEPT ![<<s, "browser">>] = @ \o PeerIce(s, "browser", since)]
         /\ cursor' = [cursor EXCEPT ![<<s, "browser">>] = Len(ice[s])]
         /\ UNCHANGED stopped
    ELSE stopped' = stopped \cup {s} /\ UNCHANGED <<answerSeen, got, cursor>>

\* The request ends with what was just read.  A client that gave up ignores
\* it; expire-on-read has been written.
Respond(r) ==
    /\ req' = [req EXCEPT ![r] = Idle]
    /\ waiting' = waiting \ {r}
    /\ waiterCount' = waiterCount - Cardinality(waiting \cap {r})
    /\ IF asked[r[1]] = r[2]
       THEN /\ asked' = [asked EXCEPT ![r[1]] = NoSlot]
            /\ \/ /\ r[1] = Desk /\ TakeOffer(Offers)
                  /\ UNCHANGED <<answerSeen, stopped, got, cursor>>
               \/ /\ r[1] \in Sess /\ TakeProgress(r[1], req[r].since, req[r].seen)
                  /\ UNCHANGED <<handled, serving>>
       ELSE UNCHANGED clientVars

Final(q) == [Idle EXCEPT !.pc = "final", !.since = q.since, !.seen = q.seen]

ExpireOnRead(r) ==
    status' = IF r[1] \in over /\ status[r[1]] \in {"pending", "answered"}
              THEN [status EXCEPT ![r[1]] = "expired"] ELSE status

\* The read of one round: return it, or wait if there is nothing new.
Query(r) ==
    /\ req[r].pc = "query"
    /\ ExpireOnRead(r)
    /\ IF Delta(r) \/ ~ req[r].sub \/ (req[r].last /\ r[1] = Desk)
       THEN Respond(r)
       ELSE /\ req' = [req EXCEPT ![r] = IF req[r].last THEN Final(@) ELSE [@ EXCEPT !.pc = "wait"]]
            /\ UNCHANGED <<waiting, waiterCount, clientVars>>
    /\ UNCHANGED <<over, ice, answering, posting, notes, available, faults>>

\* The wait is settled: subscribe again on a hint; otherwise the offer poll
\* returns nothing and the progress poll reads a last time.
Wake(r) ==
    /\ req[r].pc = "wait" /\ req[r].out # "none"
    /\ \/ /\ req[r].out = "hint"
          /\ \E last \in BOOLEAN : Subscribe(r, [req[r] EXCEPT !.last = last])
          /\ UNCHANGED clientVars
       \/ /\ req[r].out # "hint" /\ r[1] = Desk
          /\ req' = [req EXCEPT ![r] = Idle]
          /\ asked' = IF asked[Desk] = r[2] THEN [asked EXCEPT ![Desk] = NoSlot] ELSE asked
          /\ UNCHANGED <<waiting, waiterCount, handled, serving, answerSeen, stopped, cursor,
                         got>>
       \/ /\ req[r].out # "hint" /\ r[1] # Desk
          /\ req' = [req EXCEPT ![r] = Final(@)]
          /\ UNCHANGED <<waiting, waiterCount, clientVars>>
    /\ UNCHANGED <<storeVars, notes, available, faults>>

FinalRead(r) ==
    /\ req[r].pc = "final"
    /\ ExpireOnRead(r)
    /\ Respond(r)
    /\ UNCHANGED <<over, ice, answering, posting, notes, available, faults>>

\* Mutation: a client has no timer for an answer that does not come.
MutGiveUp(k) ==
    /\ asked[k] # NoSlot /\ Fault
    /\ req' = [req EXCEPT ![<<k, asked[k]>>] = Idle]
    /\ waiting' = waiting \ {<<k, asked[k]>>}
    /\ waiterCount' = waiterCount - Cardinality(waiting \cap {<<k, asked[k]>>})
    /\ UNCHANGED <<storeVars, notes, available, clientVars>>

\* The answer to a poll is lost, or the client's own timer fires: it polls
\* again while the request goes on.
GiveUp(k) ==
    /\ asked[k] # NoSlot /\ Fault
    /\ asked' = [asked EXCEPT ![k] = NoSlot]
    /\ UNCHANGED <<storeVars, notes, hubVars, req, handled, serving, answerSeen, stopped, cursor,
                         got>>

\* The browser's DataChannel opens; or its attempt ends, by a deadline, an
\* answer that does not verify or the user, with the poll it has open.
StopPolling(s) ==
    /\ status[s] # "none" /\ s \notin stopped
    /\ IF s \in answerSeen THEN UNCHANGED faults ELSE Fault
    /\ stopped' = stopped \cup {s}
    /\ asked' = [asked EXCEPT ![s] = NoSlot]
    /\ UNCHANGED <<storeVars, notes, hubVars, req, handled, serving, answerSeen, cursor, got>>

\* serve_session ends, at any point, and its ServingSlot is released.
ServeEnds(s) ==
    /\ s \in serving
    /\ serving' = serving \ {s}
    /\ UNCHANGED <<storeVars, notes, hubVars, req, asked, handled, answerSeen, stopped, cursor,
                   got, faults>>

-----------------------------------------------------------------------------
Next ==
    \/ \E s \in Sess :
         \/ CreateSession(s) \/ CheckAnswer(s) \/ WriteAnswer(s) \/ Cancel(s)
         \/ TimeToLive(s) \/ RefuseExpired(s) \/ FetchIce(s) \/ StopPolling(s) \/ ServeEnds(s)
         \/ \E b \in Blobs : CheckIce(s, b) \/ WriteIce(s, b)
    \/ \E k \in Polls : Publish(k) \/ GiveUp(k) \/ \E i \in SlotsOf(k) : Poll(k, i)
    \/ \E r \in Reqs : TimerFires(r) \/ Aborted(r) \/ Query(r) \/ Wake(r) \/ FinalRead(r)
    \/ ListenerLost \/ ListenerBack

Spec == Init /\ [][Next]_vars

\* Requests run, timers fire, lost connections are noticed and clients poll
\* again: the desktop for ever, a browser until it has stopped.
\* Nothing is assumed of the listener, of its hints or of the serve tasks.
Fairness ==
    /\ \A r \in Reqs : /\ WF_vars(Query(r)) /\ WF_vars(Wake(r)) /\ WF_vars(FinalRead(r))
                       /\ WF_vars(TimerFires(r)) /\ WF_vars(Aborted(r))
    /\ \A k \in Polls : WF_vars(\E i \in SlotsOf(k) : Poll(k, i))

FairSpec == Spec /\ Fairness

-----------------------------------------------------------------------------
(* Properties. *)

\* No missed wake: a poll that sleeps on an unsettled waiter although the
\* store has something for it has a notification on its way.  Subscribing
\* before every read, and releasing all waiters with the listener, is what
\* this rests on (offer-wake.ts, signaling.ts).
NoMissedWake ==
    \A r \in Reqs :
        req[r].pc = "wait" /\ req[r].out = "none" /\ Delta(r) /\ r[1] \notin over
            => r[1] \in notes

\* The hub's slots are exactly the polls that wait: none is leaked by an
\* abort, a lost listener or a finished request, none is released twice, and
\* the limits hold.
HubExact ==
    /\ waiting = {r \in Reqs : req[r].pc # "idle" /\ req[r].sub /\ req[r].out = "none"}
    /\ waiterCount = Cardinality(waiting)
    /\ waiterCount <= TotalLimit
    /\ \A k \in Polls : Cardinality(waiting \cap ReqsOf(k)) <= PerKeyLimit

\* Refinement: each direction of a session's candidates is a CandidateLink,
\* through retried posts, lost answers and overlapping polls (appendIce's
\* idempotency, and one cursor over both parties' candidates).
Link == INSTANCE CandidateLink WITH
    Candidates <- Blobs,
    accepted   <- [l \in Links |-> PeerIce(l[1], l[2], 0)],
    delivered  <- got

LinksDeliver == Link!Spec

\* An offer reaches the desktop's serve loop, hints or no hints, unless the
\* session dies first or every serve slot is taken.
OfferServed ==
    \A s \in Sess : status[s] = "pending" ~>
        (s \in handled \/ ~ Live(s) \/ Cardinality(serving) >= MaxServes)

\* An answer reaches the browser, unless the session dies or the browser's
\* attempt is over: hints may be lost, and so may the answers to its polls.
AnswerReachesBrowser ==
    \A s \in Sess : status[s] = "answered" ~> (s \in answerSeen \/ ~ Live(s) \/ s \in stopped)
=============================================================================
