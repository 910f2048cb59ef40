--------------------------- MODULE Signaling_proofs ---------------------------
(***************************************************************************)
(* Proofs about Signaling, for any sessions, request slots, limits and     *)
(* number of faults: the hub's slots are exactly the polls that wait, no   *)
(* poll sleeps on news without a hint on its way, and each direction of a  *)
(* session's candidates is a CandidateLink.                                *)
(***************************************************************************)
EXTENDS Signaling, FiniteSetTheorems, SequenceTheorems, WellFoundedInduction, TLAPS

ReqSet == [pc : {"idle", "query", "wait", "final"}, sub : BOOLEAN,
           out : {"none", "hint", "other"},
           last : BOOLEAN, since : Nat, seen : BOOLEAN]

(* Types: of the store, and of the requests. *)
StoreTyped ==
    /\ status \in [Sess -> {"none", "pending", "answered", "cancelled", "expired"}]
    /\ over \subseteq Sess
    /\ ice \in [Sess -> Seq(Blobs)]
    /\ cursor \in [Links -> Nat]
ReqTyped == req \in [Reqs -> ReqSet]

(* Why the hub is exact: a round at its deadline has no waiter, a request that *)
(* sleeps has subscribed, and nobody waits on a listener that is down.         *)
Waits(r) == req[r].pc # "idle" /\ req[r].sub /\ req[r].out = "none"
RoundsSettled ==
    \A r \in Reqs : /\ req[r].last => req[r].out # "none"
                    /\ req[r].pc = "wait" => req[r].sub
DownMeansNone == ~ available => waiting = {}

HubInv == HubExact /\ RoundsSettled /\ DownMeansNone
TypeInv == StoreTyped /\ ReqTyped

-----------------------------------------------------------------------------
(* The types. *)

\* There are finitely many requests.
LEMMA ReqsFinite == IsFiniteSet(Reqs) /\ \A k \in Polls : \A i \in SlotsOf(k) : <<k, i>> \in Reqs
<1>1. IsFiniteSet(Polls)
  BY FS_Singleton, FS_Union, SignalingAssumption DEF Polls
<1>2. IsFiniteSet(DeskSlots \cup Slots)
  BY FS_Union, SignalingAssumption
<1>3. IsFiniteSet(Polls \X (DeskSlots \cup Slots))
  BY <1>1, <1>2, FS_Product
<1>4. Reqs \subseteq Polls \X (DeskSlots \cup Slots)
  BY DEF Reqs
<1>5. \A k \in Polls : \A i \in SlotsOf(k) : <<k, i>> \in Reqs
  BY DEF Reqs, SlotsOf
<1> QED
  BY <1>3, <1>4, <1>5, FS_Subset

\* A request is one of its own poll's, and of no other.
LEMMA ReqsByPoll ==
    ASSUME NEW r \in Reqs
    PROVE  /\ r[1] \in Polls /\ r[2] \in SlotsOf(r[1]) /\ r = <<r[1], r[2]>>
           /\ \A k \in Polls : r \in ReqsOf(k) <=> r[1] = k
BY DEF Reqs, ReqsOf

\* Records of requests.
LEMMA RequestShapes ==
    /\ Idle \in ReqSet /\ ~ Idle.sub /\ Idle.pc = "idle" /\ ~ Idle.last /\ Idle.out = "none"
    /\ \A q \in ReqSet : /\ Final(q) \in ReqSet /\ ~ Final(q).sub /\ Final(q).pc = "final"
                         /\ ~ Final(q).last
    /\ \A n \in Nat, b \in BOOLEAN : [Idle EXCEPT !.since = n, !.seen = b] \in ReqSet
BY DEF Idle, Final, ReqSet

\* What subscribing makes of a request.
LEMMA SubscribedShape ==
    ASSUME ReqTyped, NEW r \in Reqs, NEW q \in ReqSet, Subscribe(r, q)
    PROVE  \E s \in BOOLEAN : \E x \in ReqSet :
             LET on == s /\ ~ q.last IN
             /\ s => available /\ HasRoom(r[1])
             /\ req' = [req EXCEPT ![r] = x]
             /\ x.pc = "query" /\ x.sub = s /\ x.last = q.last
             /\ x.out = IF on THEN "none" ELSE "other"
             /\ waiting' = IF on THEN waiting \cup {r} ELSE waiting
             /\ waiterCount' = IF on THEN waiterCount + 1 ELSE waiterCount
<1> DEFINE s == r[1] \in Waked /\ available /\ HasRoom(r[1])
           on == s /\ ~ q.last
           o  == IF on THEN "none" ELSE "other"
           x == [q EXCEPT !.pc = "query", !.sub = s, !.out = o]
<1>1. s \in BOOLEAN
  BY Zenon
<1>2. /\ req' = [req EXCEPT ![r] = x]
      /\ waiting' = IF on THEN waiting \cup {r} ELSE waiting
      /\ waiterCount' = IF on THEN waiterCount + 1 ELSE waiterCount
  BY DEF Subscribe
<1>3. s => available /\ HasRoom(r[1])
  OBVIOUS
<1> HIDE DEF s
<1>4. x \in ReqSet /\ x.pc = "query" /\ x.sub = s /\ x.last = q.last /\ x.out = o
  BY <1>1 DEF ReqSet
<1> HIDE DEF x
<1> QED
  BY <1>1, <1>2, <1>3, <1>4

-----------------------------------------------------------------------------
(* The ways in which a step moves requests and the hub. *)

KeepsHub == UNCHANGED <<req, waiting, waiterCount>> /\ available' \in {available, TRUE}
SettlesHub ==
    \E out \in {"hint", "other"} : \E rs :
        Settle(rs, out) /\ (available' = available \/ rs = Reqs)
Ends(r) ==
    /\ req' = [req EXCEPT ![r] = Idle]
    /\ waiting' = waiting \ {r}
    /\ waiterCount' = waiterCount - Cardinality(waiting \cap {r})
    /\ available' = available
LastRound(r) ==
    /\ req[r].last \/ req[r].out # "none"
    /\ \E q \in {Idle, Final(req[r])} : req' = [req EXCEPT ![r] = q]
    /\ UNCHANGED hubVars
Sleeps(r) ==
    /\ Query(r) /\ ~ Delta(r)
    /\ req[r].pc = "query" /\ req[r].sub
    /\ req' = [req EXCEPT ![r] = [@ EXCEPT !.pc = "wait"]]
    /\ UNCHANGED hubVars
Subscribes(r) ==
    /\ req[r].pc = "idle" \/ req[r].out # "none"
    /\ \E q \in ReqSet : Subscribe(r, q)
    /\ available' = available

\* Every step is one of them.
LEMMA HubSteps ==
    ASSUME TypeInv, [Next]_vars
    PROVE  \/ KeepsHub \/ SettlesHub
           \/ \E r \in Reqs : Ends(r) \/ LastRound(r) \/ Sleeps(r) \/ Subscribes(r)
<1>1. req \in [Reqs -> ReqSet] /\ cursor \in [Links -> Nat]
  BY DEF TypeInv, ReqTyped, StoreTyped
<1>2. CASE UNCHANGED vars \/ ListenerBack
  BY <1>2 DEF vars, hubVars, ListenerBack, KeepsHub
<1>3. CASE \E s \in Sess : \/ CreateSession(s) \/ CheckAnswer(s) \/ WriteAnswer(s) \/ Cancel(s)
                           \/ TimeToLive(s) \/ RefuseExpired(s) \/ FetchIce(s) \/ StopPolling(s)
                           \/ ServeEnds(s)
                           \/ \E b \in Blobs : CheckIce(s, b) \/ WriteIce(s, b)
  BY <1>3 DEF CreateSession, CheckAnswer, WriteAnswer, Cancel, TimeToLive, RefuseExpired, FetchIce,
              StopPolling, ServeEnds, CheckIce, WriteIce, hubVars, KeepsHub
<1>4. CASE \E k \in Polls : GiveUp(k)
  BY <1>4 DEF GiveUp, hubVars, KeepsHub
<1>5. CASE \E k \in Polls : Publish(k)
  BY <1>5 DEF Publish, SettlesHub
<1>6. CASE ListenerLost \/ \E r \in Reqs : TimerFires(r)
  BY <1>6 DEF ListenerLost, TimerFires, SettlesHub
<1>7. CASE \E r \in Reqs : Aborted(r)
  BY <1>7 DEF Aborted, Ends
<1>8. CASE \E k \in Polls : \E i \in SlotsOf(k) : Poll(k, i)
  <2>1. PICK k \in Polls : \E i \in SlotsOf(k) : Poll(k, i)
    BY <1>8
  <2>2. PICK i \in SlotsOf(k) : Poll(k, i)
    BY <2>1
  <2> DEFINE r == <<k, i>>
             q == IF k = Desk THEN Idle
                  ELSE [Idle EXCEPT !.since = cursor[<<k, "browser">>], !.seen = k \in answerSeen]
  <2>3. r \in Reqs
    BY ReqsFinite
  <2>4. req[r].pc = "idle" /\ Subscribe(r, q) /\ available' = available
    BY <2>2 DEF Poll
  <2>5. q \in ReqSet
    <3>1. CASE k = Desk
      BY <3>1, RequestShapes
    <3>2. CASE k # Desk
      <4>1. <<k, "browser">> \in Links
        BY <3>2 DEF Polls, Links, Parties
      <4>2. cursor[<<k, "browser">>] \in Nat /\ (k \in answerSeen) \in BOOLEAN
        BY <1>1, <4>1
      <4> QED
        BY <3>2, <4>2, RequestShapes
    <3> QED
      BY <3>1, <3>2
  <2> QED
    BY <2>3, <2>4, <2>5 DEF Subscribes
<1>9. CASE \E r \in Reqs : Query(r)
  <2>1. PICK r \in Reqs : Query(r)
    BY <1>9
  <2>2. CASE Respond(r)
    <3>1. available' = available
      BY <2>1 DEF Query
    <3> QED
      BY <2>2, <3>1 DEF Respond, Ends
  <2>3. CASE ~ (Delta(r) \/ ~ req[r].sub \/ (req[r].last /\ r[1] = Desk))
    <3>1. /\ req' = [req EXCEPT ![r] = IF req[r].last THEN Final(@) ELSE [@ EXCEPT !.pc = "wait"]]
          /\ UNCHANGED hubVars /\ req[r].pc = "query" /\ req[r].sub
      BY <2>1, <2>3 DEF Query, hubVars
    <3>2. CASE req[r].last
      BY <3>1, <3>2 DEF LastRound
    <3>3. CASE ~ req[r].last
      BY <2>1, <2>3, <3>1, <3>3 DEF Sleeps
    <3> QED
      BY <3>2, <3>3
  <2> QED
    BY <2>1, <2>2, <2>3 DEF Query
<1>10. CASE \E r \in Reqs : Wake(r)
  <2>1. PICK r \in Reqs : Wake(r)
    BY <1>10
  <2>2. req[r].out # "none" /\ available' = available /\ req[r] \in ReqSet
    BY <1>1, <2>1 DEF Wake
  <2>3. CASE \E last \in BOOLEAN : Subscribe(r, [req[r] EXCEPT !.last = last])
    <3>1. \A last \in BOOLEAN : [req[r] EXCEPT !.last = last] \in ReqSet
      BY <2>2 DEF ReqSet
    <3> QED
      BY <2>2, <2>3, <3>1 DEF Subscribes
  <2>4. CASE /\ req' \in {[req EXCEPT ![r] = Idle], [req EXCEPT ![r] = Final(@)]}
             /\ UNCHANGED <<waiting, waiterCount>>
    BY <2>2, <2>4 DEF LastRound, hubVars
  <2> QED
    BY <2>1, <2>3, <2>4 DEF Wake
<1>11. CASE \E r \in Reqs : FinalRead(r)
  BY <1>11 DEF FinalRead, Respond, Ends
<1> QED
  BY <1>2, <1>3, <1>4, <1>5, <1>6, <1>7, <1>8, <1>9, <1>10, <1>11 DEF Next

\* The requests keep their type.
LEMMA StepReqTyped == ASSUME TypeInv, [Next]_vars PROVE ReqTyped'
<1>1. req \in [Reqs -> ReqSet]
  BY DEF TypeInv, ReqTyped
<1>2. CASE KeepsHub
  BY <1>1, <1>2 DEF KeepsHub, ReqTyped
<1>3. CASE SettlesHub
  <2>1. PICK out \in {"hint", "other"} : \E rs : Settle(rs, out)
    BY <1>3 DEF SettlesHub
  <2>2. \A r \in Reqs : [req[r] EXCEPT !.out = out] \in ReqSet
    BY <1>1 DEF ReqSet
  <2> QED
    BY <1>1, <2>1, <2>2 DEF Settle, ReqTyped
<1>4. ASSUME NEW r \in Reqs, Ends(r) PROVE ReqTyped'
  BY <1>1, <1>4, RequestShapes DEF Ends, ReqTyped
<1>5. ASSUME NEW r \in Reqs, LastRound(r) PROVE ReqTyped'
  BY <1>1, <1>5, RequestShapes DEF LastRound, ReqTyped
<1>6. ASSUME NEW r \in Reqs, Sleeps(r) PROVE ReqTyped'
  <2>1. [req[r] EXCEPT !.pc = "wait"] \in ReqSet
    BY <1>1 DEF ReqSet
  <2> QED
    BY <1>1, <1>6, <2>1 DEF Sleeps, ReqTyped
<1>7. ASSUME NEW r \in Reqs, Subscribes(r) PROVE ReqTyped'
  <2>1. \E x \in ReqSet : req' = [req EXCEPT ![r] = x]
    BY <1>7, SubscribedShape DEF Subscribes, TypeInv
  <2> QED
    BY <1>1, <2>1 DEF ReqTyped
<1> QED
  BY <1>2, <1>3, <1>4, <1>5, <1>6, <1>7, HubSteps

\* The store and the cursors keep theirs.
LEMMA StepStoreTyped == ASSUME TypeInv, [Next]_vars PROVE StoreTyped'
<1> DEFINE St == {"none", "pending", "answered", "cancelled", "expired"}
<1>1. status \in [Sess -> St] /\ over \subseteq Sess /\ ice \in [Sess -> Seq(Blobs)]
      /\ cursor \in [Links -> Nat]
  BY DEF TypeInv, StoreTyped
<1>2. \A s \in Sess : Len(ice[s]) \in Nat
  BY <1>1, LenProperties
<1>3. CASE UNCHANGED <<status, over, ice, cursor>>
  BY <1>1, <1>3 DEF StoreTyped
<1>4. CASE \E s \in Sess : \/ CreateSession(s) \/ WriteAnswer(s) \/ Cancel(s) \/ TimeToLive(s)
                           \/ CheckAnswer(s) \/ RefuseExpired(s) \/ StopPolling(s) \/ ServeEnds(s)
  <2>1. ice' = ice /\ cursor' = cursor
    BY <1>4 DEF CreateSession, WriteAnswer, Cancel, TimeToLive, CheckAnswer, RefuseExpired,
                StopPolling, ServeEnds, clientVars, storeVars
  <2>2. over' \subseteq Sess
    BY <1>1, <1>4 DEF CreateSession, WriteAnswer, Cancel, TimeToLive, CheckAnswer,
                     RefuseExpired, StopPolling, ServeEnds, storeVars
  <2>3. status' = status \/ \E s \in Sess, x \in St : status' = [status EXCEPT ![s] = x]
    BY <1>4 DEF CreateSession, WriteAnswer, Cancel, TimeToLive, CheckAnswer, RefuseExpired,
                StopPolling, ServeEnds, storeVars
  <2> QED
    BY <1>1, <2>1, <2>2, <2>3 DEF StoreTyped
<1>5. CASE \E s \in Sess : \E b \in Blobs : CheckIce(s, b) \/ WriteIce(s, b)
  <2>1. UNCHANGED <<status, over, cursor>>
    BY <1>5 DEF CheckIce, WriteIce, clientVars
  <2>2. ice' = ice \/ \E s \in Sess, b \in Blobs : ice' = [ice EXCEPT ![s] = Append(@, b)]
    BY <1>5 DEF CheckIce, WriteIce
  <2>3. \A s \in Sess, b \in Blobs : Append(ice[s], b) \in Seq(Blobs)
    BY <1>1, AppendProperties
  <2>4. ice' \in [Sess -> Seq(Blobs)]
    BY <1>1, <2>2, <2>3
  <2> QED
    BY <1>1, <2>1, <2>4 DEF StoreTyped
<1>6. CASE \E s \in Sess : FetchIce(s)
  <2>1. PICK s \in Sess : FetchIce(s)
    BY <1>6
  <2>2. UNCHANGED <<status, over, ice>> /\ cursor' = [cursor EXCEPT ![<<s, "desktop">>] = Len(ice[s])]
    BY <2>1 DEF FetchIce, storeVars
  <2>3. cursor' \in [Links -> Nat]
    BY <1>1, <1>2, <2>2
  <2> QED
    BY <1>1, <2>2, <2>3 DEF StoreTyped
<1>7. ASSUME NEW r \in Reqs, Respond(r)
      PROVE  cursor' \in [Links -> Nat]
  <2>1. CASE cursor' = cursor
    BY <1>1, <2>1
  <2>2. CASE r[1] \in Sess /\ cursor' = [cursor EXCEPT ![<<r[1], "browser">>] = Len(ice[r[1]])]
    BY <1>1, <1>2, <2>2
  <2> QED
    BY <1>7, <2>1, <2>2 DEF Respond, TakeProgress, clientVars
<1>8. ASSUME NEW r \in Reqs, ExpireOnRead(r)
      PROVE  status' \in [Sess -> St]
  BY <1>1, <1>8 DEF ExpireOnRead
<1>9. CASE \E r \in Reqs : Query(r) \/ FinalRead(r)
  <2>1. PICK r \in Reqs : Query(r) \/ FinalRead(r)
    BY <1>9
  <2>2. ExpireOnRead(r) /\ UNCHANGED <<over, ice>> /\ (Respond(r) \/ cursor' = cursor)
    BY <2>1 DEF Query, FinalRead, clientVars
  <2> QED
    BY <1>1, <1>7, <1>8, <2>2 DEF StoreTyped
<1>10. CASE \E k \in Polls : Publish(k) \/ GiveUp(k) \/ \E i \in SlotsOf(k) : Poll(k, i)
  <2>1. UNCHANGED <<status, over, ice, cursor>>
    BY <1>10 DEF Publish, GiveUp, Poll, storeVars, clientVars
  <2> QED
    BY <1>3, <2>1
<1>11. CASE \/ \E r \in Reqs : TimerFires(r) \/ Aborted(r) \/ Wake(r)
            \/ ListenerLost \/ ListenerBack \/ UNCHANGED vars
  <2>1. UNCHANGED <<status, over, ice, cursor>>
    BY <1>11 DEF TimerFires, Aborted, Wake, ListenerLost, ListenerBack, storeVars, clientVars, vars
  <2> QED
    BY <1>3, <2>1
<1> QED
  BY <1>4, <1>5, <1>6, <1>9, <1>10, <1>11 DEF Next

-----------------------------------------------------------------------------
(* The hub. *)

\* What the hub invariant says, in the form the cases use.
LEMMA HubMeans ==
    ASSUME TypeInv, HubInv
    PROVE  /\ waiting \subseteq Reqs /\ IsFiniteSet(waiting) /\ waiterCount = Cardinality(waiting)
           /\ Cardinality(waiting) \in Nat /\ waiterCount <= TotalLimit
           /\ \A r \in Reqs : r \in waiting <=> Waits(r)
           /\ \A k : Cardinality(waiting \cap ReqsOf(k)) \in Nat
           /\ \A k \in Polls : Cardinality(waiting \cap ReqsOf(k)) <= PerKeyLimit
<1>1. /\ waiting = {r \in Reqs : Waits(r)} /\ waiterCount = Cardinality(waiting)
      /\ waiterCount <= TotalLimit
      /\ \A k \in Polls : Cardinality(waiting \cap ReqsOf(k)) <= PerKeyLimit
  BY DEF HubInv, HubExact, Waits
<1>2. waiting \subseteq Reqs /\ \A r \in Reqs : r \in waiting <=> Waits(r)
  BY <1>1
<1>3. IsFiniteSet(waiting) /\ Cardinality(waiting) \in Nat
  BY <1>2, ReqsFinite, FS_Subset, FS_CardinalityType
<1>4. \A k : waiting \cap ReqsOf(k) \subseteq waiting
  OBVIOUS
<1>5. \A k : Cardinality(waiting \cap ReqsOf(k)) \in Nat
  BY <1>3, <1>4, FS_Subset, FS_CardinalityType
<1> QED
  BY <1>1, <1>2, <1>3, <1>5

\* Fewer waiters, exactly those that still wait.
LEMMA HubShrinks ==
    ASSUME TypeInv, HubInv, NEW rs,
           waiting' = waiting \ rs,
           waiterCount' = waiterCount - Cardinality(waiting \cap rs),
           \A r \in Reqs : r \in waiting' <=> Waits(r)'
    PROVE  HubExact'
<1>1. IsFiniteSet(waiting) /\ Cardinality(waiting') = Cardinality(waiting) - Cardinality(waiting \cap rs)
  BY HubMeans, FS_Difference
<1>2. waiting' = {r \in Reqs : Waits(r)'}
  BY HubMeans
<1>3. waiterCount' = Cardinality(waiting')
  BY <1>1, HubMeans
<1>4. ASSUME NEW S, NEW T, S \subseteq T, IsFiniteSet(T)
      PROVE  Cardinality(S) \in Nat /\ Cardinality(T) \in Nat /\ Cardinality(S) <= Cardinality(T)
  BY <1>4, FS_Subset, FS_CardinalityType
<1>5. waiterCount' <= TotalLimit
  BY <1>1, <1>3, <1>4, HubMeans, SignalingAssumption
<1>6. ASSUME NEW k \in Polls
      PROVE  Cardinality(waiting' \cap ReqsOf(k)) <= PerKeyLimit
  <2>1. waiting' \cap ReqsOf(k) \subseteq waiting \cap ReqsOf(k) /\ IsFiniteSet(waiting \cap ReqsOf(k))
    BY <1>1, FS_Subset
  <2>2. /\ Cardinality(waiting' \cap ReqsOf(k)) \in Nat /\ Cardinality(waiting \cap ReqsOf(k)) \in Nat
        /\ Cardinality(waiting' \cap ReqsOf(k)) <= Cardinality(waiting \cap ReqsOf(k))
    BY <1>4, <2>1
  <2>3. Cardinality(waiting \cap ReqsOf(k)) <= PerKeyLimit /\ PerKeyLimit \in Nat
    BY HubMeans, SignalingAssumption
  <2> QED
    BY <2>2, <2>3
<1>7. \A k \in Polls : Cardinality(waiting' \cap ReqsOf(k)') <= PerKeyLimit
  BY <1>6 DEF ReqsOf
<1> QED
  BY <1>2, <1>3, <1>5, <1>7 DEF HubExact, Waits

\* The same waiters.
LEMMA HubStays ==
    ASSUME TypeInv, HubInv, UNCHANGED <<waiting, waiterCount>>,
           \A r \in Reqs : Waits(r)' <=> Waits(r)
    PROVE  HubExact'
<1>1. waiting' = {r \in Reqs : Waits(r)'}
  BY HubMeans
<1> QED
  BY <1>1, HubMeans DEF HubExact, Waits

\* The hub stays exact.
LEMMA StepHub == ASSUME TypeInv, HubInv, [Next]_vars PROVE HubInv'
<1>1. req \in [Reqs -> ReqSet] /\ RoundsSettled /\ DownMeansNone
  BY DEF TypeInv, ReqTyped, HubInv
<1>2. CASE KeepsHub
  <2>1. UNCHANGED <<req, waiting, waiterCount>> /\ (available' = available \/ available' = TRUE)
    BY <1>2 DEF KeepsHub
  <2>2. HubExact'
    BY <2>1, HubStays DEF Waits
  <2> QED
    BY <1>1, <2>1, <2>2 DEF HubInv, RoundsSettled, DownMeansNone
<1>3. CASE SettlesHub
  <2>1. PICK out \in {"hint", "other"} : \E rs : Settle(rs, out) /\ (available' = available \/ rs = Reqs)
    BY <1>3 DEF SettlesHub
  <2>2. PICK rs : Settle(rs, out) /\ (available' = available \/ rs = Reqs)
    BY <2>1
  <2>3. /\ waiting' = waiting \ rs /\ waiterCount' = waiterCount - Cardinality(waiting \cap rs)
        /\ \A r \in Reqs : r \in rs \cap waiting => req'[r] = [req[r] EXCEPT !.out = out]
        /\ \A r \in Reqs : r \notin rs \cap waiting => req'[r] = req[r]
    <3>1. rs \cap waiting = waiting \cap rs
      OBVIOUS
    <3> QED
      BY <2>2, <3>1 DEF Settle
  <2>4. \A r \in Reqs : r \in rs \cap waiting => /\ req'[r].out = out /\ req'[r].sub = req[r].sub
                                                 /\ req'[r].pc = req[r].pc /\ req'[r].last = req[r].last
    <3> SUFFICES ASSUME NEW r \in Reqs, r \in rs \cap waiting
                 PROVE  /\ req'[r].out = out /\ req'[r].sub = req[r].sub
                        /\ req'[r].pc = req[r].pc /\ req'[r].last = req[r].last
      OBVIOUS
    <3>1. req'[r] = [req[r] EXCEPT !.out = out] /\ req[r] \in ReqSet
      BY <1>1, <2>3
    <3>2. req'[r].out = out /\ req'[r].pc = req[r].pc
      BY <3>1 DEF ReqSet
    <3>3. req'[r].sub = req[r].sub
      BY <3>1 DEF ReqSet
    <3>4. req'[r].last = req[r].last
      BY <3>1 DEF ReqSet
    <3> QED
      BY <3>2, <3>3, <3>4
  <2>5. \A r \in Reqs : r \in waiting' <=> Waits(r)'
    BY <2>3, <2>4, HubMeans DEF Waits
  <2>6. HubExact'
    BY <2>3, <2>5, HubShrinks
  <2>7. RoundsSettled'
    BY <1>1, <2>3, <2>4 DEF RoundsSettled
  <2>8. DownMeansNone'
    BY <1>1, <2>2, <2>3, HubMeans DEF DownMeansNone
  <2> QED
    BY <2>6, <2>7, <2>8 DEF HubInv
<1>4. ASSUME NEW r \in Reqs, Ends(r) PROVE HubInv'
  <2>1. /\ req'[r] = Idle /\ \A t \in Reqs \ {r} : req'[t] = req[t]
        /\ waiting' = waiting \ {r} /\ waiterCount' = waiterCount - Cardinality(waiting \cap {r})
        /\ available' = available
    BY <1>1, <1>4 DEF Ends
  <2>2. \A t \in Reqs : t \in waiting' <=> Waits(t)'
    BY <2>1, HubMeans, RequestShapes DEF Waits
  <2>3. HubExact'
    BY <2>1, <2>2, HubShrinks
  <2> QED
    BY <1>1, <2>1, <2>3, RequestShapes DEF HubInv, RoundsSettled, DownMeansNone
<1>5. ASSUME NEW r \in Reqs, LastRound(r) PROVE HubInv'
  <2>1. PICK q \in {Idle, Final(req[r])} : req' = [req EXCEPT ![r] = q]
    BY <1>5 DEF LastRound
  <2>2. ~ q.sub /\ ~ q.last /\ q.pc # "wait"
    BY <1>1, RequestShapes
  <2>3. /\ req'[r] = q /\ \A t \in Reqs \ {r} : req'[t] = req[t]
        /\ UNCHANGED <<waiting, waiterCount, available>>
    BY <1>1, <1>5, <2>1 DEF LastRound, hubVars
  <2>4. ~ Waits(r)
    BY <1>1, <1>5 DEF LastRound, Waits, RoundsSettled
  <2>5. \A t \in Reqs : Waits(t)' <=> Waits(t)
    BY <2>2, <2>3, <2>4 DEF Waits
  <2>6. HubExact'
    BY <2>3, <2>5, HubStays
  <2> QED
    BY <1>1, <2>2, <2>3, <2>6 DEF HubInv, RoundsSettled, DownMeansNone
<1>6. ASSUME NEW r \in Reqs, Sleeps(r) PROVE HubInv'
  <2>1. /\ req'[r] = [req[r] EXCEPT !.pc = "wait"] /\ \A t \in Reqs \ {r} : req'[t] = req[t]
        /\ UNCHANGED <<waiting, waiterCount, available>> /\ req[r].pc = "query" /\ req[r].sub
    BY <1>1, <1>6 DEF Sleeps, hubVars
  <2>2. req'[r].pc = "wait" /\ req'[r].sub = req[r].sub /\ req'[r].out = req[r].out /\ req'[r].last = req[r].last
    <3>1. req'[r].pc = "wait" /\ req'[r].out = req[r].out
      BY <1>1, <2>1 DEF ReqSet
    <3>2. req'[r].sub = req[r].sub
      BY <1>1, <2>1 DEF ReqSet
    <3>3. req'[r].last = req[r].last
      BY <1>1, <2>1 DEF ReqSet
    <3> QED
      BY <3>1, <3>2, <3>3
  <2>3. \A t \in Reqs : Waits(t)' <=> Waits(t)
    BY <2>1, <2>2 DEF Waits
  <2>4. HubExact'
    BY <2>1, <2>3, HubStays
  <2> QED
    BY <1>1, <2>1, <2>2, <2>4 DEF HubInv, RoundsSettled, DownMeansNone
<1>7. ASSUME NEW r \in Reqs, Subscribes(r) PROVE HubInv'
  <2>1. PICK q \in ReqSet : Subscribe(r, q)
    BY <1>7 DEF Subscribes
  <2>2. PICK s \in BOOLEAN : \E x \in ReqSet :
             LET on == s /\ ~ q.last IN
             /\ s => available /\ HasRoom(r[1])
             /\ req' = [req EXCEPT ![r] = x]
             /\ x.pc = "query" /\ x.sub = s /\ x.last = q.last
             /\ x.out = IF on THEN "none" ELSE "other"
             /\ waiting' = IF on THEN waiting \cup {r} ELSE waiting
             /\ waiterCount' = IF on THEN waiterCount + 1 ELSE waiterCount
    BY <2>1, SubscribedShape DEF TypeInv
  <2>3. PICK x \in ReqSet :
             LET on == s /\ ~ q.last IN
             /\ s => available /\ HasRoom(r[1])
             /\ req' = [req EXCEPT ![r] = x]
             /\ x.pc = "query" /\ x.sub = s /\ x.last = q.last
             /\ x.out = IF on THEN "none" ELSE "other"
             /\ waiting' = IF on THEN waiting \cup {r} ELSE waiting
             /\ waiterCount' = IF on THEN waiterCount + 1 ELSE waiterCount
    BY <2>2
  <2>4. req'[r] = x /\ (\A t \in Reqs \ {r} : req'[t] = req[t]) /\ available' = available
    BY <1>1, <1>7, <2>3 DEF Subscribes
  <2>5. ~ Waits(r) /\ r \notin waiting
    BY <1>7, HubMeans DEF Subscribes, Waits
  <2>6. RoundsSettled'
    BY <1>1, <2>3, <2>4 DEF RoundsSettled
  <2>7. CASE ~ (s /\ ~ q.last)
    <3>1. UNCHANGED <<waiting, waiterCount>> /\ \A t \in Reqs : Waits(t)' <=> Waits(t)
      BY <2>3, <2>4, <2>5, <2>7 DEF Waits
    <3>2. HubExact'
      BY <3>1, HubStays
    <3> QED
      BY <1>1, <2>4, <2>6, <3>1, <3>2 DEF HubInv, DownMeansNone
  <2>8. CASE s /\ ~ q.last
    <3>1. waiting' = waiting \cup {r} /\ waiterCount' = waiterCount + 1 /\ available /\ HasRoom(r[1])
      BY <2>3, <2>8
    <3>2. \A t \in Reqs : t \in waiting' <=> Waits(t)'
      BY <2>3, <2>4, <2>8, <3>1, HubMeans DEF Waits
    <3>3. waiting' = {t \in Reqs : Waits(t)'}
      BY <3>1, <3>2, HubMeans
    <3>4. waiterCount' = Cardinality(waiting')
      BY <2>5, <3>1, HubMeans, FS_AddElement
    <3>5. waiterCount' <= TotalLimit
      BY <3>1, HubMeans, SignalingAssumption DEF HasRoom
    <3>6. ASSUME NEW k \in Polls
          PROVE  Cardinality(waiting' \cap ReqsOf(k)) <= PerKeyLimit
      <4>1. CASE k = r[1]
        <5>1. r \in ReqsOf(k) /\ IsFiniteSet(waiting \cap ReqsOf(k)) /\ r \notin waiting \cap ReqsOf(k)
          BY <2>5, <4>1, HubMeans, ReqsByPoll, FS_Subset
        <5>2. waiting' \cap ReqsOf(k) = (waiting \cap ReqsOf(k)) \cup {r}
          BY <3>1, <5>1
        <5>3. Cardinality(waiting' \cap ReqsOf(k)) = Cardinality(waiting \cap ReqsOf(k)) + 1
          BY <5>1, <5>2, FS_AddElement
        <5>4. Cardinality(waiting \cap ReqsOf(k)) < PerKeyLimit /\ Cardinality(waiting \cap ReqsOf(k)) \in Nat
          BY <3>1, <4>1, HubMeans DEF HasRoom
        <5> QED
          BY <5>3, <5>4, SignalingAssumption
      <4>2. CASE k # r[1]
        <5>1. waiting' \cap ReqsOf(k) = waiting \cap ReqsOf(k)
          BY <3>1, <4>2, ReqsByPoll
        <5> QED
          BY <5>1, HubMeans
      <4> QED
        BY <4>1, <4>2
    <3>7. HubExact'
      BY <3>3, <3>4, <3>5, <3>6 DEF HubExact, Waits, ReqsOf
    <3> QED
      BY <2>4, <2>6, <3>1, <3>7 DEF HubInv, DownMeansNone
  <2> QED
    BY <2>7, <2>8
<1> QED
  BY <1>2, <1>3, <1>4, <1>5, <1>6, <1>7, HubSteps

\* An empty hub is exact.
LEMMA InitHub == Init => TypeInv /\ HubInv
<1> SUFFICES ASSUME Init PROVE TypeInv /\ HubInv
  OBVIOUS
<1>1. StoreTyped
  BY DEF Init, StoreTyped
<1>2. ReqTyped /\ \A r \in Reqs : req[r] = Idle
  BY RequestShapes DEF Init, ReqTyped
<1>3. Cardinality({}) = 0 /\ \A k : {} \cap ReqsOf(k) = {}
  BY FS_EmptySet
<1>4. waiting = {} /\ waiterCount = 0 /\ \A k : waiting \cap ReqsOf(k) = {}
  BY <1>3 DEF Init
<1>5. waiting = {r \in Reqs : req[r].pc # "idle" /\ req[r].sub /\ req[r].out = "none"}
  BY <1>2, <1>4, RequestShapes
<1>6. HubExact
  BY <1>3, <1>4, <1>5, SignalingAssumption DEF HubExact
<1>7. RoundsSettled /\ DownMeansNone
  BY <1>2, <1>4, RequestShapes DEF RoundsSettled, DownMeansNone
<1> QED
  BY <1>1, <1>2, <1>6, <1>7 DEF TypeInv, HubInv

\* The wake hub's slots are exactly the polls that wait, for any number of polls,
\* limits and faults: no abort, lost listener, timer or answer leaks a slot or
\* gives one back twice, and the limits hold.
THEOREM HubIsExact == Spec => []HubExact
<1>1. TypeInv /\ HubInv /\ [Next]_vars => TypeInv' /\ HubInv'
  BY StepReqTyped, StepStoreTyped, StepHub DEF TypeInv
<1>2. TypeInv /\ HubInv => HubExact
  BY DEF HubInv
<1> QED
  BY <1>1, <1>2, InitHub, PTL DEF Spec

-----------------------------------------------------------------------------
(* No missed wake. *)

HasNews(k, q) ==
    IF k = Desk THEN Offers # {}
    ELSE \/ ~ Live(k)
         \/ status[k] = "answered" /\ ~ q.seen
         \/ Len(ice[k]) > q.since

Sleeper(r) == req[r].pc = "wait" /\ req[r].out = "none"

\* A read that meets an expired session shows nothing to the polls of others.
LEMMA ExpiryIsNoNews ==
    ASSUME TypeInv, NEW r \in Reqs, ExpireOnRead(r), UNCHANGED <<over, ice>>,
           NEW k \in Polls, NEW q, HasNews(k, q)', k \notin over'
    PROVE  HasNews(k, q)
<1>1. status \in [Sess -> {"none", "pending", "answered", "cancelled", "expired"}] /\ over \subseteq Sess
  BY DEF TypeInv, StoreTyped
<1>2. \A s \in Sess : s \notin over => status'[s] = status[s]
  BY <1>1 DEF ExpireOnRead
<1>3. CASE k = Desk
  <2>1. Offers' \subseteq Offers
    BY <1>2 DEF Offers
  <2> QED
    BY <1>3, <2>1 DEF HasNews
<1>4. CASE k # Desk
  <2>1. k \in Sess /\ status'[k] = status[k]
    BY <1>2, <1>4 DEF Polls
  <2> QED
    BY <1>4, <2>1 DEF HasNews, Live
<1> QED
  BY <1>3, <1>4

\* While the listener is up, a step that makes news for a poll sends its hint.
LEMMA NewsIsNotified ==
    ASSUME TypeInv, [Next]_vars, available, NEW k \in Polls, NEW q, HasNews(k, q)', k \notin over'
    PROVE  HasNews(k, q) \/ k \in notes'
<1>1. /\ status \in [Sess -> {"none", "pending", "answered", "cancelled", "expired"}]
      /\ over \subseteq Sess /\ ice \in [Sess -> Seq(Blobs)] /\ Desk \notin Sess
  BY SignalingAssumption DEF TypeInv, StoreTyped
<1>2. k = Desk \/ k \in Sess
  BY DEF Polls
<1>3. CASE UNCHANGED <<status, over, ice>>
  BY <1>3 DEF HasNews, Offers, Live
<1>4. CASE \E s \in Sess : CreateSession(s)
  <2>1. PICK s \in Sess : CreateSession(s)
    BY <1>4
  <2>2. /\ status[s] = "none" /\ status' = [status EXCEPT ![s] = "pending"] /\ UNCHANGED <<over, ice>>
        /\ Desk \in notes'
    BY <2>1 DEF CreateSession, Notify
  <2>3. CASE k = s
    BY <1>1, <2>2, <2>3 DEF HasNews, Live
  <2>4. CASE k # s /\ k # Desk
    BY <1>1, <2>2, <2>4 DEF HasNews, Live
  <2> QED
    BY <2>2, <2>3, <2>4
<1>5. CASE \E s \in Sess : WriteAnswer(s) \/ Cancel(s)
  <2>1. PICK s \in Sess : WriteAnswer(s) \/ Cancel(s)
    BY <1>5
  <2>2. PICK x \in {"answered", "cancelled"} : status' = [status EXCEPT ![s] = x]
    BY <2>1 DEF WriteAnswer, Cancel
  <2>3. UNCHANGED <<over, ice>> /\ s \in notes'
    BY <2>1 DEF WriteAnswer, Cancel, Notify
  <2>4. CASE k = Desk
    <3>1. Offers' \subseteq Offers
      BY <1>1, <2>2, <2>3 DEF Offers
    <3> QED
      BY <2>4, <3>1 DEF HasNews
  <2>5. CASE k # s /\ k # Desk
    BY <1>1, <2>2, <2>3, <2>5 DEF HasNews, Live
  <2> QED
    BY <2>3, <2>4, <2>5
<1>6. CASE \E s \in Sess : TimeToLive(s)
  <2>1. PICK s \in Sess : TimeToLive(s)
    BY <1>6
  <2>2. over' = over \cup {s} /\ UNCHANGED <<status, ice>>
    BY <2>1 DEF TimeToLive
  <2>3. Offers' \subseteq Offers
    BY <2>2 DEF Offers
  <2> QED
    BY <2>2, <2>3 DEF HasNews, Live
<1>7. CASE \E s \in Sess : \E b \in Blobs : WriteIce(s, b)
  <2>1. PICK s \in Sess : \E b \in Blobs : WriteIce(s, b)
    BY <1>7
  <2>2. UNCHANGED <<status, over>>
    BY <2>1 DEF WriteIce
  <2>3. CASE ice' = ice
    BY <1>3, <2>2, <2>3
  <2>4. CASE \E b \in Blobs : ice' = [ice EXCEPT ![s] = Append(@, b)] /\ Notify(s)
    <3>1. s \in notes' /\ \A t \in Sess \ {s} : ice'[t] = ice[t]
      BY <1>1, <2>4 DEF Notify
    <3> QED
      BY <1>2, <2>2, <3>1 DEF HasNews, Live, Offers
  <2> QED
    BY <2>1, <2>3, <2>4 DEF WriteIce
<1>8. CASE \E r \in Reqs : Query(r) \/ FinalRead(r)
  <2>1. PICK r \in Reqs : ExpireOnRead(r) /\ UNCHANGED <<over, ice>>
    BY <1>8 DEF Query, FinalRead
  <2> QED
    BY <2>1, ExpiryIsNoNews
<1>9. CASE \/ \E k2 \in Polls : Publish(k2) \/ GiveUp(k2) \/ \E i \in SlotsOf(k2) : Poll(k2, i)
           \/ \E s \in Sess : CheckAnswer(s) \/ FetchIce(s) \/ StopPolling(s) \/ ServeEnds(s)
           \/ \E s \in Sess : \E b \in Blobs : CheckIce(s, b)
  <2>1. UNCHANGED <<status, over, ice>>
    BY <1>9 DEF Publish, GiveUp, Poll, CheckAnswer, FetchIce, StopPolling, ServeEnds, CheckIce,
                storeVars
  <2> QED
    BY <1>3, <2>1
<1>10. CASE \/ \E r \in Reqs : TimerFires(r) \/ Aborted(r) \/ Wake(r)
            \/ ListenerLost \/ ListenerBack \/ UNCHANGED vars
  <2>1. UNCHANGED <<status, over, ice>>
    BY <1>10 DEF TimerFires, Aborted, Wake, ListenerLost, ListenerBack, storeVars, vars
  <2> QED
    BY <1>3, <2>1
<1>11. CASE \E s \in Sess : RefuseExpired(s)
  <2>1. PICK s \in Sess : RefuseExpired(s)
    BY <1>11
  <2>2. s \in over /\ status' = [status EXCEPT ![s] = "expired"] /\ UNCHANGED <<over, ice>>
    BY <2>1 DEF RefuseExpired
  <2>3. Offers' \subseteq Offers
    BY <1>1, <2>2 DEF Offers
  <2>4. CASE k = Desk
    BY <2>3, <2>4 DEF HasNews
  <2>5. CASE k # Desk
    <3>1. k \in Sess /\ status'[k] = status[k]
      BY <1>1, <1>2, <2>2, <2>5
    <3> QED
      BY <2>2, <2>5, <3>1 DEF HasNews, Live
  <2> QED
    BY <2>4, <2>5
<1> QED
  BY <1>4, <1>5, <1>6, <1>7, <1>8, <1>9, <1>10, <1>11 DEF Next

\* A hint stays on its way until the hub publishes it or loses its listener; a
\* session that is over stays over.
LEMMA HintsStay ==
    ASSUME TypeInv, [Next]_vars
    PROVE  /\ over \subseteq over'
           /\ \A k \in notes : k \in notes' \/ Publish(k) \/ ListenerLost
<1>1. CASE \E s \in Sess : \/ CreateSession(s) \/ WriteAnswer(s) \/ Cancel(s) \/ TimeToLive(s)
                           \/ CheckAnswer(s) \/ RefuseExpired(s) \/ FetchIce(s) \/ StopPolling(s)
                           \/ ServeEnds(s)
  BY <1>1 DEF CreateSession, WriteAnswer, Cancel, TimeToLive, CheckAnswer, RefuseExpired, FetchIce,
              StopPolling, ServeEnds, Notify, storeVars
<1>2. CASE \E s \in Sess : \E b \in Blobs : CheckIce(s, b) \/ WriteIce(s, b)
  BY <1>2 DEF CheckIce, WriteIce, Notify
<1>3. CASE \E k \in Polls : Publish(k) \/ GiveUp(k) \/ \E i \in SlotsOf(k) : Poll(k, i)
  BY <1>3 DEF Publish, GiveUp, Poll, storeVars
<1>4. CASE \E r \in Reqs : TimerFires(r) \/ Aborted(r) \/ Query(r) \/ Wake(r) \/ FinalRead(r)
  BY <1>4 DEF TimerFires, Aborted, Query, Wake, FinalRead, storeVars
<1>5. CASE ListenerLost \/ ListenerBack \/ UNCHANGED vars
  BY <1>5 DEF ListenerLost, ListenerBack, storeVars, vars
<1> QED
  BY <1>1, <1>2, <1>3, <1>4, <1>5 DEF Next

\* Who sleeps after a step slept before it, or has just read the store.
LEMMA Sleepers ==
    ASSUME TypeInv, HubInv, [Next]_vars, NEW r \in Reqs, Sleeper(r)'
    PROVE  /\ available
           /\ \/ Sleeper(r) /\ req'[r] = req[r] /\ ~ ListenerLost /\ ~ Publish(r[1])
              \/ /\ Query(r) /\ ~ Delta(r)
                 /\ req'[r].seen = req[r].seen /\ req'[r].since = req[r].since
<1>1. req \in [Reqs -> ReqSet] /\ RoundsSettled /\ DownMeansNone
  BY DEF TypeInv, ReqTyped, HubInv
<1>2. Sleeper(r) => r \in waiting /\ available
  BY <1>1, HubMeans DEF Sleeper, RoundsSettled, DownMeansNone, Waits
<1>3. ASSUME NEW rs, NEW out \in {"hint", "other"}, Settle(rs, out)
      PROVE  Sleeper(r) /\ req'[r] = req[r] /\ r \notin rs
  <2>1. CASE r \in rs \cap waiting
    <3>1. req'[r] = [req[r] EXCEPT !.out = out]
      BY <1>3, <2>1 DEF Settle
    <3> QED
      BY <1>1, <3>1 DEF Sleeper, ReqSet
  <2>2. CASE r \notin rs \cap waiting
    <3>1. req'[r] = req[r]
      BY <1>3, <2>2 DEF Settle
    <3> QED
      BY <1>2, <2>2, <3>1 DEF Sleeper
  <2> QED
    BY <2>1, <2>2
<1>4. ~ Publish(r[1]) /\ ~ ListenerLost
  BY <1>3, ReqsByPoll DEF Publish, ListenerLost
<1>5. CASE Sleeper(r) /\ req'[r] = req[r]
  BY <1>2, <1>4, <1>5
<1>6. CASE KeepsHub
  BY <1>5, <1>6 DEF KeepsHub, Sleeper
<1>7. CASE SettlesHub
  BY <1>3, <1>5, <1>7 DEF SettlesHub
<1>8. ASSUME NEW t \in Reqs, \/ Ends(t) \/ LastRound(t) \/ Subscribes(t)
      PROVE  Sleeper(r) /\ req'[r] = req[r]
  <2>1. PICK x \in ReqSet : req' = [req EXCEPT ![t] = x] /\ x.pc # "wait"
    <3>1. CASE Ends(t)
      BY <3>1, RequestShapes DEF Ends
    <3>2. CASE LastRound(t)
      BY <1>1, <3>2, RequestShapes DEF LastRound
    <3>3. CASE Subscribes(t)
      BY <3>3, SubscribedShape DEF Subscribes, TypeInv
    <3> QED
      BY <1>8, <3>1, <3>2, <3>3
  <2>2. t # r
    BY <1>1, <2>1 DEF Sleeper
  <2> QED
    BY <1>1, <2>1, <2>2 DEF Sleeper
<1>9. CASE \E t \in Reqs : Sleeps(t)
  <2>1. PICK t \in Reqs : Sleeps(t)
    BY <1>9
  <2>2. CASE t # r
    <3>1. req'[r] = req[r]
      BY <1>1, <2>1, <2>2 DEF Sleeps
    <3> QED
      BY <1>5, <3>1 DEF Sleeper
  <2>3. CASE t = r
    <3>1. /\ Query(r) /\ ~ Delta(r) /\ req'[r] = [req[r] EXCEPT !.pc = "wait"]
          /\ req'[r].out = "none" /\ req[r].sub /\ req[r].pc = "query" /\ req[r] \in ReqSet
      BY <1>1, <2>1, <2>3 DEF Sleeps, Sleeper
    <3>2. req[r].out = "none" /\ req'[r].since = req[r].since
      BY <3>1 DEF ReqSet
    <3>3. req'[r].seen = req[r].seen
      BY <3>1 DEF ReqSet
    <3>4. r \in waiting
      BY <3>1, <3>2, HubMeans DEF Waits
    <3>5. available
      BY <1>1, <3>4 DEF DownMeansNone
    <3> QED
      BY <3>1, <3>2, <3>3, <3>5
  <2> QED
    BY <2>2, <2>3
<1> QED
  BY <1>5, <1>6, <1>7, <1>8, <1>9, HubSteps

\* A poll that sleeps on news has its hint on the way after any step.
LEMMA StepWake == ASSUME TypeInv, HubInv, NoMissedWake, [Next]_vars PROVE NoMissedWake'
<1> SUFFICES ASSUME NEW r \in Reqs, Sleeper(r)', Delta(r)', r[1] \notin over'
             PROVE  r[1] \in notes'
  BY DEF NoMissedWake, Sleeper
<1>1. r[1] \in Polls /\ r[1] \notin over
  BY ReqsByPoll, HintsStay
<1>2. available
  BY Sleepers
<1>3. PICK q : q = req'[r]
  OBVIOUS
<1>4. HasNews(r[1], q)'
  BY <1>3 DEF Delta, HasNews
<1>5. CASE HasNews(r[1], q)
  <2>1. CASE Sleeper(r) /\ req'[r] = req[r] /\ ~ ListenerLost /\ ~ Publish(r[1])
    <3>1. Delta(r)
      BY <1>3, <1>5, <2>1 DEF Delta, HasNews
    <3>2. r[1] \in notes
      BY <1>1, <2>1, <3>1 DEF NoMissedWake, Sleeper
    <3> QED
      BY <2>1, <3>2, HintsStay
  <2>2. CASE /\ Query(r) /\ ~ Delta(r)
             /\ req'[r].seen = req[r].seen /\ req'[r].since = req[r].since
    BY <1>3, <1>5, <2>2 DEF Delta, HasNews
  <2> QED
    BY <2>1, <2>2, Sleepers
<1> QED
  BY <1>1, <1>2, <1>4, <1>5, NewsIsNotified

\* No poll sleeps on an unsettled waiter while the store has something for it and
\* no notification is on its way, whatever requests, faults and limits there are:
\* subscribing ahead of every read leaves no gap.
THEOREM WakesAreNotMissed == Spec => []NoMissedWake
<1>1. Init => NoMissedWake
  <2> SUFFICES ASSUME Init, NEW r \in Reqs PROVE req[r].pc # "wait"
    BY DEF NoMissedWake
  <2>1. req[r] = Idle
    BY DEF Init
  <2> QED
    BY <2>1, RequestShapes
<1>2. TypeInv /\ HubInv /\ NoMissedWake /\ [Next]_vars => TypeInv' /\ HubInv' /\ NoMissedWake'
  BY StepReqTyped, StepStoreTyped, StepHub, StepWake DEF TypeInv
<1> QED
  BY <1>1, <1>2, InitHub, PTL DEF Spec

-----------------------------------------------------------------------------
(* Induction, with the predicate as a set. *)

\* Numbers are well-founded: a set of them has a least one.
LEMMA LeastNumber ==
    ASSUME NEW T, T \subseteq Nat, T # {}
    PROVE  \E x \in T : \A y \in T : x <= y
<1> DEFINE R == OpToRel(<, Nat)
<1>1. IsWellFoundedOn(R, Nat)
  BY NatLessThanWellFounded
<1>2. \A x, y \in Nat : <<y, x>> \in R <=> y < x
  BY DEF OpToRel
<1> HIDE DEF R
<1>3. PICK x \in T : \A y \in T : ~ (<<y, x>> \in R)
  BY <1>1, WFMin
<1>4. ASSUME NEW y \in T PROVE x <= y
  <2>1. x \in Nat /\ y \in Nat
    OBVIOUS
  <2>2. ~ (y < x)
    BY <1>2, <1>3, <2>1
  <2> QED
    BY <2>1, <2>2
<1> QED
  BY <1>4

\* A set with 0 and with every successor has every number.
LEMMA SetInduction ==
    ASSUME NEW S, 0 \in S, \A n \in Nat : n \in S => n + 1 \in S
    PROVE  Nat \subseteq S
<1> SUFFICES ASSUME Nat \ S # {} PROVE FALSE
  OBVIOUS
<1>1. PICK x \in Nat \ S : \A y \in Nat \ S : x <= y
  BY LeastNumber
<1>2. x # 0 /\ x - 1 \in Nat /\ x - 1 \notin Nat \ S
  BY <1>1
<1> QED
  BY <1>1, <1>2

-----------------------------------------------------------------------------
(* Sequence numbers in order. *)

\* q enumerates I, ascending; it then lists all of I.
Ascends(q, n) == \A i, j \in 1 .. n : i < j => q[i] < q[j]
Lists(q, I)   == \A x \in I : \E i \in 1 .. Cardinality(I) : q[i] = x
IsOrder(q, I) == q \in [1 .. Cardinality(I) -> I] /\ Ascends(q, Cardinality(I))

LEMMA RowsCounted ==
    ASSUME NEW n \in Nat, NEW I \in SUBSET (1 .. n)
    PROVE  IsFiniteSet(I) /\ Cardinality(I) \in Nat /\ I \subseteq Nat
<1>1. IsFiniteSet(1 .. n)
  BY FS_Interval
<1>2. IsFiniteSet(I)
  BY <1>1, FS_Subset
<1>3. Cardinality(I) \in Nat
  BY <1>2, FS_CardinalityType
<1> QED
  BY <1>2, <1>3

\* Two ordered sets, one behind the other.
LEMMA RowsJoin ==
    ASSUME NEW n \in Nat, NEW I \in SUBSET (1 .. n), NEW J \in SUBSET (1 .. n),
           \A x \in I, y \in J : x < y,
           NEW q, IsOrder(q, I), NEW r, IsOrder(r, J)
    PROVE  /\ Cardinality(I \cup J) = Cardinality(I) + Cardinality(J)
           /\ IsOrder([i \in 1 .. Cardinality(I \cup J) |->
                         IF i <= Cardinality(I) THEN q[i] ELSE r[i - Cardinality(I)]], I \cup J)
<1>1. /\ IsFiniteSet(I) /\ Cardinality(I) \in Nat /\ I \subseteq Nat
      /\ IsFiniteSet(J) /\ Cardinality(J) \in Nat /\ J \subseteq Nat
  BY RowsCounted
<1>2. I \cap J = {}
  BY <1>1
<1>3. Cardinality(I \cup J) = Cardinality(I) + Cardinality(J)
  <2>1. Cardinality(I \cup J) = Cardinality(I) + Cardinality(J) - Cardinality(I \cap J)
    BY <1>1, FS_Union
  <2>2. Cardinality(I \cap J) = 0
    BY <1>2, FS_EmptySet
  <2> QED
    BY <1>1, <2>1, <2>2
<1>4. PICK a \in Nat, b \in Nat : a = Cardinality(I) /\ b = Cardinality(J)
  BY <1>1
<1> DEFINE t == [i \in 1 .. a + b |-> IF i <= a THEN q[i] ELSE r[i - a]]
<1>5. /\ \A i \in 1 .. a : q[i] \in I
      /\ \A i \in 1 .. b : r[i] \in J
      /\ \A i, j \in 1 .. a : i < j => q[i] < q[j]
      /\ \A i, j \in 1 .. b : i < j => r[i] < r[j]
  BY <1>4 DEF IsOrder, Ascends
<1>6. \A i \in 1 .. a + b : i <= a => i \in 1 .. a /\ t[i] = q[i]
  OBVIOUS
<1>7. \A i \in 1 .. a + b : ~ (i <= a) => i - a \in 1 .. b /\ t[i] = r[i - a]
  OBVIOUS
<1>8. t \in [1 .. a + b -> I \cup J]
  BY <1>5, <1>6, <1>7
<1> HIDE DEF t
<1>9. ASSUME NEW i \in 1 .. a + b, NEW j \in 1 .. a + b, i < j PROVE t[i] < t[j]
  <2>1. CASE j <= a
    BY <1>5, <1>6, <1>9, <2>1
  <2>2. CASE i <= a /\ ~ (j <= a)
    BY <1>5, <1>6, <1>7, <2>2
  <2>3. CASE ~ (i <= a)
    <3>1. ~ (j <= a) /\ i - a < j - a
      BY <1>9, <2>3
    <3> QED
      BY <1>5, <1>7, <2>3, <3>1
  <2> QED
    BY <2>1, <2>2, <2>3
<1>10. IsOrder(t, I \cup J)
  BY <1>3, <1>4, <1>8, <1>9 DEF IsOrder, Ascends
<1> QED
  BY <1>3, <1>4, <1>10 DEF t

\* One sequence number.
LEMMA OneRow ==
    ASSUME NEW x \in Nat
    PROVE  Cardinality({x}) = 1 /\ IsOrder([i \in 1 .. 1 |-> x], {x})
<1>1. Cardinality({x}) = 1
  BY FS_Singleton
<1> QED
  BY <1>1 DEF IsOrder, Ascends

\* Every set of rows has an order, by induction over the highest row.
LEMMA OrderExists ==
    ASSUME NEW n \in Nat, NEW I \in SUBSET (1 .. n)
    PROVE  \E q : IsOrder(q, I)
<1> DEFINE S == {m \in Nat : \A J \in SUBSET (1 .. m) : \E q : IsOrder(q, J)}
<1>1. 0 \in S
  <2>1. \A J \in SUBSET (1 .. 0) : J = {}
    OBVIOUS
  <2>2. Cardinality({}) = 0
    BY FS_EmptySet
  <2>3. IsOrder([i \in 1 .. 0 |-> i], {})
    BY <2>2 DEF IsOrder, Ascends
  <2> QED
    BY <2>1, <2>3
<1>2. ASSUME NEW m \in Nat, m \in S PROVE m + 1 \in S
  <2> SUFFICES ASSUME NEW J \in SUBSET (1 .. m + 1) PROVE \E q : IsOrder(q, J)
    OBVIOUS
  <2>1. CASE m + 1 \notin J
    <3>1. J \in SUBSET (1 .. m)
      BY <2>1
    <3> QED
      BY <1>2, <3>1
  <2>2. CASE m + 1 \in J
    <3> DEFINE K == J \ {m + 1}
    <3>1. K \in SUBSET (1 .. m) /\ J = K \cup {m + 1} /\ \A x \in K, y \in {m + 1} : x < y
      BY <2>2
    <3>2. PICK q : IsOrder(q, K)
      BY <1>2, <3>1
    <3>3. PICK r : IsOrder(r, {m + 1})
      BY OneRow
    <3>4. K \in SUBSET (1 .. m + 1) /\ {m + 1} \in SUBSET (1 .. m + 1) /\ m + 1 \in Nat
      BY <3>1
    <3> HIDE DEF K
    <3>5. \E t : IsOrder(t, K \cup {m + 1})
      BY <3>1, <3>2, <3>3, <3>4, RowsJoin
    <3> QED
      BY <3>1, <3>5
  <2> QED
    BY <2>1, <2>2
<1> HIDE DEF S
<1>3. n \in S
  BY <1>1, <1>2, SetInduction
<1> QED
  BY <1>3 DEF S

\* An order of a set lists all of it.
LEMMA OrderOnto ==
    ASSUME NEW I, IsFiniteSet(I), I \subseteq Nat, NEW q, IsOrder(q, I)
    PROVE  Lists(q, I)
<1> SUFFICES ASSUME NEW x \in I, \A i \in 1 .. Cardinality(I) : q[i] # x PROVE FALSE
  BY DEF Lists
<1>1. Cardinality(I) \in Nat
  BY FS_CardinalityType
<1>2. PICK a \in Nat : a = Cardinality(I)
  BY <1>1
<1>3. IsFiniteSet(I \ {x}) /\ Cardinality(I \ {x}) = a - 1
  BY <1>1, <1>2, FS_RemoveElement
<1>4. IsFiniteSet(1 .. a) /\ Cardinality(1 .. a) = a
  BY FS_Interval
<1>5. q \in [1 .. a -> I \ {x}]
  BY <1>2 DEF IsOrder
<1>6. PICK i \in 1 .. a, j \in 1 .. a : i # j /\ q[i] = q[j]
  BY <1>3, <1>4, <1>5, FS_PigeonHole
<1>7. q[i] \in Nat
  BY <1>1, <1>5
<1>9. i < j \/ j < i
  BY <1>6
<1>8. (i < j => q[i] < q[j]) /\ (j < i => q[j] < q[i])
  BY <1>2 DEF IsOrder, Ascends
<1> QED
  BY <1>6, <1>7, <1>8, <1>9

\* There is one order.
LEMMA OrderUnique ==
    ASSUME NEW I, IsFiniteSet(I), I \subseteq Nat, NEW q, IsOrder(q, I), NEW r, IsOrder(r, I)
    PROVE  q = r
<1>0. Lists(q, I) /\ Lists(r, I)
  BY OrderOnto
<1>1. PICK a \in Nat : a = Cardinality(I)
  BY FS_CardinalityType
<1>2. /\ q \in [1 .. a -> I] /\ r \in [1 .. a -> I] /\ I \subseteq Nat
      /\ \A i, j \in 1 .. a : i < j => q[i] < q[j]
      /\ \A i, j \in 1 .. a : i < j => r[i] < r[j]
  BY <1>1 DEF IsOrder, Ascends
<1> DEFINE D == {i \in 1 .. a : q[i] # r[i]}
<1>3. CASE D = {}
  BY <1>2, <1>3
<1>4. CASE D # {}
  <2>1. PICK i \in D : \A j \in D : i <= j
    <3>1. D \subseteq Nat
      OBVIOUS
    <3> QED
      BY <1>4, <3>1, LeastNumber
  <2>2. i \in 1 .. a /\ q[i] # r[i] /\ \A j \in 1 .. a : j < i => q[j] = r[j]
    BY <2>1
  <2>3. q[i] \in Nat /\ r[i] \in Nat
    BY <1>2, <2>2
  <2>a. \A x \in I : (\E j \in 1 .. a : q[j] = x) /\ (\E j \in 1 .. a : r[j] = x)
    BY <1>0, <1>1 DEF Lists
  <2>b. q[i] \in I /\ r[i] \in I
    BY <1>2, <2>2
  <2>4. CASE q[i] < r[i]
    <3>1. PICK j \in 1 .. a : r[j] = q[i]
      BY <2>a, <2>b
    <3>2. CASE j < i
      BY <1>2, <2>2, <2>3, <3>1, <3>2
    <3>3. CASE ~ (j < i)
      BY <1>2, <2>2, <2>3, <2>4, <3>1, <3>3
    <3> QED
      BY <3>2, <3>3
  <2>5. CASE r[i] < q[i]
    <3>1. PICK j \in 1 .. a : q[j] = r[i]
      BY <2>a, <2>b
    <3>2. CASE j < i
      BY <1>2, <2>2, <2>3, <3>1, <3>2
    <3>3. CASE ~ (j < i)
      BY <1>2, <2>2, <2>3, <2>5, <3>1, <3>3
    <3> QED
      BY <3>2, <3>3
  <2> QED
    BY <2>2, <2>3, <2>4, <2>5
<1> QED
  BY <1>3, <1>4

\* InOrder is that order.
LEMMA InOrderMeans ==
    ASSUME NEW n \in Nat, NEW I \in SUBSET (1 .. n)
    PROVE  IsOrder(InOrder(I), I) /\ \A q : IsOrder(q, I) => q = InOrder(I)
<1>1. \E q \in [1 .. Cardinality(I) -> I] : \A i, j \in 1 .. Cardinality(I) : i < j => q[i] < q[j]
  BY OrderExists DEF IsOrder, Ascends
<1>2. IsOrder(InOrder(I), I)
  BY <1>1 DEF InOrder, IsOrder, Ascends
<1> QED
  BY <1>2, RowsCounted, OrderUnique

\* The candidates in a set of rows, in order.
Took(log, I) == [i \in 1 .. Cardinality(I) |-> log[InOrder(I)[i]]]

\* What is read: as many candidates as rows, each from its row.
LEMMA TookTyped ==
    ASSUME NEW B, NEW log \in Seq(B), NEW I \in SUBSET (1 .. Len(log))
    PROVE  /\ Cardinality(I) \in Nat /\ Took(log, I) \in Seq(B) /\ Len(Took(log, I)) = Cardinality(I)
           /\ \A i \in 1 .. Cardinality(I) :
                 InOrder(I)[i] \in I /\ Took(log, I)[i] = log[InOrder(I)[i]]
<1>1. Len(log) \in Nat /\ \A x \in 1 .. Len(log) : log[x] \in B
  BY LenProperties, ElementOfSeq
<1>2. PICK a \in Nat : a = Cardinality(I)
  BY <1>1, RowsCounted
<1>3. IsOrder(InOrder(I), I)
  BY <1>1, InOrderMeans
<1>4. \A i \in 1 .. a : InOrder(I)[i] \in I
  BY <1>2, <1>3 DEF IsOrder
<1> DEFINE t == [i \in 1 .. a |-> log[InOrder(I)[i]]]
<1>5. \A i \in 1 .. a : t[i] = log[InOrder(I)[i]] /\ t[i] \in B
  BY <1>1, <1>4
<1>6. t \in [1 .. a -> B]
  BY <1>5
<1>7. t = Took(log, I)
  BY <1>2 DEF Took
<1> HIDE DEF t
<1>8. t \in Seq(B) /\ Len(t) = a
  BY <1>6
<1> QED
  BY <1>2, <1>4, <1>5, <1>7, <1>8

\* Two reads, one behind the other, are one.
LEMMA TookJoins ==
    ASSUME NEW B, NEW log \in Seq(B), NEW I \in SUBSET (1 .. Len(log)),
           NEW J \in SUBSET (1 .. Len(log)), \A x \in I, y \in J : x < y
    PROVE  Took(log, I \cup J) = Took(log, I) \o Took(log, J)
<1>1. Len(log) \in Nat /\ I \cup J \in SUBSET (1 .. Len(log))
  BY LenProperties
<1>2. PICK a \in Nat, b \in Nat : a = Cardinality(I) /\ b = Cardinality(J)
  BY <1>1, RowsCounted
<1>3. IsOrder(InOrder(I), I) /\ IsOrder(InOrder(J), J)
  BY <1>1, InOrderMeans
<1> DEFINE t == [i \in 1 .. Cardinality(I \cup J) |->
                   IF i <= Cardinality(I) THEN InOrder(I)[i] ELSE InOrder(J)[i - Cardinality(I)]]
<1>4. Cardinality(I \cup J) = Cardinality(I) + Cardinality(J) /\ IsOrder(t, I \cup J)
  BY <1>1, <1>3, RowsJoin
<1>5. t = InOrder(I \cup J)
  <2> HIDE DEF t
  <2> QED
    BY <1>1, <1>4, InOrderMeans
<1>6. PICK K \in SUBSET (1 .. Len(log)) : K = I \cup J
  BY <1>1
<1>7. /\ Cardinality(K) = a + b
      /\ \A i \in 1 .. a + b : i <= a => InOrder(K)[i] = InOrder(I)[i]
      /\ \A i \in 1 .. a + b : ~ (i <= a) => InOrder(K)[i] = InOrder(J)[i - a]
  <2>1. Cardinality(K) = a + b
    BY <1>2, <1>4, <1>6
  <2>2. \A i \in 1 .. a + b : t[i] = IF i <= a THEN InOrder(I)[i] ELSE InOrder(J)[i - a]
    BY <1>2, <1>4
  <2>3. t = InOrder(K)
    BY <1>5, <1>6
  <2> HIDE DEF t
  <2> QED
    BY <2>1, <2>2, <2>3
<1> HIDE DEF t
<1>8. PICK p \in Seq(B) : /\ p = Took(log, I) /\ Len(p) = a
                          /\ \A i \in 1 .. a : p[i] = log[InOrder(I)[i]]
  BY <1>2, TookTyped
<1>9. PICK r \in Seq(B) : /\ r = Took(log, J) /\ Len(r) = b
                          /\ \A i \in 1 .. b : r[i] = log[InOrder(J)[i]]
  BY <1>2, TookTyped
<1>10. PICK k \in Seq(B) : /\ k = Took(log, K) /\ Len(k) = a + b
                           /\ \A i \in 1 .. a + b : k[i] = log[InOrder(K)[i]]
  <2>1. /\ Took(log, K) \in Seq(B) /\ Len(Took(log, K)) = Cardinality(K)
        /\ \A i \in 1 .. Cardinality(K) : Took(log, K)[i] = log[InOrder(K)[i]]
    BY TookTyped
  <2> QED
    BY <1>7, <2>1
<1>11. /\ \A i \in 1 .. a + b : i <= a => k[i] = p[i]
       /\ \A i \in 1 .. a + b : ~ (i <= a) => k[i] = r[i - a]
  <2>1. ASSUME NEW i \in 1 .. a + b, i <= a PROVE k[i] = p[i]
    <3>1. i \in 1 .. a
      BY <2>1
    <3> QED
      BY <1>7, <1>8, <1>10, <2>1, <3>1
  <2>2. ASSUME NEW i \in 1 .. a + b, ~ (i <= a) PROVE k[i] = r[i - a]
    <3>1. PICK j \in 1 .. b : j = i - a
      BY <2>2
    <3>2. k[i] = log[InOrder(K)[i]] /\ InOrder(K)[i] = InOrder(J)[j]
      BY <1>7, <1>10, <2>2, <3>1
    <3>3. r[j] = log[InOrder(J)[j]]
      BY <1>9, <3>1
    <3> QED
      BY <3>1, <3>2, <3>3
  <2> QED
    BY <2>1, <2>2
<1>12. k = p \o r
  <2>1. Len(p) = a /\ Len(r) = b /\ Len(k) = a + b
    BY <1>8, <1>9, <1>10
  <2>2. /\ p \o r \in Seq(B) /\ Len(p \o r) = a + b
        /\ \A i \in 1 .. a + b : (p \o r)[i] = IF i <= a THEN p[i] ELSE r[i - a]
    BY <2>1, ConcatProperties
  <2>3. \A i \in 1 .. a + b : k[i] = (p \o r)[i]
    BY <1>11, <2>2
  <2> QED
    BY <2>1, <2>2, <2>3, SeqEqual
<1> QED
  BY <1>6, <1>8, <1>9, <1>10, <1>12

\* A new row at the end.
LEMMA TookAppends ==
    ASSUME NEW B, NEW log \in Seq(B), NEW x \in B, NEW I \in SUBSET (1 .. Len(log))
    PROVE  /\ Took(Append(log, x), I) = Took(log, I)
           /\ Took(Append(log, x), I \cup {Len(log) + 1}) = Append(Took(log, I), x)
<1> DEFINE new == Append(log, x)
<1>1. PICK n \in Nat : n = Len(log)
  BY LenProperties
<1>2. /\ new \in Seq(B) /\ Len(new) = n + 1 /\ new[n + 1] = x
      /\ \A i \in 1 .. n : new[i] = log[i]
  BY <1>1, AppendProperties
<1> HIDE DEF new
<1>3. PICK a \in Nat : a = Cardinality(I)
  BY <1>1, RowsCounted
<1>4. /\ Took(log, I) \in Seq(B) /\ Len(Took(log, I)) = a
      /\ \A i \in 1 .. a : InOrder(I)[i] \in I /\ Took(log, I)[i] = log[InOrder(I)[i]]
  BY <1>3, TookTyped
<1>5. I \in SUBSET (1 .. Len(new)) /\ {n + 1} \in SUBSET (1 .. Len(new)) /\ \A i \in I, j \in {n + 1} : i < j
  BY <1>1, <1>2
<1>6. /\ Took(new, I) \in Seq(B) /\ Len(Took(new, I)) = a
      /\ \A i \in 1 .. a : InOrder(I)[i] \in I /\ Took(new, I)[i] = new[InOrder(I)[i]]
  BY <1>2, <1>3, <1>5, TookTyped
<1>7. \A i \in 1 .. a : Took(new, I)[i] = Took(log, I)[i]
  BY <1>1, <1>2, <1>4, <1>6
<1>8. Took(new, I) = Took(log, I)
  BY <1>4, <1>6, <1>7, SeqEqual
<1>9. Took(new, {n + 1}) = <<x>>
  <2>1. Cardinality({n + 1}) = 1
    BY OneRow
  <2>2. PICK K \in SUBSET (1 .. Len(new)) : K = {n + 1}
    BY <1>5
  <2>3. PICK k \in Seq(B) : k = Took(new, K) /\ Len(k) = 1 /\ InOrder(K)[1] \in K /\ k[1] = new[InOrder(K)[1]]
    <3>1. 1 \in 1 .. Cardinality(K) /\ Cardinality(K) = 1
      BY <2>1, <2>2
    <3>2. /\ Took(new, K) \in Seq(B) /\ Len(Took(new, K)) = Cardinality(K)
          /\ \A i \in 1 .. Cardinality(K) : InOrder(K)[i] \in K /\ Took(new, K)[i] = new[InOrder(K)[i]]
      BY <1>2, TookTyped
    <3> QED
      BY <3>1, <3>2
  <2>4. k[1] = x
    BY <1>2, <2>2, <2>3
  <2> QED
    BY <2>2, <2>3, <2>4
<1>10. Took(new, I \cup {n + 1}) = Took(new, I) \o Took(new, {n + 1})
  BY <1>2, <1>5, TookJoins
<1>11. Append(Took(log, I), x) = Took(log, I) \o <<x>>
  BY <1>4, AppendIsConcat
<1> QED
  BY <1>1, <1>8, <1>9, <1>10, <1>11 DEF new

-----------------------------------------------------------------------------
(* The links. *)

\* The peer's rows among the first ones of a log, and all it posted.
RowsTo(log, p, n) == {i \in 1 .. n : log[i].from = Peer(p)}
Posted(log, p)    == Took(log, RowsTo(log, p, Len(log)))

\* The request a browser listens to carries its cursor.
SinceInv ==
    /\ asked \in [Polls -> DeskSlots \cup Slots \cup {NoSlot}]
    /\ \A r \in Reqs : r[1] \in Sess /\ asked[r[1]] = r[2] /\ req[r].pc # "idle" =>
           req[r].since = cursor[<<r[1], "browser">>]

\* A party has taken in the peer's candidates up to its cursor.
LinkInv ==
    /\ got \in [Links -> Seq(Blobs)]
    /\ \A s \in Sess, p \in Parties :
         /\ cursor[<<s, p>>] <= Len(ice[s])
         /\ got[<<s, p>>] = Took(ice[s], RowsTo(ice[s], p, cursor[<<s, p>>]))

\* Most steps open no request, and change no cursor that a request carries.
Carries ==
    /\ \A r \in Reqs : req'[r].pc # "idle" => req[r].pc # "idle" /\ req'[r].since = req[r].since
    /\ asked' \in [Polls -> DeskSlots \cup Slots \cup {NoSlot}]
    /\ \A k \in Sess : \/ asked'[k] = NoSlot
                       \/ asked'[k] = asked[k] /\ cursor'[<<k, "browser">>] = cursor[<<k, "browser">>]

\* Such a step keeps every listened request at its client's cursor.
LEMMA CarriesSince == ASSUME SinceInv, Carries PROVE SinceInv'
<1> SUFFICES ASSUME NEW r \in Reqs, r[1] \in Sess, asked'[r[1]] = r[2], req'[r].pc # "idle"
             PROVE  req'[r].since = cursor'[<<r[1], "browser">>]
  BY DEF SinceInv, Carries
<1>1. r[2] # NoSlot
  BY ReqsByPoll, SignalingAssumption DEF SlotsOf
<1>2. asked[r[1]] = r[2] /\ cursor'[<<r[1], "browser">>] = cursor[<<r[1], "browser">>]
  BY <1>1 DEF Carries
<1> QED
  BY <1>2 DEF SinceInv, Carries

\* Subscribing keeps what the request carries.
LEMMA SubscribeCarries ==
    ASSUME ReqTyped, NEW r \in Reqs, NEW q \in ReqSet, Subscribe(r, q)
    PROVE  req'[r].since = q.since /\ \A t \in Reqs \ {r} : req'[t] = req[t]
<1> DEFINE s == r[1] \in Waked /\ available /\ HasRoom(r[1])
           o  == IF s /\ ~ q.last THEN "none" ELSE "other"
<1>1. req' = [req EXCEPT ![r] = [q EXCEPT !.pc = "query", !.sub = s, !.out = o]]
  BY DEF Subscribe
<1> HIDE DEF s, o
<1>2. req'[r] = [q EXCEPT !.pc = "query", !.sub = s, !.out = o] /\ \A t \in Reqs \ {r} : req'[t] = req[t]
  BY <1>1 DEF ReqTyped
<1> QED
  BY <1>2 DEF ReqSet

\* One request changes, to one that carries the same or none.
LEMMA OneCarries ==
    ASSUME ReqTyped, SinceInv, NEW r \in Reqs, NEW x, req' = [req EXCEPT ![r] = x],
           x.pc # "idle" => req[r].pc # "idle" /\ x.since = req[r].since,
           UNCHANGED <<asked, cursor>>
    PROVE  Carries
<1>1. req'[r] = x /\ \A t \in Reqs \ {r} : req'[t] = req[t]
  BY DEF ReqTyped
<1> QED
  BY <1>1 DEF Carries, SinceInv

\* A response changes the cursor only of the client that listened, who does not
\* listen any more.
LEMMA RespondCarries ==
    ASSUME TypeInv, SinceInv, NEW r \in Reqs, Respond(r)
    PROVE  Carries
<1>1. req'[r].pc = "idle" /\ \A t \in Reqs \ {r} : req'[t] = req[t]
  BY RequestShapes DEF Respond, TypeInv, ReqTyped
<1>2. asked \in [Polls -> DeskSlots \cup Slots \cup {NoSlot}] /\ cursor \in [Links -> Nat] /\ r[1] \in Polls
  BY ReqsByPoll DEF SinceInv, TypeInv, StoreTyped
<1>3. CASE asked[r[1]] # r[2]
  BY <1>1, <1>2, <1>3 DEF Respond, Carries, clientVars
<1>4. CASE asked[r[1]] = r[2]
  <2>1. asked' = [asked EXCEPT ![r[1]] = NoSlot]
    BY <1>4 DEF Respond
  <2>2. \/ cursor' = cursor
        \/ r[1] \in Sess /\ cursor' = [cursor EXCEPT ![<<r[1], "browser">>] = Len(ice[r[1]])]
    BY <1>4 DEF Respond, TakeProgress
  <2>3. asked' \in [Polls -> DeskSlots \cup Slots \cup {NoSlot}]
    BY <1>2, <2>1
  <2>4. ASSUME NEW k \in Sess
        PROVE  asked'[k] = NoSlot \/ (asked'[k] = asked[k] /\ cursor'[<<k, "browser">>] = cursor[<<k, "browser">>])
    <3>1. k \in Polls /\ <<k, "browser">> \in Links
      BY DEF Polls, Links, Parties
    <3>2. CASE k = r[1]
      BY <1>2, <2>1, <3>1, <3>2
    <3>3. CASE k # r[1]
      <4>1. asked'[k] = asked[k]
        BY <1>2, <2>1, <3>1, <3>3
      <4>2. cursor'[<<k, "browser">>] = cursor[<<k, "browser">>]
        BY <1>2, <2>2, <3>1, <3>3
      <4> QED
        BY <4>1, <4>2
    <3> QED
      BY <3>2, <3>3
  <2> QED
    BY <1>1, <2>3, <2>4 DEF Carries
<1> QED
  BY <1>3, <1>4

\* The browser's cursor moves only when the request that carries it ends.
LEMMA StepSince == ASSUME TypeInv, SinceInv, [Next]_vars PROVE SinceInv'
<1>1. /\ req \in [Reqs -> ReqSet] /\ cursor \in [Links -> Nat] /\ ReqTyped
      /\ asked \in [Polls -> DeskSlots \cup Slots \cup {NoSlot}]
  BY DEF TypeInv, ReqTyped, StoreTyped, SinceInv
<1>2. CASE UNCHANGED <<req, asked, cursor>>
  BY <1>2 DEF SinceInv
<1>3. CASE \/ UNCHANGED vars \/ ListenerBack
           \/ \E s \in Sess : \/ CreateSession(s) \/ CheckAnswer(s) \/ WriteAnswer(s) \/ Cancel(s)
                              \/ TimeToLive(s) \/ RefuseExpired(s) \/ ServeEnds(s)
                              \/ \E b \in Blobs : CheckIce(s, b) \/ WriteIce(s, b)
  BY <1>2, <1>3 DEF vars, clientVars, ListenerBack, CreateSession, CheckAnswer, WriteAnswer, Cancel,
                    TimeToLive, RefuseExpired, ServeEnds, CheckIce, WriteIce
<1>4. CASE \E s \in Sess : FetchIce(s)
  <2>1. PICK s \in Sess : FetchIce(s)
    BY <1>4
  <2>2. /\ UNCHANGED <<req, asked>>
        /\ cursor' = [cursor EXCEPT ![<<s, "desktop">>] = Len(ice[s])]
    BY <2>1 DEF FetchIce
  <2>3. \A k \in Sess : cursor'[<<k, "browser">>] = cursor[<<k, "browser">>]
    BY <1>1, <2>2 DEF Links, Parties
  <2> QED
    BY <2>2, <2>3 DEF SinceInv
<1>5. ASSUME NEW rs, NEW out \in {"hint", "other"}, Settle(rs, out), UNCHANGED clientVars
      PROVE  SinceInv'
  <2>1. \A r \in Reqs : req'[r] = req[r] \/ req'[r] = [req[r] EXCEPT !.out = out]
    BY <1>5 DEF Settle
  <2>2. \A r \in Reqs : req'[r].pc = req[r].pc /\ req'[r].since = req[r].since
    BY <1>1, <2>1 DEF ReqSet
  <2>3. Carries
    BY <1>1, <1>5, <2>2 DEF Carries, clientVars
  <2> QED
    BY <2>3, CarriesSince
<1>6. CASE \E k \in Polls : Publish(k)
  BY <1>5, <1>6 DEF Publish
<1>7. CASE ListenerLost \/ \E r \in Reqs : TimerFires(r)
  BY <1>5, <1>7 DEF ListenerLost, TimerFires
<1>8. CASE (\E k \in Polls : GiveUp(k)) \/ \E s \in Sess : StopPolling(s)
  <2>1. PICK k \in Polls : UNCHANGED <<req, cursor>> /\ asked' = [asked EXCEPT ![k] = NoSlot]
    BY <1>8 DEF GiveUp, StopPolling, Polls
  <2>2. Carries
    <3>1. Sess \subseteq Polls
      BY DEF Polls
    <3> QED
      BY <1>1, <2>1, <3>1 DEF Carries
  <2> QED
    BY <2>2, CarriesSince
<1>9. CASE \E r \in Reqs : Aborted(r)
  BY <1>1, <1>9, OneCarries, CarriesSince, RequestShapes DEF Aborted, clientVars
<1>10. CASE \E k \in Polls : \E i \in SlotsOf(k) : Poll(k, i)
  <2>1. PICK k \in Polls : \E i \in SlotsOf(k) : Poll(k, i)
    BY <1>10
  <2>2. PICK i \in SlotsOf(k) : Poll(k, i)
    BY <2>1
  <2> DEFINE r == <<k, i>>
             q == IF k = Desk THEN Idle
                  ELSE [Idle EXCEPT !.since = cursor[<<k, "browser">>], !.seen = k \in answerSeen]
  <2>3. r \in Reqs
    BY ReqsFinite
  <2>4. Subscribe(r, q) /\ asked' = [asked EXCEPT ![k] = i] /\ cursor' = cursor
    BY <2>2 DEF Poll
  <2>5. q \in ReqSet /\ (k \in Sess => q.since = cursor[<<k, "browser">>])
    <3>1. CASE k = Desk
      BY <3>1, RequestShapes, SignalingAssumption
    <3>2. CASE k # Desk
      <4>1. <<k, "browser">> \in Links
        BY <3>2 DEF Polls, Links, Parties
      <4>2. cursor[<<k, "browser">>] \in Nat /\ (k \in answerSeen) \in BOOLEAN
        BY <1>1, <4>1
      <4>3. q \in ReqSet
        BY <3>2, <4>2, RequestShapes
      <4>4. q.since = cursor[<<k, "browser">>]
        BY <3>2 DEF Idle
      <4> QED
        BY <4>3, <4>4
    <3> QED
      BY <3>1, <3>2
  <2> HIDE DEF q
  <2>6. req'[r].since = q.since /\ \A t \in Reqs \ {r} : req'[t] = req[t]
    BY <1>1, <2>3, <2>4, <2>5, SubscribeCarries
  <2>7. asked' \in [Polls -> DeskSlots \cup Slots \cup {NoSlot}] /\ asked'[k] = i
        /\ \A j \in Polls \ {k} : asked'[j] = asked[j]
    <3>1. i \in DeskSlots \cup Slots
      BY DEF SlotsOf
    <3> QED
      BY <1>1, <2>4, <3>1
  <2>8. ASSUME NEW t \in Reqs, t[1] \in Sess, asked'[t[1]] = t[2], req'[t].pc # "idle"
        PROVE  req'[t].since = cursor'[<<t[1], "browser">>]
    <3>1. t = <<t[1], t[2]>> /\ t[1] \in Polls
      BY ReqsByPoll
    <3>2. CASE t[1] = k
      <4>1. t = r
        BY <2>7, <2>8, <3>1, <3>2
      <4> QED
        BY <2>4, <2>5, <2>6, <2>8, <3>2, <4>1
    <3>3. CASE t[1] # k
      <4>1. t # r /\ asked'[t[1]] = asked[t[1]]
        BY <2>7, <3>1, <3>3
      <4> QED
        BY <2>4, <2>6, <2>8, <4>1 DEF SinceInv
    <3> QED
      BY <3>2, <3>3
  <2> QED
    BY <2>7, <2>8 DEF SinceInv
<1>11. CASE \E r \in Reqs : Query(r)
  <2>1. PICK r \in Reqs : Query(r)
    BY <1>11
  <2>2. CASE Respond(r)
    BY <2>2, RespondCarries, CarriesSince
  <2>3. CASE /\ req' = [req EXCEPT ![r] = IF req[r].last THEN Final(@) ELSE [@ EXCEPT !.pc = "wait"]]
             /\ UNCHANGED clientVars
    <3> DEFINE x == IF req[r].last THEN Final(req[r]) ELSE [req[r] EXCEPT !.pc = "wait"]
    <3>1. req' = [req EXCEPT ![r] = x] /\ UNCHANGED <<asked, cursor>> /\ req[r].pc # "idle"
      BY <1>1, <2>1, <2>3 DEF clientVars, Query
    <3>2. x.since = req[r].since
      <4>1. req[r] \in ReqSet
        BY <1>1
      <4> QED
        BY <4>1 DEF ReqSet, Final, Idle
    <3> HIDE DEF x
    <3> QED
      BY <1>1, <3>1, <3>2, OneCarries, CarriesSince
  <2> QED
    BY <2>1, <2>2, <2>3 DEF Query
<1>12. CASE \E r \in Reqs : FinalRead(r)
  BY <1>12, RespondCarries, CarriesSince DEF FinalRead
<1>13. CASE \E r \in Reqs : Wake(r)
  <2>1. PICK r \in Reqs : Wake(r)
    BY <1>13
  <2>2. req[r] \in ReqSet /\ req[r].pc = "wait"
    BY <1>1, <2>1 DEF Wake
  <2>3. CASE (\E last \in BOOLEAN : Subscribe(r, [req[r] EXCEPT !.last = last])) /\ UNCHANGED clientVars
    <3>1. PICK last \in BOOLEAN : Subscribe(r, [req[r] EXCEPT !.last = last])
      BY <2>3
    <3> DEFINE q == [req[r] EXCEPT !.last = last]
    <3>2. q \in ReqSet /\ q.since = req[r].since
      <4>1. q \in ReqSet
        BY <2>2 DEF ReqSet
      <4>2. q.since = req[r].since
        BY <2>2 DEF ReqSet
      <4> QED
        BY <4>1, <4>2
    <3> HIDE DEF q
    <3>3. req'[r].since = req[r].since /\ \A t \in Reqs \ {r} : req'[t] = req[t]
      <4>1. Subscribe(r, q)
        BY <3>1 DEF q
      <4> QED
        BY <1>1, <3>2, <4>1, SubscribeCarries
    <3>4. Carries
      BY <1>1, <2>2, <2>3, <3>3 DEF Carries, clientVars
    <3> QED
      BY <3>4, CarriesSince
  <2>4. CASE /\ req' = [req EXCEPT ![r] = Idle] /\ r[1] = Desk /\ cursor' = cursor
             /\ asked' = IF asked[Desk] = r[2] THEN [asked EXCEPT ![Desk] = NoSlot] ELSE asked
    <3>1. req'[r].pc = "idle" /\ \A t \in Reqs \ {r} : req'[t] = req[t]
      BY <1>1, <2>4, RequestShapes
    <3>2. Desk \in Polls /\ Sess \subseteq Polls /\ Desk \notin Sess
      BY SignalingAssumption DEF Polls
    <3>3. asked' \in [Polls -> DeskSlots \cup Slots \cup {NoSlot}] /\ \A k \in Sess : asked'[k] = asked[k]
      BY <1>1, <2>4, <3>2
    <3>4. Carries
      BY <2>4, <3>1, <3>3 DEF Carries
    <3> QED
      BY <3>4, CarriesSince
  <2>5. CASE req' = [req EXCEPT ![r] = Final(@)] /\ UNCHANGED clientVars
    <3>1. req' = [req EXCEPT ![r] = Final(req[r])] /\ UNCHANGED <<asked, cursor>>
      BY <1>1, <2>5 DEF clientVars
    <3>2. Final(req[r]).since = req[r].since
      BY DEF Final, Idle
    <3>3. Carries
      BY <1>1, <2>2, <3>1, <3>2, OneCarries
    <3> QED
      BY <3>3, CarriesSince
  <2> QED
    BY <2>1, <2>3, <2>4, <2>5 DEF Wake
<1> QED
  BY <1>3, <1>4, <1>6, <1>7, <1>8, <1>9, <1>10, <1>11, <1>12, <1>13 DEF Next

\* What a party reads of a log: the peer's candidates behind its cursor.
LEMMA PeerIceIsTook ==
    ASSUME StoreTyped, NEW s \in Sess, NEW p \in Parties
    PROVE  /\ PeerIce(s, p, 0) = Posted(ice[s], p)
           /\ \A c \in Nat : PeerIce(s, p, c) = Took(ice[s], PeerRows(s, p, c))
<1>1. \A c : PeerIce(s, p, c) = Took(ice[s], PeerRows(s, p, c))
  BY DEF PeerIce, Took
<1>2. PeerRows(s, p, 0) = RowsTo(ice[s], p, Len(ice[s]))
  BY DEF PeerRows, RowsTo
<1> QED
  BY <1>1, <1>2 DEF Posted

\* What a peer posted is in the log.
LEMMA PostedTyped ==
    ASSUME NEW log \in Seq(Blobs), NEW p
    PROVE  /\ Posted(log, p) \in Seq(Blobs)
           /\ \A i \in 1 .. Len(Posted(log, p)) : Posted(log, p)[i] \in ToSet(log)
<1>1. Len(log) \in Nat /\ RowsTo(log, p, Len(log)) \in SUBSET (1 .. Len(log))
  BY LenProperties DEF RowsTo
<1>2. PICK I \in SUBSET (1 .. Len(log)) : I = RowsTo(log, p, Len(log))
  BY <1>1
<1>3. Posted(log, p) = Took(log, I)
  BY <1>2 DEF Posted
<1>4. /\ Took(log, I) \in Seq(Blobs) /\ Len(Took(log, I)) = Cardinality(I)
      /\ \A i \in 1 .. Cardinality(I) :
            InOrder(I)[i] \in I /\ Took(log, I)[i] = log[InOrder(I)[i]]
  BY TookTyped
<1>5. \A x \in 1 .. Len(log) : log[x] \in ToSet(log)
  BY <1>1 DEF ToSet
<1> QED
  BY <1>3, <1>4, <1>5

\* A read from the cursor on completes what was taken in.
LEMMA ReadsOn ==
    ASSUME NEW log \in Seq(Blobs), NEW p, NEW c \in Nat, c <= Len(log),
           NEW J, J = {i \in (c + 1) .. Len(log) : log[i].from = Peer(p)}
    PROVE  Posted(log, p) = Took(log, RowsTo(log, p, c)) \o Took(log, J)
<1>1. PICK n \in Nat : n = Len(log)
  BY LenProperties
<1>2. PICK I \in SUBSET (1 .. n) : I = RowsTo(log, p, c)
  <2>1. RowsTo(log, p, c) \subseteq 1 .. n
    BY <1>1 DEF RowsTo
  <2> QED
    BY <2>1
<1>3. J \in SUBSET (1 .. n)
  BY <1>1
<1>4. \A x \in I, y \in J : x < y
  BY <1>1, <1>2 DEF RowsTo
<1>5. RowsTo(log, p, n) = I \cup J
  BY <1>1, <1>2 DEF RowsTo
<1>6. Took(log, I \cup J) = Took(log, I) \o Took(log, J)
  BY <1>1, <1>2, <1>3, <1>4, TookJoins
<1> QED
  BY <1>1, <1>2, <1>5, <1>6 DEF Posted

\* A candidate appended to the log is the last the peer posted; what was taken
\* in is what it was.
LEMMA PostedAppends ==
    ASSUME NEW log \in Seq(Blobs), NEW b \in Blobs, NEW p
    PROVE  /\ \A c \in Nat : c <= Len(log) =>
                Took(Append(log, b), RowsTo(Append(log, b), p, c)) = Took(log, RowsTo(log, p, c))
           /\ b.from = Peer(p) => Posted(Append(log, b), p) = Append(Posted(log, p), b)
           /\ b.from # Peer(p) => Posted(Append(log, b), p) = Posted(log, p)
<1>1. PICK n \in Nat : n = Len(log)
  BY LenProperties
<1>2. PICK new \in Seq(Blobs) : /\ new = Append(log, b) /\ Len(new) = n + 1 /\ new[n + 1] = b
                                /\ \A i \in 1 .. n : new[i] = log[i]
  <2>1. /\ Append(log, b) \in Seq(Blobs) /\ Len(Append(log, b)) = n + 1 /\ Append(log, b)[n + 1] = b
        /\ \A i \in 1 .. n : Append(log, b)[i] = log[i]
    BY <1>1, AppendProperties
  <2> QED
    BY <2>1
<1>3. ASSUME NEW c \in Nat, c <= n
      PROVE  /\ RowsTo(new, p, c) = RowsTo(log, p, c)
             /\ Took(new, RowsTo(new, p, c)) = Took(log, RowsTo(log, p, c))
  <2>1. \A i \in 1 .. c : new[i] = log[i]
    BY <1>2, <1>3
  <2>2. RowsTo(new, p, c) = RowsTo(log, p, c)
    BY <2>1 DEF RowsTo
  <2>3. RowsTo(log, p, c) \in SUBSET (1 .. Len(log))
    BY <1>1, <1>3 DEF RowsTo
  <2>4. Took(new, RowsTo(log, p, c)) = Took(log, RowsTo(log, p, c))
    <3>1. PICK I \in SUBSET (1 .. Len(log)) : I = RowsTo(log, p, c)
      BY <2>3
    <3> QED
      BY <1>2, <3>1, TookAppends
  <2> QED
    BY <2>2, <2>4
<1>4. PICK I \in SUBSET (1 .. Len(log)) : I = RowsTo(log, p, n) /\ I = RowsTo(new, p, n)
  <2>1. RowsTo(log, p, n) \in SUBSET (1 .. Len(log)) /\ n <= n
    BY <1>1 DEF RowsTo
  <2> QED
    BY <1>3, <2>1
<1>5. Took(new, I) = Took(log, I) /\ Took(new, I \cup {n + 1}) = Append(Took(log, I), b)
  BY <1>1, <1>2, TookAppends
<1>6. Posted(log, p) = Took(log, I) /\ Posted(new, p) = Took(new, RowsTo(new, p, n + 1))
  BY <1>1, <1>2, <1>4 DEF Posted
<1>7. CASE b.from = Peer(p)
  <2>1. RowsTo(new, p, n + 1) = I \cup {n + 1}
    BY <1>2, <1>4, <1>7 DEF RowsTo
  <2> QED
    BY <1>1, <1>2, <1>3, <1>5, <1>6, <1>7, <2>1
<1>8. CASE b.from # Peer(p)
  <2>1. RowsTo(new, p, n + 1) = I
    BY <1>2, <1>4, <1>8 DEF RowsTo
  <2> QED
    BY <1>1, <1>2, <1>3, <1>5, <1>6, <1>8, <2>1
<1> QED
  BY <1>7, <1>8

-----------------------------------------------------------------------------
(* What a step does to the links. *)

Appends(s, b) ==
    /\ b \notin ToSet(ice[s])
    /\ ice' = [ice EXCEPT ![s] = Append(@, b)]
    /\ UNCHANGED <<cursor, got>>
Reads(s, p) ==
    /\ got' = [got EXCEPT ![<<s, p>>] = @ \o PeerIce(s, p, cursor[<<s, p>>])]
    /\ cursor' = [cursor EXCEPT ![<<s, p>>] = Len(ice[s])]
    /\ UNCHANGED ice

\* The answer to a poll is taken only by the client that listens, from where it
\* stands.
LEMMA RespondReads ==
    ASSUME SinceInv, NEW r \in Reqs, req[r].pc # "idle", Respond(r), UNCHANGED ice
    PROVE  UNCHANGED <<ice, cursor, got>> \/ \E s \in Sess : Reads(s, "browser")
<1>1. CASE asked[r[1]] # r[2]
  BY <1>1 DEF Respond, clientVars
<1>2. CASE asked[r[1]] = r[2]
  <2>1. CASE UNCHANGED <<got, cursor>>
    BY <2>1
  <2>2. CASE r[1] \in Sess /\ TakeProgress(r[1], req[r].since, req[r].seen)
    <3>1. req[r].since = cursor[<<r[1], "browser">>]
      BY <1>2, <2>2 DEF SinceInv
    <3> QED
      BY <2>2, <3>1 DEF TakeProgress, Reads
  <2> QED
    BY <1>2, <2>1, <2>2 DEF Respond
<1> QED
  BY <1>1, <1>2

\* Every step leaves the candidates alone, appends one or reads a batch.
LEMMA LinkSteps ==
    ASSUME SinceInv, [Next]_vars
    PROVE  \/ UNCHANGED <<ice, cursor, got>>
           \/ \E s \in Sess : \E b \in Blobs : Appends(s, b)
           \/ \E s \in Sess : \E p \in Parties : Reads(s, p)
<1>1. CASE \/ UNCHANGED vars \/ ListenerBack \/ ListenerLost
           \/ \E s \in Sess : \/ CreateSession(s) \/ CheckAnswer(s) \/ WriteAnswer(s) \/ Cancel(s)
                              \/ TimeToLive(s) \/ RefuseExpired(s) \/ StopPolling(s) \/ ServeEnds(s)
                              \/ \E b \in Blobs : CheckIce(s, b)
  BY <1>1 DEF vars, storeVars, clientVars, ListenerBack, ListenerLost, CreateSession, CheckAnswer,
              WriteAnswer, Cancel, TimeToLive, RefuseExpired, StopPolling, ServeEnds, CheckIce
<1>2. CASE \/ \E k \in Polls : Publish(k) \/ GiveUp(k) \/ \E i \in SlotsOf(k) : Poll(k, i)
           \/ \E r \in Reqs : TimerFires(r) \/ Aborted(r) \/ Wake(r)
  BY <1>2 DEF storeVars, clientVars, Publish, GiveUp, Poll, TimerFires, Aborted, Wake
<1>3. CASE \E s \in Sess : \E b \in Blobs : WriteIce(s, b)
  BY <1>3 DEF WriteIce, clientVars, Appends
<1>4. CASE \E s \in Sess : FetchIce(s)
  <2>1. "desktop" \in Parties
    BY DEF Parties
  <2> QED
    BY <1>4, <2>1 DEF FetchIce, storeVars, Reads
<1>5. CASE \E r \in Reqs : Query(r) \/ FinalRead(r)
  <2>1. PICK r \in Reqs : Query(r) \/ FinalRead(r)
    BY <1>5
  <2>2. req[r].pc # "idle" /\ UNCHANGED ice /\ (Respond(r) \/ UNCHANGED clientVars)
    BY <2>1 DEF Query, FinalRead
  <2>3. "browser" \in Parties
    BY DEF Parties
  <2> QED
    BY <2>2, <2>3, RespondReads DEF clientVars
<1> QED
  BY <1>1, <1>2, <1>3, <1>4, <1>5 DEF Next

\* A read takes in all the peer has posted.
LEMMA ReadIsPosted ==
    ASSUME StoreTyped, LinkInv, NEW s \in Sess, NEW p \in Parties, Reads(s, p)
    PROVE  /\ ice' = ice /\ cursor' = [cursor EXCEPT ![<<s, p>>] = Len(ice[s])]
           /\ got' = [got EXCEPT ![<<s, p>>] = Posted(ice[s], p)]
           /\ \E batch \in Seq(Blobs) : Posted(ice[s], p) = got[<<s, p>>] \o batch
<1>1. /\ ice \in [Sess -> Seq(Blobs)] /\ cursor \in [Links -> Nat] /\ got \in [Links -> Seq(Blobs)]
      /\ <<s, p>> \in Links
  BY DEF StoreTyped, LinkInv, Links
<1>2. PICK c \in Nat : c = cursor[<<s, p>>]
  BY <1>1
<1>3. PICK log \in Seq(Blobs) : log = ice[s]
  BY <1>1
<1>4. c <= Len(log) /\ got[<<s, p>>] = Took(log, RowsTo(log, p, c))
  BY <1>2, <1>3 DEF LinkInv
<1>5. PICK J : J = PeerRows(s, p, c)
  OBVIOUS
<1>6. J = {i \in (c + 1) .. Len(log) : log[i].from = Peer(p)}
  BY <1>3, <1>5 DEF PeerRows
<1>7. Posted(log, p) = got[<<s, p>>] \o Took(log, J)
  BY <1>4, <1>6, ReadsOn
<1>8. PeerIce(s, p, c) = Took(log, J)
  BY <1>3, <1>5, PeerIceIsTook
<1>9. Took(log, J) \in Seq(Blobs)
  <2>1. J \in SUBSET (1 .. Len(log))
    <3>1. Len(log) \in Nat
      BY LenProperties
    <3>2. J \subseteq 1 .. Len(log)
      BY <1>6, <3>1
    <3> QED
      BY <3>2
  <2> QED
    BY <2>1, TookTyped
<1>10. got' = [got EXCEPT ![<<s, p>>] = got[<<s, p>>] \o PeerIce(s, p, c)]
  BY <1>1, <1>2 DEF Reads
<1> QED
  BY <1>3, <1>7, <1>8, <1>9, <1>10 DEF Reads

\* The reader's cursor and what it has taken in stay together.
LEMMA StepLink == ASSUME StoreTyped, LinkInv, SinceInv, [Next]_vars PROVE LinkInv'
<1>1. /\ ice \in [Sess -> Seq(Blobs)] /\ cursor \in [Links -> Nat] /\ got \in [Links -> Seq(Blobs)]
      /\ \A s \in Sess, p \in Parties : <<s, p>> \in Links
  BY DEF StoreTyped, LinkInv, Links
<1>2. CASE UNCHANGED <<ice, cursor, got>>
  BY <1>2 DEF LinkInv
<1>3. ASSUME NEW t \in Sess, NEW b \in Blobs, Appends(t, b) PROVE LinkInv'
  <2>1. UNCHANGED <<cursor, got>> /\ ice' = [ice EXCEPT ![t] = Append(ice[t], b)]
    BY <1>1, <1>3 DEF Appends
  <2>2. ASSUME NEW s \in Sess, NEW p \in Parties
        PROVE  /\ cursor[<<s, p>>] <= Len(ice'[s])
               /\ got[<<s, p>>] = Took(ice'[s], RowsTo(ice'[s], p, cursor[<<s, p>>]))
    <3>1. PICK c \in Nat : c = cursor[<<s, p>>]
      BY <1>1
    <3>2. PICK log \in Seq(Blobs) : log = ice[s]
      BY <1>1
    <3>3. c <= Len(log) /\ got[<<s, p>>] = Took(log, RowsTo(log, p, c))
      BY <3>1, <3>2 DEF LinkInv
    <3>4. CASE s = t
      <4>1. ice'[s] = Append(log, b)
        BY <1>1, <2>1, <3>2, <3>4
      <4>2. Len(Append(log, b)) = Len(log) + 1 /\ Len(log) \in Nat
        BY LenProperties, AppendProperties
      <4>3. c <= Len(Append(log, b))
        BY <3>3, <4>2
      <4>4. Took(Append(log, b), RowsTo(Append(log, b), p, c)) = Took(log, RowsTo(log, p, c))
        BY <3>3, PostedAppends
      <4> QED
        BY <3>1, <3>3, <4>1, <4>3, <4>4
    <3>5. CASE s # t
      <4>1. ice'[s] = log
        BY <1>1, <2>1, <3>2, <3>5
      <4> QED
        BY <3>1, <3>3, <4>1
    <3> QED
      BY <3>4, <3>5
  <2> QED
    BY <1>1, <2>1, <2>2 DEF LinkInv
<1>4. ASSUME NEW t \in Sess, NEW o \in Parties, Reads(t, o) PROVE LinkInv'
  <2>1. PICK log \in Seq(Blobs) : log = ice[t]
    BY <1>1
  <2>2. Len(log) \in Nat /\ Posted(log, o) \in Seq(Blobs)
    BY LenProperties, PostedTyped
  <2>3. /\ ice' = ice /\ cursor' = [cursor EXCEPT ![<<t, o>>] = Len(log)]
        /\ got' = [got EXCEPT ![<<t, o>>] = Posted(log, o)]
    BY <1>1, <1>4, <2>1, ReadIsPosted
  <2>4. got' \in [Links -> Seq(Blobs)]
    BY <1>1, <2>2, <2>3
  <2>5. ASSUME NEW s \in Sess, NEW p \in Parties
        PROVE  /\ cursor'[<<s, p>>] <= Len(ice[s])
               /\ got'[<<s, p>>] = Took(ice[s], RowsTo(ice[s], p, cursor'[<<s, p>>]))
    <3>1. CASE s = t /\ p = o
      <4>1. cursor'[<<s, p>>] = Len(log) /\ got'[<<s, p>>] = Posted(log, o) /\ Len(log) <= Len(log)
        BY <1>1, <2>2, <2>3, <3>1
      <4> QED
        BY <2>1, <3>1, <4>1 DEF Posted
    <3>2. CASE s # t \/ p # o
      <4>1. cursor'[<<s, p>>] = cursor[<<s, p>>] /\ got'[<<s, p>>] = got[<<s, p>>]
        BY <1>1, <2>3, <3>2
      <4> QED
        BY <4>1 DEF LinkInv
    <3> QED
      BY <3>1, <3>2
  <2> QED
    BY <2>3, <2>4, <2>5 DEF LinkInv
<1> QED
  BY <1>2, <1>3, <1>4, LinkSteps

LEMMA InitLink == Init => SinceInv /\ LinkInv
<1> SUFFICES ASSUME Init PROVE SinceInv /\ LinkInv
  OBVIOUS
<1>1. SinceInv
  <2>1. \A r \in Reqs : req[r].pc = "idle"
    BY RequestShapes DEF Init
  <2> QED
    BY <2>1 DEF SinceInv, Init
<1>2. Cardinality({}) = 0
  BY FS_EmptySet
<1>3. \A log, p : RowsTo(log, p, 0) = {}
  BY DEF RowsTo
<1>4. \A log : Took(log, {}) = << >>
  BY <1>2 DEF Took
<1>5. \A s \in Sess, p \in Parties :
        cursor[<<s, p>>] = 0 /\ got[<<s, p>>] = << >> /\ ice[s] = << >>
  BY DEF Init, Links
<1>6. got \in [Links -> Seq(Blobs)]
  BY DEF Init
<1>7. \A s \in Sess, p \in Parties : /\ cursor[<<s, p>>] <= Len(ice[s])
                                     /\ got[<<s, p>>] = Took(ice[s], RowsTo(ice[s], p, cursor[<<s, p>>]))
  <2>1. 0 <= Len(<< >>)
    OBVIOUS
  <2>2. \A log, p : Took(log, RowsTo(log, p, 0)) = << >>
    BY <1>3, <1>4, Zenon
  <2> QED
    BY <1>5, <2>1, <2>2
<1> QED
  BY <1>1, <1>6, <1>7 DEF LinkInv

-----------------------------------------------------------------------------
(* The refinement. *)

\* The refinement mapping of accepted.
Accepted == [l \in Links |-> PeerIce(l[1], l[2], 0)]

\* Accepted is what each party's peer posted.
AcceptedPosted ==
    /\ \A s \in Sess, p \in Parties : Accepted[<<s, p>>] = Posted(ice[s], p)
    /\ Accepted \in [Links -> Seq(Blobs)]

LEMMA AcceptedMeans == StoreTyped => AcceptedPosted
<1> SUFFICES ASSUME StoreTyped PROVE AcceptedPosted
  OBVIOUS
<1>1. \A s \in Sess, p \in Parties : <<s, p>> \in Links
  BY DEF Links
<1>2. \A s \in Sess, p \in Parties : Accepted[<<s, p>>] = Posted(ice[s], p)
  BY <1>1, PeerIceIsTook DEF Accepted
<1>3. \A s \in Sess, p \in Parties : Posted(ice[s], p) \in Seq(Blobs)
  BY PostedTyped DEF StoreTyped
<1>4. \A l \in Links : Accepted[l] \in Seq(Blobs)
  BY <1>2, <1>3 DEF Links
<1>5. Accepted = [l \in Links |-> Accepted[l]]
  BY DEF Accepted
<1> QED
  BY <1>2, <1>4, <1>5 DEF AcceptedPosted

LEMMA AcceptedMeansNext == StoreTyped' => AcceptedPosted'
BY AcceptedMeans, PTL

LEMMA LinkInit == Init => Accepted = [l \in Links |-> << >>] /\ got = [l \in Links |-> << >>]
<1> SUFFICES ASSUME Init PROVE Accepted = [l \in Links |-> << >>]
  BY DEF Init
<1>1. StoreTyped
  BY InitHub DEF TypeInv
<1>2. \A s \in Sess : ice[s] = << >>
  BY DEF Init
<1>3. \A p : Posted(<< >>, p) = << >>
  <2>1. Cardinality({}) = 0
    BY FS_EmptySet
  <2>2. \A p : RowsTo(<< >>, p, Len(<< >>)) = {}
    BY DEF RowsTo
  <2> QED
    BY <2>1, <2>2 DEF Posted, Took
<1>4. \A l \in Links : Accepted[l] = << >>
  BY <1>1, <1>2, <1>3, AcceptedMeans DEF Links, AcceptedPosted
<1> QED
  BY <1>4 DEF Accepted

\* A candidate appended to the log is accepted on one link, that of the party it
\* is not from.
LEMMA AppendAccepts ==
    ASSUME StoreTyped, StoreTyped', NEW s \in Sess, NEW b \in Blobs, Appends(s, b)
    PROVE  \E l \in Links : /\ \A i \in DOMAIN Accepted[l] : Accepted[l][i] # b
                            /\ Accepted' = [Accepted EXCEPT ![l] = Append(@, b)]
                            /\ got' = got
<1>1. PICK log \in Seq(Blobs) : log = ice[s]
  BY DEF StoreTyped
<1>2. /\ ice \in [Sess -> Seq(Blobs)] /\ ice' = [ice EXCEPT ![s] = Append(log, b)] /\ got' = got
      /\ b \notin ToSet(log)
  BY <1>1 DEF Appends, StoreTyped
<1>3. PICK p \in Parties : /\ b.from = Peer(p)
                           /\ \A o \in Parties : o # p => b.from # Peer(o)
  BY SignalingAssumption DEF Parties, Peer
<1>4. PICK l \in Links : l = <<s, p>>
  BY DEF Links
<1>5. Accepted[l] = Posted(log, p)
  BY <1>1, <1>4, AcceptedMeans DEF AcceptedPosted
<1>6. Posted(log, p) \in Seq(Blobs) /\ \A i \in 1 .. Len(Posted(log, p)) : Posted(log, p)[i] # b
  BY <1>2, PostedTyped
<1>7. \A i \in DOMAIN Accepted[l] : Accepted[l][i] # b
  BY <1>5, <1>6
<1>8. /\ Accepted' \in [Links -> Seq(Blobs)] /\ Accepted \in [Links -> Seq(Blobs)]
      /\ \A t \in Sess, o \in Parties : /\ Accepted[<<t, o>>] = Posted(ice[t], o)
                                        /\ Accepted'[<<t, o>>] = Posted(ice'[t], o)
  BY AcceptedMeans, AcceptedMeansNext DEF AcceptedPosted
<1>9. ASSUME NEW t \in Sess, NEW o \in Parties
      PROVE  /\ <<t, o>> = l => Accepted'[<<t, o>>] = Append(Accepted[l], b)
             /\ <<t, o>> # l => Accepted'[<<t, o>>] = Accepted[<<t, o>>]
  <2>1. CASE t # s
    <3>1. ice'[t] = ice[t] /\ <<t, o>> # l
      BY <1>2, <1>4, <2>1
    <3> QED
      BY <1>8, <3>1
  <2>2. CASE t = s
    <3>1. ice'[t] = Append(log, b) /\ ice[t] = log
      BY <1>1, <1>2, <2>2
    <3>2. Accepted'[<<t, o>>] = Posted(Append(log, b), o) /\ Accepted[<<t, o>>] = Posted(log, o)
      BY <1>8, <3>1
    <3>3. CASE o = p
      <4>1. Posted(Append(log, b), p) = Append(Posted(log, p), b)
        BY <1>3, PostedAppends
      <4> QED
        BY <1>4, <1>5, <2>2, <3>2, <3>3, <4>1
    <3>4. CASE o # p
      <4>1. b.from # Peer(o)
        BY <1>3, <3>4
      <4>2. Posted(Append(log, b), o) = Posted(log, o)
        BY <4>1, PostedAppends
      <4> QED
        BY <1>4, <3>2, <3>4, <4>2
    <3> QED
      BY <3>3, <3>4
  <2> QED
    BY <2>1, <2>2
<1>10. \A m \in Links : (m = l => Accepted'[m] = Append(Accepted[l], b)) /\ (m # l => Accepted'[m] = Accepted[m])
  BY <1>9 DEF Links
<1>11. Accepted' = [Accepted EXCEPT ![l] = Append(@, b)]
  BY <1>8, <1>10
<1> QED
  BY <1>2, <1>7, <1>11

\* A read delivers everything accepted on its link.
LEMMA ReadDelivers ==
    ASSUME StoreTyped, StoreTyped', LinkInv, NEW s \in Sess, NEW p \in Parties, Reads(s, p)
    PROVE  /\ Accepted' = Accepted
           /\ \/ got' = got
              \/ \E l \in Links : \E n \in (Len(got[l]) + 1) .. Len(Accepted[l]) :
                    got' = [got EXCEPT ![l] = SubSeq(Accepted[l], 1, n)]
<1>1. PICK l \in Links : l = <<s, p>>
  BY DEF Links
<1>2. /\ ice' = ice /\ got' = [got EXCEPT ![l] = Posted(ice[s], p)]
      /\ \E batch \in Seq(Blobs) : Posted(ice[s], p) = got[l] \o batch
  BY <1>1, ReadIsPosted
<1>3. PICK acc \in Seq(Blobs) : acc = Accepted[l] /\ acc = Posted(ice[s], p)
  BY <1>1, AcceptedMeans DEF AcceptedPosted
<1>4. got \in [Links -> Seq(Blobs)]
  BY DEF LinkInv
<1>5. PICK old \in Seq(Blobs) : old = got[l]
  BY <1>4
<1>6. PICK batch \in Seq(Blobs) : acc = old \o batch
  BY <1>2, <1>3, <1>5
<1>7. Accepted' = Accepted
  BY <1>2 DEF Accepted, PeerIce, PeerRows
<1>8. /\ Len(old) \in Nat /\ Len(batch) \in Nat /\ Len(acc) = Len(old) + Len(batch)
  BY <1>6, LenProperties, ConcatProperties
<1>9. CASE batch = << >>
  <2>1. acc = old
    BY <1>6, <1>9, ConcatEmptySeq
  <2> QED
    BY <1>2, <1>3, <1>4, <1>5, <1>7, <2>1
<1>10. CASE batch # << >>
  <2>1. Len(batch) # 0
    BY <1>10, EmptySeq
  <2>2. Len(acc) \in (Len(old) + 1) .. Len(acc)
    BY <1>8, <2>1
  <2>3. SubSeq(acc, 1, Len(acc)) = acc
    BY SubSeqFull
  <2> QED
    BY <1>2, <1>3, <1>5, <1>7, <2>2, <2>3
<1> QED
  BY <1>9, <1>10

\* Every step is a step of the links, or none.
LEMMA LinkNext ==
    ASSUME StoreTyped, StoreTyped', LinkInv, SinceInv, [Next]_vars
    PROVE  [Link!Next]_<<[l \in Links |-> PeerIce(l[1], l[2], 0)], got>>
<1>1. CASE UNCHANGED <<ice, cursor, got>>
  <2>1. Accepted' = Accepted /\ got' = got
    BY <1>1 DEF Accepted, PeerIce, PeerRows
  <2> QED
    BY <2>1 DEF Accepted
<1>2. ASSUME NEW s \in Sess, NEW b \in Blobs, Appends(s, b) PROVE Link!Next
  <2>1. PICK l \in Links : /\ \A i \in DOMAIN Accepted[l] : Accepted[l][i] # b
                           /\ Accepted' = [Accepted EXCEPT ![l] = Append(@, b)]
                           /\ got' = got
    BY <1>2, AppendAccepts
  <2>2. Link!Accept(l, b)
    BY <2>1 DEF Accepted, Link!Accept
  <2> QED
    BY <2>2 DEF Link!Next
<1>3. ASSUME NEW s \in Sess, NEW p \in Parties, Reads(s, p)
      PROVE  Link!Next \/ UNCHANGED <<Accepted, got>>
  BY <1>3, ReadDelivers DEF Accepted, Link!Next, Link!Deliver
<1> QED
  BY <1>1, <1>2, <1>3, LinkSteps DEF Accepted

\* Each party receives the other's candidates once each and in the order in
\* which the broker accepted them, whatever posts and reads were retried, lost or
\* overlapped (appendIce, getPeerIceSince and the readers' cursors).
THEOREM LinksAreDelivered == Spec => LinksDeliver
<1>1. Init => TypeInv /\ SinceInv /\ LinkInv
  BY InitHub, InitLink
<1>2. ASSUME TypeInv, SinceInv, LinkInv, [Next]_vars PROVE TypeInv' /\ SinceInv' /\ LinkInv'
  BY <1>2, StepReqTyped, StepStoreTyped, StepSince, StepLink DEF TypeInv
<1>3. Spec => [](TypeInv /\ SinceInv /\ LinkInv)
  BY <1>1, <1>2, PTL DEF Spec
<1>4. Init => Link!Init
  BY LinkInit DEF Link!Init, Accepted
<1>5. ASSUME TypeInv, TypeInv', SinceInv, LinkInv, [Next]_vars
      PROVE  [Link!Next]_<<[l \in Links |-> PeerIce(l[1], l[2], 0)], got>>
  BY <1>5, LinkNext DEF TypeInv
<1> QED
  BY <1>3, <1>4, <1>5, PTL DEF Spec, LinksDeliver, Link!Spec
=============================================================================
