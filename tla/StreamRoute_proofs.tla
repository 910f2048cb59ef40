-------------------------- MODULE StreamRoute_proofs --------------------------
(***************************************************************************)
(* Proofs about StreamRoute, for any sessions and bounds: only lines of    *)
(* the published binding's own Attach paint the viewport, the daemon keeps *)
(* serving that binding, stale lines are inert, its echo is never dropped, *)
(* and every exit is told exactly once to the binding it belongs to.       *)
(***************************************************************************)
EXTENDS StreamRoute, FiniteSetTheorems, SequenceTheorems, TLAPS

-----------------------------------------------------------------------------
(* The inductive invariant.                                                *)

(* The stream: the line in the reader's hand, if it has one, and the queue     *)
(* behind it.                                                                  *)
InHand     == pc \in {"post", "dispatch"}
Committing == pc \in {"clone", "note", "commit"}
Pos   == {i \in 0 .. Len(wire) : i = 0 => InHand \/ Committing}
At(i) == IF i = 0 THEN line ELSE wire[i]

(* The types.  A binding has a session, an output generation and a PTY         *)
(* generation, or is neutral; a line carries at most one tag, the tag is the   *)
(* Attach that caused it, and only Grids are untagged.                         *)
Requests == [op : {"detach", "attach", "snapshot"}, id : Sess, og : 0 .. MaxBind, gen : 0 .. MaxGen]
IsBinding(b) ==
    \/ b.id = NoSess /\ b.og = 0 /\ b.gen = 0
    \/ b.id \in Sess /\ b.og \in Ogs /\ b.gen \in Gens
Lines == {e \in LineSet :
            /\ e.kind # "none" /\ e.id \in Sess /\ e.gen \in Gens
            /\ e.echo = 0 \/ e.live = 0
            /\ e.echo # 0 => e.kind = "grid" /\ e.src = e.echo
            /\ e.live # 0 => e.kind # "refused" /\ e.src = e.live
            /\ e.kind \in {"damage", "exit"} => e.live # 0}
UiTyped ==
    /\ active \in [epoch : 1 .. 2 * MaxBind + 1, id : Sess \cup {NoSess},
                    og : 0 .. MaxBind, gen : 0 .. MaxGen]
    /\ IsBinding(active)
    /\ active.epoch <= 2 * nextOg + (IF closed = "open" THEN 0 ELSE 1)
    /\ active.id # NoSess => active.epoch <= 2 * nextOg - 1
    /\ admission \in TokenSet /\ nextOg \in Ogs /\ active.og <= nextOg
    /\ attached \subseteq Sess /\ owed \subseteq Sess
    /\ IsFiniteSet(attached) /\ IsFiniteSet(owed)
    /\ grid \in 0 .. MaxBind /\ exitShown \in 0 .. MaxBind
    /\ closed \in {"open", "refused", "receipt"}
    /\ out \in Seq(Requests)
    /\ \A i \in DOMAIN out : out[i].op = "attach" => out[i].og \in Ogs /\ out[i].gen \in Gens
    /\ active.id # NoSess => owed = {}
DaemonTyped ==
    /\ att \in [Sess -> 0 .. MaxBind]
    /\ fwd \subseteq [id : Sess, og : Ogs, gen : Gens, aborted : BOOLEAN]
    /\ gen \in [Sess -> Gens] /\ ended \in [Sess -> BOOLEAN]
    /\ frames \in 0 .. MaxFrames /\ wire \in Seq(Lines) /\ sent \subseteq Ogs
ReaderTyped ==
    /\ pc \in {"top", "read", "post", "dispatch", "clone", "note", "commit", "stopped"}
    /\ rEpoch \in 1 .. 2 * MaxBind + 1 /\ rEpoch <= active.epoch
    /\ route \in RouteSet /\ IsBinding(route) /\ (route.id = NoSess => route = NoRoute)
    /\ retired \in Seq(RouteSet) /\ Len(retired) <= MaxRetired
    /\ \A i \in DOMAIN retired : /\ IsBinding(retired[i]) /\ retired[i].id \in Sess
                                 /\ retired[i].og \in adopted
    /\ line \in LineSet /\ {pre, post, proof} \subseteq TokenSet
    /\ InHand \/ Committing => line \in Lines /\ line.kind # "refused"
    /\ adopted \subseteq Ogs /\ evicted \subseteq Ogs
    /\ told \in [Ogs -> Seq(0 .. MaxGen)]
    /\ pc = "stopped" <=> closed # "open"

TypeInv == UiTyped /\ DaemonTyped /\ ReaderTyped

(* An output generation belongs to one incarnation of one session, wherever    *)
(* it is written.                                                              *)
Names(o, s, g) ==
    \/ active.og = o /\ active.id = s /\ active.gen = g
    \/ route.og = o /\ route.id = s /\ route.gen = g
    \/ \E i \in DOMAIN retired : retired[i].og = o /\ retired[i].id = s /\ retired[i].gen = g
    \/ \E i \in DOMAIN out : out[i] = Attach(s, o, g)
    \/ \E f \in fwd : f.og = o /\ f.id = s /\ f.gen = g
    \/ \E i \in Pos : Tag(At(i)) = o /\ At(i).id = s /\ At(i).gen = g
    \/ s \in Sess /\ att[s] = o /\ gen[s] = g
NamesInv ==
    \A o \in Ogs, s, t \in Sess, g, h \in Gens :
        Names(o, s, g) => o <= nextOg /\ (Names(o, t, h) => s = t /\ g = h)

(* Until an Attach is served, and for good when it is refused, nothing of its  *)
(* output generation is anywhere.                                              *)
Unserved(o) == \E i \in DOMAIN out : out[i].op = "attach" /\ out[i].og = o
Refused(o)  == \E i \in DOMAIN wire : wire[i].kind = "refused" /\ wire[i].src = o
Fresh(o) ==
    /\ \A i \in Pos : Tag(At(i)) # o
    /\ \A f \in fwd : f.og # o
    /\ \A s \in Sess : att[s] # o
    /\ o \notin sent /\ told[o] = <<>>
    /\ route.og = o => ~ route.confirmed
FreshInv ==
    /\ \A o \in Ogs : Unserved(o) \/ Refused(o) \/ o > nextOg => Fresh(o)
    /\ \A o \in Ogs : Unserved(o) \/ Refused(o) => o <= nextOg
    /\ \A o \in Ogs : Unserved(o) => ~ Refused(o)
    /\ \A i, j \in DOMAIN out :
          out[i].op = "attach" /\ out[j].op = "attach" /\ out[i].og = out[j].og => i = j

(* The published binding's Attach is queued behind every Detach, or served.    *)
QueueInv ==
    active.id # NoSess =>
        \/ \E i \in DOMAIN out : /\ out[i] = Attach(active.id, active.og, active.gen)
                                 /\ \A j \in DOMAIN out : j > i => out[j].op = "snapshot"
        \/ /\ \A j \in DOMAIN out : out[j].op = "snapshot"
           /\ att[active.id] = active.og \/ Refused(active.og)

(* The reader's binding is the published one, or older and never seen again.   *)
RouteInv ==
    /\ rEpoch = active.epoch =>
          route.id = active.id /\ route.og = active.og /\ route.gen = active.gen
    /\ rEpoch # active.epoch /\ active.id # NoSess => active.og \notin adopted
    /\ route.og # 0 => route.og \in adopted
    /\ adopted \subseteq 1 .. nextOg
    /\ \A i \in DOMAIN retired : retired[i].og # route.og

(* An untagged Grid that is not the binding's own is ahead of its echo.        *)
Stale(e) ==
    /\ e.kind = "grid" /\ e.echo = 0 /\ e.live = 0 /\ e.id = active.id
    /\ e.src # active.og \/ e.gen # active.gen
StaleInv ==
    active.id # NoSess => \A k \in Pos : Stale(At(k)) =>
        /\ \A j \in Pos : j < k => At(j).echo # active.og
        /\ ~ (route.og = active.og /\ route.confirmed)

(* What the reader knows of the line in its hand.                              *)
HandInv ==
    /\ InHand => pre = LocalToken(line.id)
    /\ pc = "dispatch" \/ Committing =>
          /\ post = NoToken \/ (post.id = line.id /\ post.epoch <= active.epoch)
          /\ post.epoch = active.epoch => post = SharedToken(line.id)
          /\ rEpoch = active.epoch /\ pc = "dispatch" => post = SharedToken(line.id)
          /\ line.echo = active.og /\ active.id # NoSess => post = SharedToken(line.id)
    /\ Committing =>
          /\ post # NoToken /\ post.epoch <= rEpoch
          /\ route.confirmed /\ Accepts(route, line)
          /\ pc # "commit" => line.kind = "grid"

(* Exits: each is sent once, behind the echo, and in flight or told.           *)
ExitAt(i, o) == At(i).kind = "exit" /\ At(i).live = o
ExitInv ==
    /\ \A f, h \in fwd : f.og = h.og => f = h
    /\ \A f \in fwd : f.og \notin sent
    /\ \A i, j \in Pos : At(i).kind = "exit" /\ ExitAt(j, At(i).live) => i = j
    /\ \A i \in Pos : At(i).kind = "exit" => At(i).live \in sent /\ told[At(i).live] = <<>>
    /\ \A o \in Ogs : told[o] # <<>> => o \in sent /\ Len(told[o]) = 1 /\ told[o][1] # 0
    /\ \A i \in Pos : At(i).echo # 0 =>
          told[At(i).echo] = <<>> /\ \A j \in Pos : ExitAt(j, At(i).echo) => i < j
    /\ route.exited => route.og # 0 /\ told[route.og] # <<>>
    /\ \A i \in DOMAIN retired : retired[i].exited => told[retired[i].og] # <<>>

(* Whoever waits for an exit has seen the echo by the time the exit comes.     *)
Ahead(o, k) == \E j \in Pos : j < k /\ At(j).echo = o /\ (j = 0 => InHand)
Confirmed(o) ==
    /\ route.og = o => route.confirmed
    /\ \A i \in DOMAIN retired : retired[i].og = o => retired[i].confirmed
    /\ active.og = o => rEpoch = active.epoch
EchoInv ==
    /\ \A k \in Pos : At(k).kind = "exit" => Ahead(At(k).live, k) \/ Confirmed(At(k).live)
    /\ \A f \in fwd : Ahead(f.og, Len(wire) + 1) \/ Confirmed(f.og)

(* No exit of an adopted binding is lost.                                      *)
KeptInv ==
    /\ \A o \in adopted \ evicted :
          \/ o = route.og \/ told[o] # <<>>
          \/ \E i \in DOMAIN retired : retired[i].og = o
    /\ \A o \in sent :
          \/ \E i \in Pos : ExitAt(i, o)
          \/ told[o] # <<>> \/ o \in evicted
          \/ o \notin adopted /\ o # active.og

(* The echo of the published binding is on its way, or on screen.              *)
PaintInv ==
    active.id # NoSess =>
        \/ Unserved(active.og) \/ Refused(active.og)
        \/ \E i \in Pos : At(i).echo = active.og
        \/ grid = active.og

OpenInv ==
    /\ NamesInv /\ FreshInv /\ QueueInv /\ RouteInv /\ StaleInv /\ HandInv /\ ExitInv
    /\ EchoInv /\ KeptInv /\ PaintInv /\ PaintedByOwnRoute
ClosedInv == active.id = NoSess /\ grid = 0 /\ exitShown = 0
Inv == TypeInv /\ (closed = "open" => OpenInv) /\ (closed # "open" => ClosedInv)

-----------------------------------------------------------------------------
(* Sequences. *)

\* A request or a line at the end of a queue.
LEMMA AppendTyped ==
    ASSUME NEW S, NEW s \in Seq(S), NEW e \in S
    PROVE  /\ Append(s, e) \in Seq(S) /\ Len(Append(s, e)) = Len(s) + 1
           /\ \A i \in 1 .. Len(s) : Append(s, e)[i] = s[i]
           /\ Append(s, e)[Len(s) + 1] = e
BY AppendProperties

\* The head of a queue is taken.
LEMMA TailTyped ==
    ASSUME NEW S, NEW s \in Seq(S), s # << >>
    PROVE  /\ Head(s) \in S /\ Head(s) = s[1] /\ Tail(s) \in Seq(S)
           /\ Len(Tail(s)) = Len(s) - 1 /\ Len(s) \in Nat /\ Len(s) > 0
           /\ \A i \in 1 .. Len(Tail(s)) : Tail(s)[i] = s[i + 1]
BY HeadTailProperties, LenProperties

\* A batch of Detach requests.
LEMMA DetachBatch ==
    ASSUME NEW ids \in SUBSET Sess, IsFiniteSet(ids)
    PROVE  /\ Detaches(ids) \in Seq(Requests)
           /\ \A i \in DOMAIN Detaches(ids) : Detaches(ids)[i].op = "detach"
<1> DEFINE S == {Detach(s) : s \in ids}
           F == [s \in ids |-> Detach(s)]
<1>1. F \in Bijection(ids, S)
  BY DEF Bijection, Injection, Surjection, IsInjective, Detach
<1>2. IsFiniteSet(S)
  BY <1>1, FS_Bijection DEF ExistsBijection
<1>3. Cardinality(S) \in Nat /\ ExistsBijection(1 .. Cardinality(S), S)
  BY <1>2, FS_CardinalityType
<1>4. \E f \in [1 .. Cardinality(S) -> S] : IsInjective(f)
  BY <1>3 DEF ExistsBijection, Bijection, Injection, IsInjective
<1>5. Detaches(ids) \in [1 .. Cardinality(S) -> S]
  BY <1>4 DEF Detaches, SetToSeq
<1>6. \A r \in S : r \in Requests /\ r.op = "detach"
  BY StreamRouteAssumption DEF Detach, Requests
<1> HIDE DEF S
<1>7. Detaches(ids) \in Seq(S)
  BY <1>3, <1>5, SeqDef
<1>8. Detaches(ids) \in Seq(Requests)
  BY <1>6, <1>7, SeqMonotonic
<1> QED
  BY <1>5, <1>6, <1>8

\* Two queues joined.
LEMMA JoinTyped ==
    ASSUME NEW S, NEW s \in Seq(S), NEW t \in Seq(S)
    PROVE  /\ s \o t \in Seq(S) /\ Len(s \o t) = Len(s) + Len(t)
           /\ \A i \in 1 .. Len(s) : (s \o t)[i] = s[i]
           /\ \A i \in 1 .. Len(t) : (s \o t)[Len(s) + i] = t[i]
           /\ \A i \in 1 .. Len(s) + Len(t) : i > Len(s) =>
                 i - Len(s) \in 1 .. Len(t) /\ (s \o t)[i] = t[i - Len(s)]
<1>1. Len(s) \in Nat /\ Len(t) \in Nat
  BY LenProperties
<1> QED
  BY <1>1, ConcatProperties

-----------------------------------------------------------------------------
(* The reader's view of the binding. *)

\* What sync_active_session leaves the reader with: the published binding, as it
\* held it or new; and among the retired ones nothing but what it held before.
LEMMA SyncMeans ==
    ASSUME TypeInv, RouteInv
    PROVE  /\ AdoptedRoute \in RouteSet /\ IsBinding(AdoptedRoute)
           /\ AdoptedRoute.id = active.id /\ AdoptedRoute.og = active.og
           /\ AdoptedRoute.gen = active.gen
           /\ AdoptedRoute.id = NoSess => AdoptedRoute = NoRoute
           /\ rEpoch = active.epoch => AdoptedRoute = route /\ RetiredNow = retired
           /\ rEpoch # active.epoch =>
                 /\ ~ AdoptedRoute.confirmed /\ ~ AdoptedRoute.exited
                 /\ RetiredNow = Retain(retired, route)
<1> USE StreamRouteAssumption DEF TypeInv, UiTyped, ReaderTyped, RouteInv, RouteSet, IsBinding, Ogs, Gens
<1>1. CASE rEpoch = active.epoch
  BY <1>1 DEF AdoptedRoute, RetiredNow, BindingUnchanged
<1>2. CASE rEpoch # active.epoch
  BY <1>2 DEF AdoptedRoute, RetiredNow, BindingUnchanged, NewRoute, NoRoute
<1> QED
  BY <1>1, <1>2

LEMMA RetainMeans ==
    ASSUME TypeInv
    PROVE  /\ Retain(retired, route) \in Seq(RouteSet) /\ Len(Retain(retired, route)) <= MaxRetired
           /\ \A i \in DOMAIN Retain(retired, route) :
                 \/ Retain(retired, route)[i] = route /\ route.id \in Sess
                 \/ \E j \in DOMAIN retired : Retain(retired, route)[i] = retired[j]
<1> DEFINE all == Append(retired, route)
<1>1. /\ retired \in Seq(RouteSet) /\ route \in RouteSet /\ Len(retired) <= MaxRetired
      /\ Len(retired) \in Nat /\ DOMAIN retired = 1 .. Len(retired) /\ MaxRetired \in Nat
  BY StreamRouteAssumption, LenProperties DEF TypeInv, ReaderTyped
<1>2. route # NoRoute => route.id \in Sess
  BY DEF TypeInv, ReaderTyped, RouteSet
<1>3. /\ all \in Seq(RouteSet) /\ Len(all) = Len(retired) + 1
      /\ DOMAIN all = 1 .. Len(all)
      /\ \A i \in 1 .. Len(retired) : all[i] = retired[i]
      /\ all[Len(retired) + 1] = route
  BY <1>1, AppendTyped, LenProperties
<1>4. all # << >>
  BY <1>1, AppendProperties
<1> HIDE DEF all
<1>5. /\ Tail(all) \in Seq(RouteSet) /\ Len(Tail(all)) = Len(retired)
      /\ DOMAIN Tail(all) = 1 .. Len(retired)
      /\ \A i \in 1 .. Len(retired) : Tail(all)[i] = all[i + 1]
  BY <1>1, <1>3, <1>4, TailTyped, LenProperties
<1>6. CASE route = NoRoute \/ \E i \in DOMAIN retired : retired[i].og = route.og
  BY <1>1, <1>6 DEF Retain
<1>7. CASE /\ ~ (route = NoRoute \/ \E i \in DOMAIN retired : retired[i].og = route.og)
           /\ Len(all) > MaxRetired
  <2>1. Retain(retired, route) = Tail(all)
    BY <1>7 DEF Retain, all
  <2>2. \A i \in 1 .. Len(retired) : \/ Tail(all)[i] = route
                                     \/ \E j \in DOMAIN retired : Tail(all)[i] = retired[j]
    BY <1>1, <1>3, <1>5
  <2> QED
    BY <1>1, <1>2, <1>5, <1>7, <2>1, <2>2
<1>8. CASE /\ ~ (route = NoRoute \/ \E i \in DOMAIN retired : retired[i].og = route.og)
           /\ ~ (Len(all) > MaxRetired)
  <2>1. Retain(retired, route) = all
    BY <1>8 DEF Retain, all
  <2> QED
    BY <1>1, <1>2, <1>3, <1>8, <2>1
<1> QED
  BY <1>6, <1>7, <1>8

\* The same, of the retired bindings after the reader looked.
LEMMA RetiredMeans ==
    ASSUME TypeInv, RouteInv
    PROVE  /\ RetiredNow \in Seq(RouteSet) /\ Len(RetiredNow) <= MaxRetired
           /\ \A i \in DOMAIN RetiredNow :
                 /\ \/ RetiredNow[i] = route /\ rEpoch # active.epoch
                    \/ \E j \in DOMAIN retired : RetiredNow[i] = retired[j]
                 /\ IsBinding(RetiredNow[i]) /\ RetiredNow[i].id \in Sess
                 /\ RetiredNow[i].og \in adopted /\ RetiredNow[i].og # AdoptedRoute.og
<1>1. CASE rEpoch = active.epoch
  BY <1>1, SyncMeans DEF TypeInv, ReaderTyped, RouteInv
<1>2. CASE rEpoch # active.epoch
  <2>1. RetiredNow = Retain(retired, route) /\ AdoptedRoute.og = active.og
    BY <1>2, SyncMeans
  <2>2. ASSUME NEW i \in DOMAIN RetiredNow
        PROVE  /\ \/ RetiredNow[i] = route
                  \/ \E j \in DOMAIN retired : RetiredNow[i] = retired[j]
               /\ IsBinding(RetiredNow[i]) /\ RetiredNow[i].id \in Sess
               /\ RetiredNow[i].og \in adopted
    <3>1. CASE RetiredNow[i] = route /\ route.id \in Sess
      BY <3>1, StreamRouteAssumption DEF TypeInv, ReaderTyped, RouteInv, IsBinding, Ogs
    <3>2. CASE \E j \in DOMAIN retired : RetiredNow[i] = retired[j]
      BY <3>2 DEF TypeInv, ReaderTyped
    <3> QED
      BY <2>1, <3>1, <3>2, RetainMeans
  <2>3. \A i \in DOMAIN RetiredNow : RetiredNow[i].og # active.og
    <3>1. active.og \notin adopted
      BY <1>2, StreamRouteAssumption DEF TypeInv, UiTyped, ReaderTyped, RouteInv, IsBinding, Ogs
    <3> QED
      BY <2>2, <3>1
  <2> QED
    BY <1>2, <2>1, <2>2, <2>3, RetainMeans
<1> QED
  BY <1>1, <1>2

-----------------------------------------------------------------------------
(* Types. *)

\* The parts give the type invariant of StreamRoute.
LEMMA PartsTyped == TypeInv => TypeOK
<1> SUFFICES ASSUME TypeInv PROVE TypeOK
  OBVIOUS
<1>1. wire \in Seq(LineSet)
  <2>1. Lines \subseteq LineSet
    BY DEF Lines
  <2> QED
    BY <2>1, SeqMonotonic DEF TypeInv, DaemonTyped
<1>2. \A i \in DOMAIN wire : wire[i].echo = 0 \/ wire[i].live = 0
  <2>1. \A i \in DOMAIN wire : wire[i] \in Lines
    BY LenProperties, ElementOfSeq DEF TypeInv, DaemonTyped
  <2> QED
    BY <2>1 DEF Lines
<1>3. /\ closed \in {"open", "refused", "retired", "contradiction", "receipt"}
      /\ out \in Seq([op : {"detach", "attach", "snapshot"}, id : Sess,
                       og : 0 .. MaxBind, gen : 0 .. MaxGen])
  BY DEF TypeInv, UiTyped, Requests
<1> QED
  BY <1>1, <1>2, <1>3 DEF TypeOK, TypeInv, UiTyped, DaemonTyped, ReaderTyped

\* A line of the wire, or in the reader's hand, is a line.
LEMMA LinesTyped ==
    ASSUME TypeInv
    PROVE  /\ Len(wire) \in Nat /\ DOMAIN wire = 1 .. Len(wire)
           /\ \A i \in DOMAIN wire : wire[i] \in Lines
           /\ \A i \in Pos : At(i) \in Lines
           /\ Len(out) \in Nat /\ DOMAIN out = 1 .. Len(out)
           /\ \A i \in DOMAIN out : out[i] \in Requests
           /\ Len(retired) \in Nat /\ DOMAIN retired = 1 .. Len(retired)
           /\ \A i \in DOMAIN retired : retired[i] \in RouteSet
<1>1. /\ Len(wire) \in Nat /\ DOMAIN wire = 1 .. Len(wire)
      /\ \A i \in DOMAIN wire : wire[i] \in Lines
  BY LenProperties, ElementOfSeq DEF TypeInv, DaemonTyped
<1>2. /\ Len(out) \in Nat /\ DOMAIN out = 1 .. Len(out)
      /\ \A i \in DOMAIN out : out[i] \in Requests
  BY LenProperties, ElementOfSeq DEF TypeInv, UiTyped
<1>3. /\ Len(retired) \in Nat /\ DOMAIN retired = 1 .. Len(retired)
      /\ \A i \in DOMAIN retired : retired[i] \in RouteSet
  BY LenProperties, ElementOfSeq DEF TypeInv, ReaderTyped
<1>4. \A i \in Pos : At(i) \in Lines
  BY <1>1 DEF Pos, At, TypeInv, ReaderTyped
<1> QED
  BY <1>1, <1>2, <1>3, <1>4

\* What each party puts on the wire.
LEMMA LinesMade ==
    ASSUME NEW s \in Sess, NEW o \in Ogs, NEW g \in Gens, NEW n \in 0 .. MaxBind
    PROVE  /\ Line("grid", s, g, o, 0, o) \in Lines /\ Line("exit", s, g, 0, o, o) \in Lines
           /\ Line("grid", s, g, 0, o, o) \in Lines /\ Line("damage", s, g, 0, o, o) \in Lines
           /\ Line("refused", s, g, 0, 0, o) \in Lines /\ Line("grid", s, g, 0, 0, n) \in Lines
BY StreamRouteAssumption DEF Lines, LineSet, Line, Ogs, Gens

LEMMA InitTyped == Init => TypeInv
<1> SUFFICES ASSUME Init PROVE TypeInv
  OBVIOUS
<1> PICK s \in Sess :
        /\ active = [epoch |-> 1, id |-> s, og |-> 1, gen |-> 1]
        /\ admission = Token(1, s, 1)
        /\ nextOg = 1 /\ attached = {s} /\ owed = {}
        /\ grid = 0 /\ exitShown = 0 /\ closed = "open"
        /\ out = <<Attach(s, 1, 1), Snapshot(s)>>
        /\ att = [x \in Sess |-> 0] /\ fwd = {}
        /\ gen = [x \in Sess |-> 1] /\ ended = [x \in Sess |-> FALSE]
        /\ frames = 0 /\ wire = <<>> /\ sent = {}
        /\ pc = "top" /\ rEpoch = 1 /\ route = NewRoute(s, 1, 1) /\ retired = <<>>
        /\ adopted = {1} /\ evicted = {} /\ told = [o \in Ogs |-> <<>>]
        /\ line = NoLine /\ pre = NoToken /\ post = NoToken /\ proof = NoToken
  BY DEF Init
<1> USE StreamRouteAssumption
<1>1. IsFiniteSet(attached) /\ IsFiniteSet(owed)
  BY FS_Singleton, FS_EmptySet
<1>2. /\ out \in Seq(Requests)
      /\ \A i \in DOMAIN out : out[i].op = "attach" => out[i].og \in Ogs /\ out[i].gen \in Gens
  <2>1. Attach(s, 1, 1) \in Requests /\ Snapshot(s) \in Requests
    BY DEF Attach, Snapshot, Requests
  <2>2. out \in Seq(Requests) /\ DOMAIN out = 1 .. 2
    BY <2>1
  <2> QED
    BY <2>2 DEF Attach, Snapshot, Ogs, Gens
<1>3. UiTyped
  BY <1>1, <1>2 DEF UiTyped, IsBinding, Ogs, Gens, TokenSet, Token
<1>4. DaemonTyped
  BY DEF DaemonTyped, Gens
<1>5. ReaderTyped
  <2>1. route \in RouteSet /\ IsBinding(route)
    BY DEF RouteSet, NewRoute, IsBinding, Ogs, Gens
  <2>2. line \in LineSet /\ {pre, post, proof} \subseteq TokenSet
    BY DEF NoLine, Line, LineSet, NoToken, Token, TokenSet
  <2>3. retired \in Seq(RouteSet) /\ Len(retired) = 0 /\ DOMAIN retired = {}
    OBVIOUS
  <2>4. route.id = s
    BY DEF NewRoute
  <2> QED
    BY <2>1, <2>2, <2>3, <2>4 DEF ReaderTyped, InHand, Committing, Ogs
<1> QED
  BY <1>3, <1>4, <1>5 DEF TypeInv

-----------------------------------------------------------------------------
(* Stale lines are inert. *)

\* A tagged line names what its tag names.
LEMMA TaggedNames ==
    ASSUME TypeInv, NamesInv, NEW i \in Pos, NEW o \in Ogs, Tag(At(i)) = o,
           NEW s \in Sess, NEW g \in Gens, Names(o, s, g)
    PROVE  At(i).id = s /\ At(i).gen = g
<1>1. At(i).id \in Sess /\ At(i).gen \in Gens
  BY LinesTyped DEF Lines
<1>2. Names(o, At(i).id, At(i).gen)
  BY DEF Names
<1> QED
  BY <1>1, <1>2 DEF NamesInv

\* No line contradicts a retired binding.
LEMMA RetiredAgree ==
    ASSUME TypeInv, NamesInv, NEW i \in DOMAIN retired, NEW k \in Pos,
           retired[i].og = Tag(At(k))
    PROVE  retired[i].id = At(k).id /\ retired[i].gen = At(k).gen
<1>1. retired[i].og \in Ogs /\ retired[i].id \in Sess /\ retired[i].gen \in Gens
  BY StreamRouteAssumption DEF TypeInv, ReaderTyped, IsBinding
<1>2. Names(retired[i].og, retired[i].id, retired[i].gen)
  BY DEF Names
<1> QED
  BY <1>1, <1>2, TaggedNames

LEMMA ReadQuiet ==
    ASSUME TypeInv, NamesInv, wire # << >>
    PROVE  ~ Contradicted(Head(wire))
<1>1. 1 \in Pos /\ At(1) = Head(wire)
  BY TailTyped DEF Pos, At, TypeInv, DaemonTyped
<1>2. SUFFICES ASSUME NEW i \in DOMAIN retired, retired[i].og = Tag(At(1))
               PROVE  Authorized(retired[i], At(1))
  BY <1>1 DEF Contradicted
<1> QED
  BY <1>1, <1>2, RetiredAgree DEF Authorized

\* The line may go to the reader's binding.
Routed ==
    /\ AdoptedRoute # NoRoute /\ post # NoToken
    /\ pre = post \/ PostAttachEcho

LEMMA DispatchQuiet ==
    ASSUME TypeInv, OpenInv, pc = "dispatch", Routed, ClaimsRoute(AdoptedRoute, line)
    PROVE  Authorized(AdoptedRoute, line)
<1>1. 0 \in Pos /\ At(0) = line /\ line \in Lines
  BY LinesTyped DEF Pos, At, InHand
<1>2. /\ AdoptedRoute.og = active.og /\ AdoptedRoute.id = active.id /\ AdoptedRoute.gen = active.gen
      /\ active.id \in Sess /\ active.og \in Ogs /\ active.gen \in Gens
  BY SyncMeans DEF OpenInv, Routed, TypeInv, UiTyped, IsBinding
<1>3. Names(active.og, active.id, active.gen)
  BY DEF Names
<1>4. CASE line.echo # 0 \/ line.live # 0
  <2>1. Tag(line) = active.og
    BY <1>1, <1>2, <1>4, StreamRouteAssumption DEF ClaimsRoute, Tag, Lines, Ogs
  <2> QED
    BY <1>1, <1>2, <1>3, <2>1, TaggedNames DEF Authorized, OpenInv
<1>5. CASE line.echo = 0 /\ line.live = 0
  <2>1. AdoptedRoute.confirmed
    BY <1>5 DEF ClaimsRoute
  <2>2. rEpoch = active.epoch /\ AdoptedRoute = route
    BY <2>1, SyncMeans DEF OpenInv
  <2>3. post = SharedToken(line.id) /\ post # NoToken
    BY <2>2 DEF OpenInv, HandInv, Routed
  <2>4. line.id = active.id
    BY <2>3 DEF SharedToken
  <2>5. ~ Stale(line)
    BY <1>1, <1>2, <2>1, <2>2, StreamRouteAssumption DEF OpenInv, StaleInv
  <2>6. line.kind # "damage"
    BY <1>1, <1>5 DEF Lines
  <2> QED
    BY <1>2, <1>5, <2>4, <2>5, <2>6 DEF Stale, Authorized
<1> QED
  BY <1>4, <1>5

-----------------------------------------------------------------------------
(* Every step keeps the types. *)

LEMMA TokensTyped ==
    ASSUME TypeInv
    PROVE  /\ \A s \in Sess : SharedToken(s) \in TokenSet /\ LocalToken(s) \in TokenSet
           /\ NoToken \in TokenSet /\ NoLine \in LineSet
<1>1. NoToken \in TokenSet /\ NoLine \in LineSet
  BY StreamRouteAssumption DEF Token, NoToken, TokenSet, NoLine, Line, LineSet
<1>2. ASSUME NEW s \in Sess PROVE SharedToken(s) \in TokenSet
  BY <1>1, StreamRouteAssumption DEF TypeInv, UiTyped, SharedToken, Token, TokenSet
<1>3. ASSUME NEW s \in Sess PROVE LocalToken(s) \in TokenSet
  BY <1>1, StreamRouteAssumption DEF TypeInv, ReaderTyped, RouteSet, LocalToken, Token, TokenSet
<1> QED
  BY <1>1, <1>2, <1>3

\* The connection fails closed: what remains.
LEMMA FailTyped ==
    ASSUME TypeInv, closed = "open", NEW why \in {"refused", "receipt"}, FailClosed(why),
           UNCHANGED nextOg, UNCHANGED out
    PROVE  UiTyped' /\ pc' = "stopped" /\ closed' # "open" /\ active'.epoch = active.epoch + 1
<1> USE StreamRouteAssumption DEF TypeInv, UiTyped, FailClosed
<1>1. IsFiniteSet(attached') /\ IsFiniteSet(owed')
  BY FS_EmptySet
<1>2. admission' \in TokenSet
  BY TokensTyped
<1> QED
  BY <1>1, <1>2 DEF IsBinding, Ogs

\* A batch behind the queue keeps it typed.
LEMMA BatchTyped ==
    ASSUME TypeInv, NEW ids \in SUBSET Sess, IsFiniteSet(ids)
    PROVE  /\ out \o Detaches(ids) \in Seq(Requests)
           /\ Len(out \o Detaches(ids)) \in Nat /\ Len(out \o Detaches(ids)) >= Len(out)
           /\ \A i \in 1 .. Len(out) : (out \o Detaches(ids))[i] = out[i]
           /\ \A i \in 1 .. Len(out \o Detaches(ids)) : i > Len(out) => (out \o Detaches(ids))[i].op = "detach"
<1>1. /\ Detaches(ids) \in Seq(Requests)
      /\ \A i \in 1 .. Len(Detaches(ids)) : Detaches(ids)[i].op = "detach"
      /\ Len(Detaches(ids)) \in Nat
  BY DetachBatch, LenProperties
<1>2. out \in Seq(Requests) /\ Len(out) \in Nat
  BY LinesTyped DEF TypeInv, UiTyped
<1> QED
  BY <1>1, <1>2, JoinTyped

\* The queue after a bind: what was there, Detaches, the Attach and a Snapshot.
LEMMA BindQueue ==
    ASSUME TypeInv, NEW s \in Sess, Bind(s)
    PROVE  /\ out' \in Seq(Requests) /\ Len(out') \in Nat /\ DOMAIN out' = 1 .. Len(out')
           /\ Len(out') >= Len(out) + 2 /\ Len(out) \in Nat /\ DOMAIN out = 1 .. Len(out)
           /\ nextOg' = nextOg + 1 /\ nextOg \in Nat /\ nextOg' \in Ogs /\ gen[s] \in Gens
           /\ out'[Len(out') - 1] = Attach(s, nextOg', gen[s]) /\ out'[Len(out')] = Snapshot(s)
           /\ \A i \in 1 .. Len(out) : out'[i] = out[i]
           /\ \A i \in 1 .. Len(out') - 2 : i > Len(out) => out'[i].op = "detach"
<1> DEFINE ids == owed \cup attached
           b == out \o Detaches(ids)
           t == <<Attach(s, nextOg', gen[s]), Snapshot(s)>>
<1>0. /\ nextOg' = nextOg + 1 /\ nextOg \in Nat /\ nextOg' \in Ogs /\ gen[s] \in Gens
      /\ ids \in SUBSET Sess
  BY StreamRouteAssumption DEF Bind, TypeInv, UiTyped, DaemonTyped, Ogs
<1>1. /\ b \in Seq(Requests) /\ Len(b) \in Nat /\ Len(b) >= Len(out)
      /\ \A i \in 1 .. Len(out) : b[i] = out[i]
      /\ \A i \in 1 .. Len(b) : i > Len(out) => b[i].op = "detach"
  <2>1. IsFiniteSet(ids)
    BY FS_Union DEF TypeInv, UiTyped
  <2> QED
    BY <1>0, <2>1, BatchTyped
<1>2. Attach(s, nextOg', gen[s]) \in Requests /\ Snapshot(s) \in Requests
  BY <1>0, StreamRouteAssumption DEF Attach, Snapshot, Requests, Ogs, Gens
<1>3. t \in Seq(Requests) /\ Len(t) = 2 /\ t[1] = Attach(s, nextOg', gen[s]) /\ t[2] = Snapshot(s)
  BY <1>2
<1>4. out' = b \o t
  BY DEF Bind
<1> HIDE DEF b, t, ids
<1>5. /\ out' \in Seq(Requests) /\ Len(out') = Len(b) + 2
      /\ \A i \in 1 .. Len(b) : out'[i] = b[i]
      /\ \A i \in 1 .. 2 : out'[Len(b) + i] = t[i]
  <2>1. /\ b \o t \in Seq(Requests) /\ Len(b \o t) = Len(b) + Len(t)
        /\ \A i \in 1 .. Len(b) : (b \o t)[i] = b[i]
        /\ \A i \in 1 .. Len(t) : (b \o t)[Len(b) + i] = t[i]
    <3>1. b \in Seq(Requests) /\ t \in Seq(Requests)
      BY <1>1, <1>3
    <3> QED
      BY ONLY <3>1, JoinTyped
  <2> QED
    BY <1>3, <1>4, <2>1
<1>6. DOMAIN out' = 1 .. Len(out')
  BY <1>5, LenProperties
<1>7. Len(out) \in Nat /\ DOMAIN out = 1 .. Len(out)
  BY LinesTyped
<1>8. out'[Len(b) + 1] = Attach(s, nextOg', gen[s]) /\ out'[Len(b) + 2] = Snapshot(s)
  BY <1>3, <1>5
<1>9. Len(out') - 1 = Len(b) + 1 /\ Len(out') = Len(b) + 2
  BY <1>1, <1>5
<1>10. \A i \in 1 .. Len(out') - 2 : i > Len(out) => out'[i].op = "detach"
  <2>1. Len(out') - 2 = Len(b)
    BY <1>1, <1>9
  <2> QED
    BY <1>1, <1>5, <2>1
<1> QED
  BY <1>0, <1>1, <1>5, <1>6, <1>7, <1>8, <1>9, <1>10

\* The UI thread publishes a newer epoch and leaves the rest alone.
LEMMA OthersTyped ==
    ASSUME TypeInv, UNCHANGED <<closed, daemonVars, wire, pc, localVars, lineVars>>,
           active'.epoch \in Int, active'.epoch >= active.epoch
    PROVE  DaemonTyped' /\ ReaderTyped'
<1>1. DaemonTyped'
  BY DEF TypeInv, DaemonTyped, daemonVars
<1>2. active.epoch \in Int /\ rEpoch \in Int
  BY StreamRouteAssumption DEF TypeInv, UiTyped, ReaderTyped
<1>3. ReaderTyped'
  BY <1>2 DEF TypeInv, ReaderTyped, localVars, lineVars, InHand, Committing
<1> QED
  BY <1>1, <1>3

LEMMA BindTyped ==
    ASSUME TypeInv, NEW s \in Sess, Bind(s)
    PROVE  TypeInv'
<1> USE StreamRouteAssumption
<1>1. /\ gen[s] \in Gens /\ nextOg' \in Ogs /\ nextOg' = nextOg + 1 /\ nextOg \in Nat
      /\ owed \cup attached \in SUBSET Sess /\ active.epoch \in Nat
      /\ active.epoch <= 2 * nextOg /\ active.epoch >= 1 /\ 2 * nextOg' <= 2 * MaxBind
  BY DEF Bind, TypeInv, UiTyped, DaemonTyped, Ogs
<1>3. /\ out' \in Seq(Requests) /\ DOMAIN out' = 1 .. Len(out') /\ Len(out') \in Nat
      /\ out'[Len(out') - 1] = Attach(s, nextOg', gen[s]) /\ out'[Len(out')] = Snapshot(s)
      /\ \A i \in 1 .. Len(out) : out'[i] = out[i]
      /\ \A i \in 1 .. Len(out') - 2 : i > Len(out) => out'[i].op = "detach"
  BY BindQueue
<1>4. \A i \in DOMAIN out' : out'[i].op = "attach" => out'[i].og \in Ogs /\ out'[i].gen \in Gens
  <2> SUFFICES ASSUME NEW i \in 1 .. Len(out'), out'[i].op = "attach"
               PROVE  out'[i].og \in Ogs /\ out'[i].gen \in Gens
    BY <1>3
  <2>1. Len(out) \in Nat /\ DOMAIN out = 1 .. Len(out)
    BY LinesTyped
  <2>2. CASE i <= Len(out)
    BY <1>3, <2>1, <2>2 DEF TypeInv, UiTyped
  <2>3. CASE i > Len(out) /\ i <= Len(out') - 2
    BY <1>3, <2>3
  <2>4. CASE i = Len(out') - 1
    BY <1>1, <1>3, <2>4 DEF Attach
  <2>5. CASE i = Len(out')
    BY <1>3, <2>5 DEF Snapshot
  <2>6. Len(out') \in Nat
    BY <1>3
  <2>7. \/ i <= Len(out) \/ (i > Len(out) /\ i <= Len(out') - 2)
        \/ i = Len(out') - 1 \/ i = Len(out')
    BY <2>1, <2>6
  <2> QED
    BY <2>2, <2>3, <2>4, <2>5, <2>7
<1>5. /\ active' = [epoch |-> active.epoch + 1, id |-> s, og |-> nextOg', gen |-> gen[s]]
      /\ admission' = [epoch |-> active.epoch + 1, id |-> s, og |-> nextOg']
      /\ attached' = {s} /\ owed' = {} /\ grid' = 0 /\ exitShown' = 0 /\ closed' = closed /\ closed = "open"
  BY DEF Bind, Token
<1>6. IsFiniteSet(attached') /\ IsFiniteSet(owed')
  BY <1>5, FS_Singleton, FS_EmptySet
<1>7. UiTyped'
  <2>1. /\ active' \in [epoch : 1 .. 2 * MaxBind + 1, id : Sess \cup {NoSess},
                         og : 0 .. MaxBind, gen : 0 .. MaxGen]
        /\ active'.id \in Sess /\ active'.og \in Ogs /\ active'.gen \in Gens
        /\ active'.epoch <= 2 * nextOg' - 1 /\ active'.epoch <= 2 * nextOg'
        /\ active'.og <= nextOg'
    BY <1>1, <1>5 DEF Ogs, Gens
  <2>2. admission' \in TokenSet
    BY <1>1, <1>5 DEF TokenSet, Ogs
  <2>3. /\ attached' \subseteq Sess /\ owed' \subseteq Sess /\ owed' = {}
        /\ grid' \in 0 .. MaxBind /\ exitShown' \in 0 .. MaxBind /\ closed' = "open"
    BY <1>5
  <2>4. nextOg' \in Ogs /\ out' \in Seq(Requests)
    BY <1>1, <1>3
  <2>5. (IsBinding(active))'
    BY <2>1 DEF IsBinding
  <2>6. active'.epoch <= 2 * nextOg' + (IF closed' = "open" THEN 0 ELSE 1)
    BY <1>1, <1>5, <2>3
  <2> QED
    BY <1>4, <1>6, <2>1, <2>2, <2>3, <2>4, <2>5, <2>6 DEF UiTyped
<1>8. DaemonTyped' /\ ReaderTyped'
  BY <1>1, <1>5, OthersTyped DEF Bind
<1> QED
  BY <1>7, <1>8 DEF TypeInv

\* A queue of old requests and Detaches holds only old Attaches.
LEMMA BatchAttaches ==
    ASSUME TypeInv, NEW ids \in SUBSET Sess, IsFiniteSet(ids), out' = out \o Detaches(ids)
    PROVE  /\ out' \in Seq(Requests)
           /\ \A i \in DOMAIN out' : out'[i].op = "attach" => i \in DOMAIN out /\ out'[i] = out[i]
           /\ \A i \in DOMAIN out : i \in DOMAIN out' /\ out'[i] = out[i]
           /\ \A i \in DOMAIN out' \ DOMAIN out : out'[i].op = "detach"
<1>1. Len(out) \in Nat /\ DOMAIN out = 1 .. Len(out)
  BY LinesTyped
<1>2. /\ out' \in Seq(Requests) /\ Len(out') \in Nat /\ Len(out') >= Len(out)
      /\ \A i \in 1 .. Len(out) : out'[i] = out[i]
      /\ \A i \in 1 .. Len(out') : i > Len(out) => out'[i].op = "detach"
  BY BatchTyped
<1>3. DOMAIN out' = 1 .. Len(out')
  BY <1>2, LenProperties
<1> QED
  BY <1>1, <1>2, <1>3

LEMMA ClearTyped ==
    ASSUME TypeInv, Clear
    PROVE  TypeInv'
<1> USE StreamRouteAssumption
<1>1. /\ owed \cup attached \in SUBSET Sess /\ nextOg' = nextOg /\ nextOg \in Ogs
      /\ active.epoch \in Nat /\ active.epoch >= 1 /\ active.epoch <= 2 * nextOg - 1
  BY DEF Clear, TypeInv, UiTyped
<1>2. IsFiniteSet(owed \cup attached) /\ IsFiniteSet({})
  BY FS_Union, FS_EmptySet DEF TypeInv, UiTyped
<1>3. /\ out' \in Seq(Requests)
      /\ \A i \in DOMAIN out' : out'[i].op = "attach" => out'[i].og \in Ogs /\ out'[i].gen \in Gens
  <2>1. CASE out' = out \o Detaches(owed \cup attached)
    BY <1>1, <1>2, <2>1, BatchAttaches DEF TypeInv, UiTyped
  <2>2. CASE out' = out
    BY <2>2 DEF TypeInv, UiTyped
  <2> QED
    BY <2>1, <2>2 DEF Clear
<1>4. /\ active' = [epoch |-> active.epoch + 1, id |-> NoSess, og |-> 0, gen |-> 0]
      /\ admission' = NoToken /\ attached' = {} /\ owed' \in {{}, owed \cup attached}
      /\ grid' = 0 /\ exitShown' = 0 /\ closed' = closed /\ closed = "open"
  BY DEF Clear
<1>5. UiTyped'
  <2>1. owed' \subseteq Sess /\ IsFiniteSet(owed') /\ attached' \subseteq Sess /\ IsFiniteSet(attached')
    BY <1>1, <1>2, <1>4
  <2>2. active'.epoch \in 1 .. 2 * MaxBind + 1 /\ active'.epoch <= 2 * nextOg'
    BY <1>1, <1>4 DEF Ogs
  <2> QED
    BY <1>1, <1>3, <1>4, <2>1, <2>2, TokensTyped DEF UiTyped, IsBinding, Ogs
<1>6. DaemonTyped' /\ ReaderTyped'
  BY <1>1, <1>4, OthersTyped DEF Clear
<1> QED
  BY <1>5, <1>6 DEF TypeInv

LEMMA CleanupTyped ==
    ASSUME TypeInv, Cleanup
    PROVE  TypeInv'
<1>1. owed \in SUBSET Sess /\ IsFiniteSet(owed) /\ out' = out \o Detaches(owed) /\ IsFiniteSet({})
  BY FS_EmptySet DEF TypeInv, UiTyped, Cleanup
<1>2. /\ out' \in Seq(Requests)
      /\ \A i \in DOMAIN out' : out'[i].op = "attach" => out'[i].og \in Ogs /\ out'[i].gen \in Gens
  BY <1>1, BatchAttaches DEF TypeInv, UiTyped
<1>3. UiTyped'
  BY <1>1, <1>2 DEF TypeInv, UiTyped, Cleanup, paintVars
<1>4. DaemonTyped' /\ ReaderTyped'
  BY OthersTyped, StreamRouteAssumption DEF Cleanup, TypeInv, UiTyped
<1> QED
  BY <1>3, <1>4 DEF TypeInv

\* Forwarders whose abort was requested are still forwarders.
LEMMA AbortTyped ==
    ASSUME TypeInv, NEW s \in Sess
    PROVE  /\ AbortFor(s) \subseteq [id : Sess, og : Ogs, gen : Gens, aborted : BOOLEAN]
           /\ \A h \in AbortFor(s) :
                 \E f \in fwd : f.og = h.og /\ f.id = h.id /\ f.gen = h.gen
                               /\ (h = IF f.id = s THEN [f EXCEPT !.aborted = TRUE] ELSE f)
<1>1. ASSUME NEW h \in AbortFor(s)
      PROVE  /\ h \in [id : Sess, og : Ogs, gen : Gens, aborted : BOOLEAN]
             /\ \E f \in fwd : f.og = h.og /\ f.id = h.id /\ f.gen = h.gen
                               /\ (h = IF f.id = s THEN [f EXCEPT !.aborted = TRUE] ELSE f)
  <2>1. PICK f \in fwd : h = IF f.id = s THEN [f EXCEPT !.aborted = TRUE] ELSE f
    BY DEF AbortFor
  <2>2. f \in [id : Sess, og : Ogs, gen : Gens, aborted : BOOLEAN]
    BY DEF TypeInv, DaemonTyped
  <2> QED
    BY <2>1, <2>2
<1> QED
  BY <1>1

\* The queue after its head was served.
LEMMA ServedQueue ==
    ASSUME TypeInv, Serve
    PROVE  /\ Head(out) = out[1] /\ 1 \in DOMAIN out /\ out[1] \in Requests
           /\ out' \in Seq(Requests) /\ Len(out) \in Nat /\ Len(out) > 0 /\ Len(out') = Len(out) - 1
           /\ DOMAIN out = 1 .. Len(out) /\ DOMAIN out' = 1 .. Len(out')
           /\ \A i \in DOMAIN out' : i + 1 \in DOMAIN out /\ out'[i] = out[i + 1]
<1>1. out \in Seq(Requests) /\ out # << >> /\ out' = Tail(out)
  BY DEF TypeInv, UiTyped, Serve
<1>2. DOMAIN out = 1 .. Len(out)
  BY LinesTyped
<1>3. /\ Head(out) = out[1] /\ out[1] \in Requests /\ out' \in Seq(Requests) /\ Len(out) \in Nat /\ Len(out) > 0
      /\ Len(out') = Len(out) - 1 /\ \A i \in 1 .. Len(out') : out'[i] = out[i + 1]
  BY <1>1, TailTyped
<1>4. DOMAIN out' = 1 .. Len(out')
  BY <1>3, LenProperties
<1> QED
  BY <1>2, <1>3, <1>4

\* A line is queued behind the stream.
LEMMA StreamGrows ==
    ASSUME TypeInv, UNCHANGED <<pc, line>>, NEW e \in Lines, wire' = Append(wire, e)
    PROVE  /\ wire' \in Seq(Lines) /\ Len(wire') = Len(wire) + 1 /\ Len(wire) \in Nat
           /\ DOMAIN wire = 1 .. Len(wire) /\ DOMAIN wire' = 1 .. Len(wire')
           /\ \A i \in DOMAIN wire : wire'[i] = wire[i]
           /\ wire'[Len(wire) + 1] = e
           /\ Pos' = Pos \cup {Len(wire) + 1} /\ Pos \subseteq 0 .. Len(wire)
           /\ \A i \in Pos : At(i)' = At(i)
           /\ \A i \in Nat : i = Len(wire) + 1 => At(i)' = e
<1>1. wire \in Seq(Lines) /\ Len(wire) \in Nat /\ DOMAIN wire = 1 .. Len(wire)
  BY LinesTyped DEF TypeInv, DaemonTyped
<1>2. /\ wire' \in Seq(Lines) /\ Len(wire') = Len(wire) + 1
      /\ \A i \in 1 .. Len(wire) : wire'[i] = wire[i]
      /\ wire'[Len(wire) + 1] = e
  BY <1>1, AppendTyped
<1>3. DOMAIN wire' = 1 .. Len(wire')
  BY <1>2, LenProperties
<1>4. Pos' = Pos \cup {Len(wire) + 1} /\ Pos \subseteq 0 .. Len(wire)
  BY <1>1, <1>2 DEF Pos, InHand, Committing
<1>5. \A i \in Pos : At(i)' = At(i)
  BY <1>1, <1>2, <1>4 DEF At
<1>6. \A i \in Nat : i = Len(wire) + 1 => At(i)' = e
  BY <1>1, <1>2 DEF At
<1> QED
  BY <1>1, <1>2, <1>3, <1>4, <1>5, <1>6

\* Two lines are, in one step: the echo and the exit of a session that has ended.
LEMMA StreamGrowsTwice ==
    ASSUME TypeInv, UNCHANGED <<pc, line>>, NEW e \in Lines, NEW x \in Lines,
           wire' = Append(Append(wire, e), x)
    PROVE  /\ wire' \in Seq(Lines) /\ Len(wire') = Len(wire) + 2 /\ Len(wire) \in Nat
           /\ DOMAIN wire = 1 .. Len(wire) /\ DOMAIN wire' = 1 .. Len(wire')
           /\ \A i \in DOMAIN wire : wire'[i] = wire[i]
           /\ wire'[Len(wire) + 1] = e /\ wire'[Len(wire) + 2] = x
           /\ Pos' = Pos \cup {Len(wire) + 1, Len(wire) + 2} /\ Pos \subseteq 0 .. Len(wire)
           /\ \A i \in Pos : At(i)' = At(i)
           /\ \A i \in Nat : i = Len(wire) + 1 => At(i)' = e
           /\ \A i \in Nat : i = Len(wire) + 2 => At(i)' = x
<1>1. wire \in Seq(Lines) /\ Len(wire) \in Nat /\ DOMAIN wire = 1 .. Len(wire)
  BY LinesTyped DEF TypeInv, DaemonTyped
<1> DEFINE w == Append(wire, e)
<1>2. /\ w \in Seq(Lines) /\ Len(w) = Len(wire) + 1
      /\ \A i \in 1 .. Len(wire) : w[i] = wire[i]
      /\ w[Len(wire) + 1] = e
  BY <1>1, AppendTyped
<1>3. wire' = Append(w, x)
  OBVIOUS
<1> HIDE DEF w
<1>4. /\ wire' \in Seq(Lines) /\ Len(wire') = Len(w) + 1
      /\ \A i \in 1 .. Len(w) : wire'[i] = w[i]
      /\ wire'[Len(w) + 1] = x
  BY <1>2, <1>3, AppendTyped
<1>5. /\ Len(wire') = Len(wire) + 2
      /\ \A i \in 1 .. Len(wire) : wire'[i] = wire[i]
      /\ wire'[Len(wire) + 1] = e /\ wire'[Len(wire) + 2] = x
  BY <1>1, <1>2, <1>4
<1>6. DOMAIN wire' = 1 .. Len(wire')
  BY <1>4, LenProperties
<1>7. Pos' = Pos \cup {Len(wire) + 1, Len(wire) + 2} /\ Pos \subseteq 0 .. Len(wire)
  BY <1>1, <1>5 DEF Pos, InHand, Committing
<1>8. \A i \in Pos : At(i)' = At(i)
  BY <1>1, <1>5, <1>7 DEF At
<1>9. /\ \A i \in Nat : i = Len(wire) + 1 => At(i)' = e
      /\ \A i \in Nat : i = Len(wire) + 2 => At(i)' = x
  BY <1>1, <1>5 DEF At
<1> QED
  BY <1>1, <1>4, <1>5, <1>6, <1>7, <1>8, <1>9

\* The outcomes of an Attach that the daemon serves.
LEMMA AttachOutcomes ==
    ASSUME TypeInv, Serve, out[1].op = "attach"
    PROVE  LET s == out[1].id  o == out[1].og  g == out[1].gen IN
           /\ s \in Sess /\ o \in Ogs /\ g \in Gens
           /\ \/ /\ gen[s] # g /\ wire' = Append(wire, Line("refused", s, g, 0, 0, o))
                 /\ UNCHANGED <<att, fwd, sent>>
              \/ /\ gen[s] = g /\ ~ ended[s] /\ wire' = Append(wire, Line("grid", s, g, o, 0, o))
                 /\ att' = [att EXCEPT ![s] = o] /\ sent' = sent
                 /\ fwd' = AbortFor(s) \cup {Forwarder(s, o, g, FALSE)}
              \/ /\ gen[s] = g /\ ended[s]
                 /\ wire' = Append(Append(wire, Line("grid", s, g, o, 0, o)), Line("exit", s, g, 0, o, o))
                 /\ att' = [att EXCEPT ![s] = o] /\ sent' = sent \cup {o}
                 /\ fwd' = AbortFor(s)
<1> DEFINE s == out[1].id  o == out[1].og  g == out[1].gen
<1>1. /\ Head(out) = out[1] /\ out[1] \in Requests /\ 1 \in DOMAIN out
  BY ServedQueue
<1>2. s \in Sess /\ o \in Ogs /\ g \in Gens
  BY <1>1 DEF TypeInv, UiTyped, Requests
<1>3. ServeAttach(s, o, g)
  BY <1>1 DEF Serve
<1>4. wire \in Seq(Lines) /\ Line("grid", s, g, o, 0, o) \in Lines /\ Line("exit", s, g, 0, o, o) \in Lines
  BY <1>2, LinesMade, StreamRouteAssumption DEF TypeInv, DaemonTyped, Ogs
<1> DEFINE w == Append(wire, Line("grid", s, g, o, 0, o))
<1>5. w \in Seq(Lines)
  BY <1>4, AppendTyped
<1>6. w \o << >> = w
  BY <1>5, ConcatEmptySeq
<1>7. w \o <<Line("exit", s, g, 0, o, o)>> = Append(w, Line("exit", s, g, 0, o, o))
  BY <1>4, <1>5, AppendIsConcat
<1>8. ended[s] \in BOOLEAN
  BY <1>2 DEF TypeInv, DaemonTyped
<1>9. CASE gen[s] # g
  BY <1>2, <1>3, <1>9 DEF ServeAttach
<1>10. CASE gen[s] = g /\ ~ ended[s]
  <2>1. wire' = w \o << >> /\ fwd' = AbortFor(s) \cup {Forwarder(s, o, g, FALSE)}
    BY <1>3, <1>10 DEF ServeAttach
  <2> QED
    BY <1>2, <1>3, <1>6, <1>10, <2>1 DEF ServeAttach
<1>11. CASE gen[s] = g /\ ended[s]
  <2>1. wire' = w \o <<Line("exit", s, g, 0, o, o)>> /\ fwd' = AbortFor(s)
    BY <1>3, <1>11 DEF ServeAttach
  <2> QED
    BY <1>2, <1>3, <1>7, <1>11, <2>1 DEF ServeAttach
<1> QED
  BY <1>8, <1>9, <1>10, <1>11

LEMMA ServeTyped ==
    ASSUME TypeInv, Serve
    PROVE  TypeInv'
<1>1. UiTyped'
  <2>1. \A i \in DOMAIN out' : out'[i].op = "attach" => out'[i].og \in Ogs /\ out'[i].gen \in Gens
    BY ServedQueue DEF TypeInv, UiTyped
  <2> QED
    BY <2>1, ServedQueue DEF TypeInv, UiTyped, Serve, uiVars, paintVars
<1>2. ReaderTyped'
  BY DEF TypeInv, ReaderTyped, Serve, localVars, lineVars, InHand, Committing, uiVars
<1>3. wire' \in Seq(Lines) /\ att' \in [Sess -> 0 .. MaxBind] /\ sent' \subseteq Ogs
      /\ fwd' \subseteq [id : Sess, og : Ogs, gen : Gens, aborted : BOOLEAN]
  <2>1. /\ Head(out) = out[1] /\ out[1].id \in Sess
        /\ out[1].op \in {"detach", "attach", "snapshot"}
    BY ServedQueue DEF Requests
  <2>2. UNCHANGED <<pc, line>>
    BY DEF Serve, lineVars
  <2>3. CASE out[1].op = "detach"
    <3>1. ServeDetach(out[1].id)
      BY <2>1, <2>3 DEF Serve
    <3> QED
      BY <2>1, <3>1, AbortTyped, StreamRouteAssumption DEF ServeDetach, TypeInv, DaemonTyped
  <2>4. CASE out[1].op = "snapshot"
    <3>1. ServeSnapshot(out[1].id)
      BY <2>1, <2>4 DEF Serve
    <3>2. gen[out[1].id] \in Gens /\ att[out[1].id] \in 0 .. MaxBind /\ 1 \in Ogs
      BY <2>1, StreamRouteAssumption DEF TypeInv, DaemonTyped, Ogs
    <3>3. Line("grid", out[1].id, gen[out[1].id], 0, 0, att[out[1].id]) \in Lines
      BY <2>1, <3>2, LinesMade
    <3> QED
      BY <2>2, <3>1, <3>3, StreamGrows DEF ServeSnapshot, TypeInv, DaemonTyped
  <2>5. CASE out[1].op = "attach"
    <3> DEFINE s == out[1].id  o == out[1].og  g == out[1].gen
    <3>1. s \in Sess /\ o \in Ogs /\ g \in Gens /\ o \in 0 .. MaxBind
      BY <2>5, AttachOutcomes, StreamRouteAssumption DEF Ogs
    <3>2. /\ Line("refused", s, g, 0, 0, o) \in Lines /\ Line("grid", s, g, o, 0, o) \in Lines
          /\ Line("exit", s, g, 0, o, o) \in Lines
      BY <3>1, LinesMade
    <3>3. Forwarder(s, o, g, FALSE) \in [id : Sess, og : Ogs, gen : Gens, aborted : BOOLEAN]
      BY <3>1 DEF Forwarder
    <3>4. CASE gen[s] # g
      <4>1. wire' = Append(wire, Line("refused", s, g, 0, 0, o)) /\ UNCHANGED <<att, fwd, sent>>
        BY <2>5, <3>4, AttachOutcomes
      <4> QED
        BY <2>2, <3>2, <4>1, StreamGrows DEF TypeInv, DaemonTyped
    <3>5. CASE gen[s] = g /\ ~ ended[s]
      <4>1. /\ wire' = Append(wire, Line("grid", s, g, o, 0, o))
            /\ att' = [att EXCEPT ![s] = o] /\ sent' = sent
            /\ fwd' = AbortFor(s) \cup {Forwarder(s, o, g, FALSE)}
        BY <2>5, <3>5, AttachOutcomes
      <4>2. wire' \in Seq(Lines)
        BY <2>2, <3>2, <4>1, StreamGrows
      <4>3. AbortFor(s) \subseteq [id : Sess, og : Ogs, gen : Gens, aborted : BOOLEAN]
        BY <3>1, AbortTyped
      <4> QED
        BY <3>1, <3>3, <4>1, <4>2, <4>3 DEF TypeInv, DaemonTyped
    <3>6. CASE gen[s] = g /\ ended[s]
      <4>1. /\ wire' = Append(Append(wire, Line("grid", s, g, o, 0, o)), Line("exit", s, g, 0, o, o))
            /\ att' = [att EXCEPT ![s] = o] /\ sent' = sent \cup {o} /\ fwd' = AbortFor(s)
        BY <2>5, <3>6, AttachOutcomes
      <4>2. wire' \in Seq(Lines)
        BY <2>2, <3>2, <4>1, StreamGrowsTwice
      <4> QED
        BY <3>1, <4>1, <4>2, AbortTyped DEF TypeInv, DaemonTyped
    <3> QED
      BY <2>5, <3>4, <3>5, <3>6, AttachOutcomes
  <2> QED
    BY <2>1, <2>3, <2>4, <2>5
<1>4. DaemonTyped'
  BY <1>3 DEF TypeInv, DaemonTyped, Serve
<1> QED
  BY <1>1, <1>2, <1>4 DEF TypeInv

\* The line a forwarder sends.
LEMMA ForwardedLine ==
    ASSUME TypeInv, NEW f \in fwd, NEW k \in {"damage", "grid", "exit"}
    PROVE  /\ Line(k, f.id, f.gen, 0, f.og, f.og) \in Lines
           /\ f.id \in Sess /\ f.og \in Ogs /\ f.gen \in Gens
<1>1. f.id \in Sess /\ f.og \in Ogs /\ f.gen \in Gens
  BY DEF TypeInv, DaemonTyped
<1>2. 0 \in 0 .. MaxBind
  BY StreamRouteAssumption
<1> QED
  BY <1>1, <1>2, LinesMade

LEMMA DaemonStepTyped ==
    ASSUME TypeInv,
           \/ \E f \in fwd : \/ \E k \in {"damage", "grid"} : ForwardFrame(f, k)
                             \/ ForwardExit(f) \/ AbortTakesHold(f)
           \/ \E s \in Sess : SessionEnds(s) \/ Restart(s)
    PROVE  TypeInv'
<1> USE StreamRouteAssumption
<1>1. UNCHANGED <<uiVars, paintVars, closed, out, pc, localVars, lineVars>>
  BY DEF ForwardFrame, ForwardExit, AbortTakesHold, SessionEnds, Restart
<1>2. UiTyped' /\ ReaderTyped'
  BY <1>1 DEF TypeInv, UiTyped, ReaderTyped, uiVars, paintVars, localVars, lineVars, InHand, Committing
<1>3. UNCHANGED <<pc, line>>
  BY <1>1 DEF lineVars
<1>4. ASSUME NEW f \in fwd, NEW k \in {"damage", "grid"}, ForwardFrame(f, k)
      PROVE  DaemonTyped'
  <2>1. wire' \in Seq(Lines)
    BY <1>3, <1>4, ForwardedLine, StreamGrows DEF ForwardFrame
  <2> QED
    BY <1>4, <2>1 DEF ForwardFrame, TypeInv, DaemonTyped
<1>5. ASSUME NEW f \in fwd, ForwardExit(f)
      PROVE  DaemonTyped'
  <2>1. wire' \in Seq(Lines)
    BY <1>3, <1>5, ForwardedLine, StreamGrows DEF ForwardExit
  <2> QED
    BY <1>5, <2>1, ForwardedLine DEF ForwardExit, TypeInv, DaemonTyped
<1>6. ASSUME NEW f \in fwd, AbortTakesHold(f)
      PROVE  DaemonTyped'
  BY <1>6 DEF AbortTakesHold, TypeInv, DaemonTyped
<1>7. ASSUME NEW s \in Sess, SessionEnds(s)
      PROVE  DaemonTyped'
  BY <1>7 DEF SessionEnds, TypeInv, DaemonTyped
<1>8. ASSUME NEW s \in Sess, Restart(s)
      PROVE  DaemonTyped'
  BY <1>8 DEF Restart, TypeInv, DaemonTyped, Gens
<1> QED
  BY <1>2, <1>4, <1>5, <1>6, <1>7, <1>8 DEF TypeInv

\* Retired bindings after an observed line: the same ones, some of them
\* confirmed, or one less, whose exit was told.
LEMMA ObserveMeans ==
    ASSUME RetiredNow \in Seq(RouteSet), Observe(RetiredNow, line), told \in [Ogs -> Seq(0 .. MaxGen)],
           \A i \in DOMAIN RetiredNow : RetiredNow[i].og \in Ogs
    PROVE  /\ retired' \in Seq(RouteSet) /\ Len(retired') <= Len(RetiredNow)
           /\ told' \in [Ogs -> Seq(0 .. MaxGen)]
           /\ \A i \in DOMAIN retired' : \E j \in DOMAIN RetiredNow :
                 /\ retired'[i] = [RetiredNow[j] EXCEPT !.confirmed = retired'[i].confirmed]
                 /\ RetiredNow[j].confirmed => retired'[i].confirmed
                 /\ line.kind = "grid" /\ line.echo # 0 /\ RetiredNow[j].og = Tag(line) /\ Accepts(RetiredNow[j], line)
                       => retired'[i].confirmed
           /\ \/ /\ UNCHANGED told
                 /\ \A j \in DOMAIN RetiredNow : \E i \in DOMAIN retired' : retired'[i].og = RetiredNow[j].og
                 /\ line.kind # "exit" \/ \A j \in DOMAIN RetiredNow :
                       RetiredNow[j].og = Tag(line) /\ Accepts(RetiredNow[j], line) => RetiredNow[j].exited
              \/ /\ line.kind = "exit" /\ Tag(line) \in Ogs
                 /\ \E j \in DOMAIN RetiredNow : /\ RetiredNow[j].og = Tag(line) /\ Accepts(RetiredNow[j], line)
                                         /\ told' = [told EXCEPT ![Tag(line)] = Append(@, RetiredNow[j].gen)]
                 /\ \A j \in DOMAIN RetiredNow : RetiredNow[j].og # Tag(line) =>
                       \E i \in DOMAIN retired' : retired'[i].og = RetiredNow[j].og
<1> DEFINE hit == {i \in DOMAIN RetiredNow : RetiredNow[i].og = Tag(line) /\ Accepts(RetiredNow[i], line)}
<1>1. Len(RetiredNow) \in Nat /\ DOMAIN RetiredNow = 1 .. Len(RetiredNow) /\ \A i \in DOMAIN RetiredNow : RetiredNow[i] \in RouteSet
  BY LenProperties, ElementOfSeq
<1>2. CASE \E i \in hit : line.kind = "grid" /\ line.echo # 0
  <2>1. retired' = [i \in DOMAIN RetiredNow |-> [RetiredNow[i] EXCEPT !.confirmed = @ \/ i \in hit]] /\ UNCHANGED told
    BY <1>2 DEF Observe
  <2>2. /\ DOMAIN retired' = 1 .. Len(RetiredNow)
        /\ \A i \in 1 .. Len(RetiredNow) : /\ retired'[i] = [RetiredNow[i] EXCEPT !.confirmed = RetiredNow[i].confirmed \/ i \in hit]
                                   /\ retired'[i] \in RouteSet
    BY <1>1, <2>1 DEF RouteSet
  <2>3. retired' \in [1 .. Len(RetiredNow) -> RouteSet]
    BY <1>1, <2>1, <2>2
  <2>4. retired' \in Seq(RouteSet)
    BY <1>1, <2>3, SeqDef
  <2>5. Len(retired') = Len(RetiredNow)
    BY <1>1, <2>2, <2>4, LenProperties
  <2>6. \A i \in DOMAIN retired' : /\ retired'[i].og = RetiredNow[i].og
                                   /\ retired'[i].confirmed = (RetiredNow[i].confirmed \/ i \in hit)
                                   /\ retired'[i] = [RetiredNow[i] EXCEPT !.confirmed = retired'[i].confirmed]
    BY <1>1, <2>2 DEF RouteSet
  <2>7. ASSUME NEW i \in DOMAIN retired'
        PROVE  \E j \in DOMAIN RetiredNow :
                 /\ retired'[i] = [RetiredNow[j] EXCEPT !.confirmed = retired'[i].confirmed]
                 /\ RetiredNow[j].confirmed => retired'[i].confirmed
                 /\ line.kind = "grid" /\ line.echo # 0 /\ RetiredNow[j].og = Tag(line) /\ Accepts(RetiredNow[j], line)
                       => retired'[i].confirmed
    <3>1. i \in DOMAIN RetiredNow
      BY <1>1, <2>2
    <3>2. i \in hit => retired'[i].confirmed
      BY <2>6
    <3> QED
      BY <2>6, <3>1, <3>2
  <2>8. /\ \A j \in DOMAIN RetiredNow : \E i \in DOMAIN retired' : retired'[i].og = RetiredNow[j].og
        /\ line.kind # "exit"
    BY <1>1, <1>2, <2>2, <2>6
  <2>9. Len(retired') <= Len(RetiredNow)
    BY <1>1, <2>5
  <2> QED
    BY <2>1, <2>4, <2>7, <2>8, <2>9
<1>3. CASE /\ ~ \E i \in hit : line.kind = "grid" /\ line.echo # 0
           /\ \E i \in hit : line.kind = "exit" /\ ~ RetiredNow[i].exited
  <2> DEFINE n == CHOOSE i \in hit : TRUE
  <2>1. n \in hit /\ line.kind = "exit"
    BY <1>3
  <2>2. retired' = RemoveAt(RetiredNow, n) /\ told' = [told EXCEPT ![RetiredNow[n].og] = Append(@, RetiredNow[n].gen)]
    BY <1>3 DEF Observe
  <2>3. n \in 1 .. Len(RetiredNow) /\ RetiredNow[n].og = Tag(line) /\ Accepts(RetiredNow[n], line) /\ RetiredNow[n].gen \in 0 .. MaxGen
        /\ RetiredNow[n].og \in Ogs
    BY <1>1, <2>1 DEF RouteSet
  <2> HIDE DEF n
  <2> DEFINE p == SubSeq(RetiredNow, 1, n - 1)
             q == SubSeq(RetiredNow, n + 1, Len(RetiredNow))
  <2>4. /\ p \in Seq(RouteSet) /\ Len(p) = n - 1
        /\ \A i \in 1 .. n - 1 : p[i] = RetiredNow[i]
    BY <1>1, <2>3, SubSeqProperties
  <2>5. /\ q \in Seq(RouteSet) /\ Len(q) = Len(RetiredNow) - n
        /\ \A i \in 1 .. Len(RetiredNow) - n : q[i] = RetiredNow[n + i]
    <3>1. \A i \in n + 1 .. Len(RetiredNow) : RetiredNow[i] \in RouteSet
      BY <1>1, <2>3
    <3>2. /\ q \in Seq(RouteSet)
          /\ Len(q) = IF n + 1 <= Len(RetiredNow) THEN Len(RetiredNow) - (n + 1) + 1 ELSE 0
          /\ \A i \in 1 .. Len(RetiredNow) - (n + 1) + 1 : q[i] = RetiredNow[(n + 1) + i - 1]
      BY <1>1, <2>3, <3>1, SubSeqProperties
    <3> HIDE DEF q
    <3>3. Len(q) = Len(RetiredNow) - n /\ Len(RetiredNow) - (n + 1) + 1 = Len(RetiredNow) - n
      <4>1. n \in Nat /\ Len(RetiredNow) \in Nat /\ n <= Len(RetiredNow)
        BY <1>1, <2>3
      <4>2. Len(q) = IF n + 1 <= Len(RetiredNow) THEN Len(RetiredNow) - (n + 1) + 1 ELSE 0
        BY <3>2
      <4>3. Len(RetiredNow) - (n + 1) + 1 = Len(RetiredNow) - n
        BY <4>1
      <4>4. CASE n + 1 <= Len(RetiredNow)
        BY <4>2, <4>3, <4>4
      <4>5. CASE ~ (n + 1 <= Len(RetiredNow))
        <5>1. Len(RetiredNow) - n = 0
          BY <4>1, <4>5
        <5> QED
          BY <4>2, <4>3, <4>5, <5>1
      <4> QED
        BY <4>4, <4>5
    <3>4. ASSUME NEW i \in 1 .. Len(RetiredNow) - n PROVE q[i] = RetiredNow[n + i]
      <4>1. (n + 1) + i - 1 = n + i
        BY <1>1, <2>3
      <4> QED
        BY <3>2, <3>3, <4>1
    <3> QED
      BY <3>2, <3>3, <3>4
  <2> HIDE DEF p, q
  <2>6. retired' = p \o q
    BY <2>2 DEF RemoveAt, p, q
  <2>7. /\ retired' \in Seq(RouteSet) /\ Len(retired') = Len(RetiredNow) - 1
        /\ DOMAIN retired' = 1 .. Len(RetiredNow) - 1
        /\ \A i \in 1 .. n - 1 : retired'[i] = RetiredNow[i]
        /\ \A i \in 1 .. Len(RetiredNow) - n : retired'[n - 1 + i] = RetiredNow[n + i]
    <3>1. /\ p \o q \in Seq(RouteSet) /\ Len(p \o q) = Len(p) + Len(q)
          /\ \A i \in 1 .. Len(p) : (p \o q)[i] = p[i]
          /\ \A i \in 1 .. Len(q) : (p \o q)[Len(p) + i] = q[i]
      <4>1. p \in Seq(RouteSet) /\ q \in Seq(RouteSet)
        BY <2>4, <2>5
      <4> QED
        BY ONLY <4>1, JoinTyped
    <3>2. retired' \in Seq(RouteSet) /\ Len(retired') = Len(RetiredNow) - 1
      BY <1>1, <2>3, <2>4, <2>5, <2>6, <3>1
    <3>3. DOMAIN retired' = 1 .. Len(RetiredNow) - 1
      BY <3>2, LenProperties
    <3> QED
      BY <1>1, <2>3, <2>4, <2>5, <2>6, <3>1, <3>2, <3>3
  <2>8. \A i \in DOMAIN retired' : \E j \in DOMAIN RetiredNow : retired'[i] = RetiredNow[j]
    <3> SUFFICES ASSUME NEW i \in 1 .. Len(RetiredNow) - 1 PROVE \E j \in DOMAIN RetiredNow : retired'[i] = RetiredNow[j]
      BY <2>7
    <3>1. CASE i <= n - 1
      <4>1. i \in 1 .. n - 1 /\ i \in DOMAIN RetiredNow
        BY <1>1, <2>3, <3>1
      <4> QED
        BY <2>7, <4>1
    <3>2. CASE i >= n
      <4>1. i - (n - 1) \in 1 .. Len(RetiredNow) - n /\ n - 1 + (i - (n - 1)) = i
            /\ n + (i - (n - 1)) = i + 1 /\ i + 1 \in DOMAIN RetiredNow
        BY <1>1, <2>3, <3>2
      <4> QED
        BY <2>7, <4>1
    <3> QED
      BY <1>1, <2>3, <3>1, <3>2
  <2>9. \A j \in DOMAIN RetiredNow : j # n => \E i \in DOMAIN retired' : retired'[i] = RetiredNow[j]
    <3> SUFFICES ASSUME NEW j \in 1 .. Len(RetiredNow), j # n PROVE \E i \in DOMAIN retired' : retired'[i] = RetiredNow[j]
      BY <1>1
    <3>1. CASE j < n
      <4>1. j \in 1 .. n - 1 /\ j \in 1 .. Len(RetiredNow) - 1
        BY <1>1, <2>3, <3>1
      <4> QED
        BY <2>7, <4>1
    <3>2. CASE j > n
      <4>1. j - n \in 1 .. Len(RetiredNow) - n /\ n + (j - n) = j /\ n - 1 + (j - n) \in 1 .. Len(RetiredNow) - 1
        BY <1>1, <2>3, <3>2
      <4> QED
        BY <2>7, <4>1
    <3> QED
      BY <1>1, <2>3, <3>1, <3>2
  <2>10. told' \in [Ogs -> Seq(0 .. MaxGen)]
    <3>1. Append(told[RetiredNow[n].og], RetiredNow[n].gen) \in Seq(0 .. MaxGen)
      BY <2>3, AppendTyped
    <3> QED
      BY <2>2, <2>3, <3>1
  <2>11. \A i \in DOMAIN RetiredNow : RetiredNow[i] = [RetiredNow[i] EXCEPT !.confirmed = RetiredNow[i].confirmed]
    BY <1>1 DEF RouteSet
  <2>12. Len(retired') <= Len(RetiredNow)
    BY <1>1, <2>7
  <2>13. \A j \in DOMAIN RetiredNow : RetiredNow[j].og # Tag(line) => j # n
    BY <2>3
  <2>14. told' = [told EXCEPT ![Tag(line)] = Append(@, RetiredNow[n].gen)]
    BY <2>2, <2>3
  <2>15. ASSUME NEW i \in DOMAIN retired'
         PROVE  \E j \in DOMAIN RetiredNow :
                  /\ retired'[i] = [RetiredNow[j] EXCEPT !.confirmed = retired'[i].confirmed]
                  /\ RetiredNow[j].confirmed => retired'[i].confirmed
                  /\ line.kind = "grid" /\ line.echo # 0 /\ RetiredNow[j].og = Tag(line) /\ Accepts(RetiredNow[j], line)
                        => retired'[i].confirmed
    <3>1. PICK j \in DOMAIN RetiredNow : retired'[i] = RetiredNow[j]
      BY <2>8
    <3> QED
      BY <2>1, <2>11, <3>1
  <2>16. /\ \E j \in DOMAIN RetiredNow : /\ RetiredNow[j].og = Tag(line) /\ Accepts(RetiredNow[j], line)
                                  /\ told' = [told EXCEPT ![Tag(line)] = Append(@, RetiredNow[j].gen)]
         /\ Tag(line) \in Ogs
    BY <1>1, <2>3, <2>14
  <2>17. \A j \in DOMAIN RetiredNow : RetiredNow[j].og # Tag(line) => \E i \in DOMAIN retired' : retired'[i].og = RetiredNow[j].og
    BY <2>9, <2>13
  <2> QED
    BY <2>1, <2>7, <2>10, <2>12, <2>15, <2>16, <2>17
<1>4. CASE /\ ~ \E i \in hit : line.kind = "grid" /\ line.echo # 0
           /\ ~ \E i \in hit : line.kind = "exit" /\ ~ RetiredNow[i].exited
  <2>1. retired' = RetiredNow /\ UNCHANGED told
    BY <1>4 DEF Observe
  <2>2. \A i \in DOMAIN RetiredNow : RetiredNow[i] = [RetiredNow[i] EXCEPT !.confirmed = RetiredNow[i].confirmed]
    BY <1>1 DEF RouteSet
  <2> QED
    BY <1>1, <1>4, <2>1, <2>2
<1> QED
  BY <1>2, <1>3, <1>4

\* The reader takes the head of the wire in its hand.
LEMMA StreamShifts ==
    ASSUME TypeInv, ReadLine, Head(wire).kind # "refused", ~ Contradicted(Head(wire))
    PROVE  /\ wire' \in Seq(Lines) /\ Len(wire) \in Nat /\ Len(wire) > 0 /\ Len(wire') = Len(wire) - 1
           /\ DOMAIN wire = 1 .. Len(wire) /\ DOMAIN wire' = 1 .. Len(wire')
           /\ \A i \in DOMAIN wire' : wire'[i] = wire[i + 1]
           /\ line' = wire[1] /\ line' \in Lines /\ line'.kind # "refused" /\ pc = "read" /\ pc' = "post"
           /\ Pos = 1 .. Len(wire) /\ Pos' = 0 .. Len(wire')
           /\ \A i \in Pos' : i + 1 \in Pos /\ At(i)' = At(i + 1)
           /\ pre' = LocalToken(line'.id)
           /\ UNCHANGED <<uiVars, paintVars, closed, out, daemonVars, localVars, post, proof>>
<1>1. /\ pc = "read" /\ pc' = "post" /\ line' = Head(wire) /\ wire' = Tail(wire) /\ wire # << >>
      /\ pre' = LocalToken(line'.id)
      /\ UNCHANGED <<uiVars, paintVars, closed, out, daemonVars, localVars, post, proof>>
  BY DEF ReadLine
<1>2. wire \in Seq(Lines) /\ DOMAIN wire = 1 .. Len(wire) /\ \A i \in DOMAIN wire : wire[i] \in Lines
  BY LinesTyped DEF TypeInv, DaemonTyped
<1>3. /\ wire' \in Seq(Lines) /\ Len(wire) \in Nat /\ Len(wire) > 0 /\ Len(wire') = Len(wire) - 1
      /\ \A i \in 1 .. Len(wire') : wire'[i] = wire[i + 1]
      /\ Head(wire) = wire[1] /\ Head(wire) \in Lines
  BY <1>1, <1>2, TailTyped
<1>4. DOMAIN wire' = 1 .. Len(wire')
  BY <1>3, LenProperties
<1>5. Pos = 1 .. Len(wire) /\ Pos' = 0 .. Len(wire')
  BY <1>1, <1>3 DEF Pos, InHand, Committing
<1>6. ASSUME NEW i \in Pos' PROVE i + 1 \in Pos /\ At(i)' = At(i + 1)
  BY <1>1, <1>3, <1>5 DEF At
<1> QED
  BY <1>1, <1>2, <1>3, <1>4, <1>5, <1>6

\* The reader is done with the line in its hand.
LEMMA StreamDrops ==
    ASSUME TypeInv, UNCHANGED wire, InHand \/ Committing, pc' = "top"
    PROVE  /\ Pos = 0 .. Len(wire) /\ Pos' = 1 .. Len(wire) /\ Len(wire) \in Nat
           /\ DOMAIN wire = 1 .. Len(wire) /\ At(0) = line /\ Pos' = Pos \ {0}
           /\ \A i \in Pos' : i \in Pos /\ At(i)' = At(i)
<1>1. Len(wire) \in Nat /\ DOMAIN wire = 1 .. Len(wire)
  BY LinesTyped
<1>2. Pos = 0 .. Len(wire) /\ Pos' = 1 .. Len(wire) /\ At(0) = line
  BY <1>1 DEF Pos, At, InHand, Committing
<1>3. \A i \in Pos' : i \in Pos /\ At(i)' = At(i)
  BY <1>1, <1>2 DEF At
<1>4. Pos' = Pos \ {0}
  BY <1>1, <1>2
<1> QED
  BY <1>1, <1>2, <1>3, <1>4

\* The reader goes on with it.
LEMMA StreamStays ==
    ASSUME UNCHANGED <<wire, line>>,
           \/ UNCHANGED pc
           \/ (InHand \/ Committing) /\ (InHand \/ Committing)'
           \/ ~ (InHand \/ Committing) /\ ~ (InHand \/ Committing)'
    PROVE  Pos' = Pos /\ \A i \in Pos : At(i)' = At(i)
BY DEF Pos, At, InHand, Committing

\* The outcomes of a line the reader dispatches: no line is a contradiction.
LEMMA DispatchOutcomes ==
    ASSUME TypeInv, OpenInv, Dispatch
    PROVE  /\ pc = "dispatch" /\ SyncHistory
           /\ UNCHANGED <<uiVars, paintVars, closed, out, daemonVars, wire>>
           /\ \/ /\ Routed /\ Accepts(AdoptedRoute, line)
                 /\ route' = [AdoptedRoute EXCEPT !.confirmed = TRUE] /\ retired' = RetiredNow
                 /\ pc' = (IF line.kind = "grid" THEN "clone" ELSE "commit")
                 /\ UNCHANGED <<told, lineVars>>
              \/ /\ ~ (Routed /\ Accepts(AdoptedRoute, line))
                 /\ route' = AdoptedRoute /\ Observe(RetiredNow, line) /\ pc' = "top" /\ LineDone
<1>1. pc = "dispatch"
  BY DEF Dispatch
<1>2. ~ (Routed /\ ~ Authorized(AdoptedRoute, line) /\ ClaimsRoute(AdoptedRoute, line))
  BY <1>1, DispatchQuiet
<1>3. CASE Routed /\ Accepts(AdoptedRoute, line)
  BY <1>2, <1>3 DEF Dispatch, Routed
<1>4. CASE ~ (Routed /\ Accepts(AdoptedRoute, line))
  BY <1>2, <1>4 DEF Dispatch, Routed
<1> QED
  BY <1>3, <1>4

LEMMA DispatchTyped ==
    ASSUME TypeInv, OpenInv, Dispatch
    PROVE  TypeInv'
<1> USE StreamRouteAssumption
<1>1. /\ pc = "dispatch" /\ SyncHistory
      /\ UNCHANGED <<uiVars, paintVars, closed, out, daemonVars, wire>>
  BY DispatchOutcomes
<1>2. UiTyped' /\ DaemonTyped'
  BY <1>1 DEF TypeInv, UiTyped, DaemonTyped, uiVars, paintVars, daemonVars
<1>3. /\ rEpoch' = active.epoch /\ adopted' = adopted \cup ({active.og} \ {0}) /\ active' = active
      /\ active.epoch \in 1 .. 2 * MaxBind + 1 /\ closed' = closed /\ closed = "open"
  BY <1>1 DEF SyncHistory, uiVars, TypeInv, UiTyped, Dispatch
<1>4. adopted' \subseteq Ogs /\ evicted' \subseteq Ogs /\ adopted \subseteq adopted'
  <2>1. active.og \in 0 .. MaxBind /\ adopted \subseteq Ogs /\ evicted \subseteq Ogs
    BY DEF TypeInv, UiTyped, ReaderTyped
  <2>2. evicted' \subseteq Ogs
    BY <1>1, <2>1 DEF SyncHistory
  <2>3. {active.og} \ {0} \subseteq Ogs
    BY <2>1 DEF Ogs
  <2> QED
    BY <1>3, <2>1, <2>2, <2>3
<1>5. /\ AdoptedRoute \in RouteSet /\ IsBinding(AdoptedRoute)
      /\ AdoptedRoute.id = NoSess => AdoptedRoute = NoRoute
  BY SyncMeans DEF OpenInv
<1>6. /\ RetiredNow \in Seq(RouteSet) /\ Len(RetiredNow) <= MaxRetired /\ Len(RetiredNow) \in Nat
      /\ \A i \in DOMAIN RetiredNow :
            /\ IsBinding(RetiredNow[i]) /\ RetiredNow[i].id \in Sess
            /\ RetiredNow[i].og \in adopted /\ RetiredNow[i].og \in Ogs /\ RetiredNow[i] \in RouteSet
  BY RetiredMeans, LenProperties, ElementOfSeq DEF OpenInv, IsBinding
<1>7. line \in LineSet /\ {pre, post, proof} \subseteq TokenSet /\ told \in [Ogs -> Seq(0 .. MaxGen)]
      /\ line \in Lines /\ line.kind # "refused"
  BY <1>1 DEF TypeInv, ReaderTyped, InHand
<1>8. CASE /\ Routed
           /\ route' = [AdoptedRoute EXCEPT !.confirmed = TRUE] /\ retired' = RetiredNow
           /\ pc' = (IF line.kind = "grid" THEN "clone" ELSE "commit")
           /\ UNCHANGED <<told, lineVars>>
  <2>1. AdoptedRoute.id # NoSess
    BY <1>5, <1>8 DEF Routed
  <2>2. route' \in RouteSet /\ IsBinding(route') /\ (route'.id = NoSess => route' = NoRoute)
    BY <1>5, <1>8, <2>1 DEF RouteSet, IsBinding
  <2>3. ReaderTyped'
    BY <1>3, <1>4, <1>6, <1>7, <1>8, <2>2 DEF ReaderTyped, lineVars, InHand, Committing
  <2> QED
    BY <1>2, <2>3 DEF TypeInv
<1>9. CASE route' = AdoptedRoute /\ Observe(RetiredNow, line) /\ pc' = "top" /\ LineDone
  <2>1. /\ retired' \in Seq(RouteSet) /\ Len(retired') <= Len(RetiredNow)
        /\ told' \in [Ogs -> Seq(0 .. MaxGen)]
        /\ \A i \in DOMAIN retired' : \E j \in DOMAIN RetiredNow :
              retired'[i] = [RetiredNow[j] EXCEPT !.confirmed = retired'[i].confirmed]
    <3>1. /\ RetiredNow \in Seq(RouteSet) /\ Observe(RetiredNow, line)
          /\ told \in [Ogs -> Seq(0 .. MaxGen)] /\ \A i \in DOMAIN RetiredNow : RetiredNow[i].og \in Ogs
      BY <1>6, <1>7, <1>9
    <3> QED
      BY <3>1, ObserveMeans
  <2>2. \A i \in DOMAIN retired' : /\ IsBinding(retired'[i]) /\ retired'[i].id \in Sess
                                   /\ retired'[i].og \in adopted
    <3> SUFFICES ASSUME NEW i \in DOMAIN retired'
                 PROVE  /\ IsBinding(retired'[i]) /\ retired'[i].id \in Sess
                        /\ retired'[i].og \in adopted
      OBVIOUS
    <3>1. PICK j \in DOMAIN RetiredNow :
             retired'[i] = [RetiredNow[j] EXCEPT !.confirmed = retired'[i].confirmed]
      BY <2>1
    <3>2. /\ retired'[i].id = RetiredNow[j].id /\ retired'[i].og = RetiredNow[j].og
          /\ retired'[i].gen = RetiredNow[j].gen
      BY <1>6, <3>1 DEF RouteSet
    <3> QED
      BY <1>6, <3>2 DEF IsBinding
  <2>3. Len(retired') <= MaxRetired
    <3>1. Len(retired') \in Nat
      BY <2>1, LenProperties
    <3> QED
      BY <1>6, <2>1, <3>1
  <2>4. line' \in LineSet /\ {pre', post', proof'} \subseteq TokenSet
    BY <1>9, TokensTyped DEF LineDone
  <2>5. ReaderTyped'
    BY <1>3, <1>4, <1>5, <1>9, <2>1, <2>2, <2>3, <2>4 DEF ReaderTyped, InHand, Committing
  <2> QED
    BY <1>2, <2>5 DEF TypeInv
<1> QED
  BY <1>8, <1>9, DispatchOutcomes

LEMMA TopSyncTyped ==
    ASSUME TypeInv, OpenInv, TopSync
    PROVE  TypeInv'
<1> USE StreamRouteAssumption
<1>1. /\ SyncHistory /\ route' = AdoptedRoute /\ retired' = RetiredNow /\ pc' = "read" /\ pc = "top"
      /\ closed = "open"
      /\ UNCHANGED <<uiVars, paintVars, closed, out, daemonVars, wire, told, lineVars>>
  BY DEF TopSync
<1>2. UiTyped' /\ DaemonTyped'
  BY <1>1 DEF TypeInv, UiTyped, DaemonTyped, uiVars, paintVars, daemonVars
<1>3. /\ rEpoch' = active.epoch /\ adopted' = adopted \cup ({active.og} \ {0}) /\ active' = active
      /\ active.epoch \in 1 .. 2 * MaxBind + 1 /\ closed' = closed
  BY <1>1 DEF SyncHistory, uiVars, TypeInv, UiTyped
<1>4. adopted' \subseteq Ogs /\ evicted' \subseteq Ogs /\ adopted \subseteq adopted'
  <2>1. active.og \in 0 .. MaxBind /\ adopted \subseteq Ogs /\ evicted \subseteq Ogs
    BY DEF TypeInv, UiTyped, ReaderTyped
  <2>2. evicted' \subseteq Ogs
    BY <1>1, <2>1 DEF SyncHistory
  <2>3. {active.og} \ {0} \subseteq Ogs
    BY <2>1 DEF Ogs
  <2> QED
    BY <1>3, <2>1, <2>2, <2>3
<1>5. /\ AdoptedRoute \in RouteSet /\ IsBinding(AdoptedRoute)
      /\ AdoptedRoute.id = NoSess => AdoptedRoute = NoRoute
  BY SyncMeans DEF OpenInv
<1>6. /\ RetiredNow \in Seq(RouteSet) /\ Len(RetiredNow) <= MaxRetired
      /\ \A i \in DOMAIN RetiredNow :
            /\ IsBinding(RetiredNow[i]) /\ RetiredNow[i].id \in Sess /\ RetiredNow[i].og \in adopted
  BY RetiredMeans DEF OpenInv
<1>7. line' \in LineSet /\ {pre', post', proof'} \subseteq TokenSet /\ told' \in [Ogs -> Seq(0 .. MaxGen)]
  BY <1>1 DEF TypeInv, ReaderTyped, lineVars
<1>8. ReaderTyped'
  BY <1>1, <1>3, <1>4, <1>5, <1>6, <1>7 DEF ReaderTyped, InHand, Committing
<1> QED
  BY <1>2, <1>8 DEF TypeInv

\* The connection may fail closed.
LEMMA ReadLineTyped ==
    ASSUME TypeInv, OpenInv, ReadLine
    PROVE  TypeInv'
<1> USE StreamRouteAssumption
<1>1. ~ Contradicted(Head(wire)) /\ closed = "open"
  BY ReadQuiet DEF ReadLine, OpenInv
<1>2. CASE Head(wire).kind # "refused"
  <2>1. /\ wire' \in Seq(Lines) /\ line' \in Lines /\ line'.kind # "refused" /\ pc' = "post"
        /\ pre' = LocalToken(line'.id)
        /\ UNCHANGED <<uiVars, paintVars, closed, out, daemonVars, localVars, post, proof>>
    BY <1>1, <1>2, StreamShifts
  <2>2. UiTyped' /\ DaemonTyped'
    BY <2>1 DEF TypeInv, UiTyped, DaemonTyped, uiVars, paintVars, daemonVars
  <2>3. line' \in LineSet /\ pre' \in TokenSet
    BY <2>1, TokensTyped DEF Lines
  <2>4. ReaderTyped'
    BY <1>1, <2>1, <2>3 DEF TypeInv, ReaderTyped, localVars, uiVars, InHand, Committing
  <2> QED
    BY <2>2, <2>4 DEF TypeInv
<1>3. CASE Head(wire).kind = "refused"
  <2>1. /\ FailClosed("refused") /\ UNCHANGED <<nextOg, line, pre, out, daemonVars, localVars, post, proof>>
        /\ wire' = Tail(wire) /\ wire # << >>
    BY <1>3 DEF ReadLine
  <2>2. UiTyped' /\ pc' = "stopped" /\ closed' # "open" /\ active'.epoch = active.epoch + 1
    BY <1>1, <2>1, FailTyped
  <2>3. DaemonTyped'
    BY <2>1, TailTyped DEF TypeInv, DaemonTyped, daemonVars
  <2>4. rEpoch <= active'.epoch
    BY <2>2 DEF TypeInv, UiTyped, ReaderTyped
  <2>5. ReaderTyped'
    BY <2>1, <2>2, <2>4 DEF TypeInv, ReaderTyped, localVars, InHand, Committing
  <2> QED
    BY <2>2, <2>3, <2>5 DEF TypeInv
<1> QED
  BY <1>2, <1>3

LEMMA PostTokenTyped ==
    ASSUME TypeInv, PostToken
    PROVE  TypeInv'
<1>1. line \in Lines /\ line.id \in Sess
  BY DEF PostToken, TypeInv, ReaderTyped, InHand, Lines
<1>2. post' \in TokenSet
  BY <1>1, TokensTyped DEF PostToken
<1>3. UiTyped' /\ DaemonTyped'
  BY DEF PostToken, TypeInv, UiTyped, DaemonTyped, uiVars, paintVars, daemonVars
<1>4. ReaderTyped'
  BY <1>2 DEF PostToken, TypeInv, ReaderTyped, localVars, uiVars, InHand, Committing
<1> QED
  BY <1>3, <1>4 DEF TypeInv

LEMMA ReceiptTyped ==
    ASSUME TypeInv, CloneReceipt \/ NoteGrid
    PROVE  TypeInv'
<1> USE StreamRouteAssumption
<1>1. CASE CloneReceipt
  <2>1. UiTyped' /\ DaemonTyped'
    BY <1>1 DEF CloneReceipt, TypeInv, UiTyped, DaemonTyped, uiVars, paintVars, daemonVars
  <2>2. ReaderTyped'
    BY <1>1 DEF CloneReceipt, TypeInv, UiTyped, ReaderTyped, localVars, uiVars, InHand, Committing
  <2> QED
    BY <2>1, <2>2 DEF TypeInv
<1>2. CASE NoteGrid /\ proof = post /\ admission = proof
  <2>1. UiTyped' /\ DaemonTyped'
    BY <1>2 DEF NoteGrid, TypeInv, UiTyped, DaemonTyped, uiVars, paintVars, daemonVars
  <2>2. ReaderTyped'
    BY <1>2 DEF NoteGrid, TypeInv, ReaderTyped, localVars, lineVars, uiVars, InHand, Committing
  <2> QED
    BY <2>1, <2>2 DEF TypeInv
<1>3. CASE NoteGrid /\ ~ (proof = post /\ admission = proof)
  <2>1. FailClosed("receipt") /\ UNCHANGED <<nextOg, out, daemonVars, wire, localVars, lineVars>>
        /\ closed = "open"
    BY <1>3 DEF NoteGrid
  <2>2. UiTyped' /\ pc' = "stopped" /\ closed' # "open" /\ active'.epoch = active.epoch + 1
    BY <2>1, FailTyped
  <2>3. DaemonTyped'
    BY <2>1 DEF TypeInv, DaemonTyped, daemonVars
  <2>4. rEpoch <= active'.epoch
    BY <2>2 DEF TypeInv, UiTyped, ReaderTyped
  <2>5. ReaderTyped'
    BY <2>1, <2>2, <2>4 DEF TypeInv, ReaderTyped, localVars, lineVars, InHand, Committing
  <2> QED
    BY <2>2, <2>3, <2>5 DEF TypeInv
<1> QED
  BY <1>1, <1>2, <1>3

\* At the commit the line is the reader's binding's.
LEMMA CommitMeans ==
    ASSUME TypeInv, HandInv, Committing
    PROVE  /\ route.id \in Sess /\ route.og \in Ogs /\ route.gen \in Gens /\ line.id = route.id
           /\ line \in Lines /\ line.kind # "refused" /\ 0 \in Pos /\ At(0) = line
           /\ line.kind \in {"grid", "damage", "exit"}
           /\ Tag(line) # 0 => Tag(line) = route.og /\ line.src = route.og
           /\ Tag(line) = 0 => line.kind = "grid" /\ line.echo = 0 /\ line.live = 0
           /\ line.kind # "grid" => line.live = route.og
<1>1. line \in Lines /\ line.kind # "refused" /\ 0 \in Pos /\ At(0) = line
  BY LinesTyped DEF TypeInv, ReaderTyped, Pos, At
<1>2. line.id = route.id /\ route.confirmed /\ Accepts(route, line)
  BY DEF HandInv, Accepts
<1>3. route.id \in Sess /\ route.og \in Ogs /\ route.gen \in Gens
  BY <1>1, <1>2, StreamRouteAssumption DEF TypeInv, ReaderTyped, IsBinding, Lines
<1>4. line.kind \in {"grid", "damage", "exit"}
  BY <1>1 DEF Lines, LineSet
<1> QED
  BY <1>1, <1>2, <1>3, <1>4 DEF Accepts, Tag, Lines

LEMMA CommitTyped ==
    ASSUME TypeInv, HandInv, Commit
    PROVE  TypeInv'
<1> USE StreamRouteAssumption
<1>1. /\ pc = "commit" /\ pc' = "top" /\ LineDone /\ closed = "open"
      /\ UNCHANGED <<uiVars, closed, daemonVars, wire, rEpoch, retired, adopted, evicted>>
  BY DEF Commit
<1>2. /\ route.id \in Sess /\ route.og \in Ogs /\ route.gen \in Gens /\ line.id = route.id
      /\ line \in Lines
  BY <1>1, CommitMeans DEF Committing
<1>3. line.src \in 0 .. MaxBind
  BY <1>2 DEF Lines, LineSet
<1>4. /\ route' \in RouteSet /\ route'.id = route.id /\ route'.og = route.og /\ route'.gen = route.gen
      /\ grid' \in 0 .. MaxBind /\ exitShown' \in 0 .. MaxBind
  <2>1. route \in RouteSet /\ grid \in 0 .. MaxBind /\ exitShown \in 0 .. MaxBind
    BY DEF TypeInv, UiTyped, ReaderTyped
  <2>2. CASE CommitGrid
    BY <1>3, <2>1, <2>2 DEF CommitGrid, RouteSet
  <2>3. CASE CommitDamage
    BY <1>3, <2>1, <2>3 DEF CommitDamage, RouteSet
  <2>4. CASE CommitExit
    BY <1>3, <2>1, <2>4 DEF CommitExit, RouteSet
  <2> QED
    BY <2>2, <2>3, <2>4 DEF Commit
<1>5. told' \in [Ogs -> Seq(0 .. MaxGen)]
  <2>1. Append(told[route.og], route.gen) \in Seq(0 .. MaxGen)
    BY <1>2, AppendTyped DEF TypeInv, ReaderTyped, Gens
  <2> QED
    BY <1>2, <2>1 DEF Commit, CommitGrid, CommitDamage, CommitExit, TypeInv, ReaderTyped
<1>6. /\ out' \in Seq(Requests)
      /\ \A i \in DOMAIN out' : out'[i].op = "attach" => out'[i].og \in Ogs /\ out'[i].gen \in Gens
  <2>1. CASE out' = out
    BY <2>1 DEF TypeInv, UiTyped
  <2>2. CASE out' = Append(out, Snapshot(line.id))
    <3>1. Snapshot(line.id) \in Requests /\ Snapshot(line.id).op = "snapshot"
      BY <1>2 DEF Snapshot, Requests
    <3>2. out \in Seq(Requests) /\ Len(out) \in Nat /\ DOMAIN out = 1 .. Len(out)
      BY LinesTyped DEF TypeInv, UiTyped
    <3>3. /\ out' \in Seq(Requests) /\ Len(out') = Len(out) + 1
          /\ \A i \in 1 .. Len(out) : out'[i] = out[i]
          /\ out'[Len(out) + 1] = Snapshot(line.id)
      BY <2>2, <3>1, <3>2, AppendTyped
    <3>4. DOMAIN out' = 1 .. Len(out')
      BY <3>3, LenProperties
    <3> QED
      BY <3>1, <3>2, <3>3, <3>4 DEF TypeInv, UiTyped
  <2> QED
    BY <2>1, <2>2 DEF Commit, CommitGrid, CommitDamage, CommitExit
<1>7. UiTyped'
  BY <1>1, <1>4, <1>6 DEF TypeInv, UiTyped, uiVars
<1>8. DaemonTyped'
  BY <1>1 DEF TypeInv, DaemonTyped, daemonVars
<1>9. line' \in LineSet /\ {pre', post', proof'} \subseteq TokenSet
  BY <1>1, TokensTyped DEF LineDone
<1>10. IsBinding(route') /\ route'.id # NoSess
  BY <1>2, <1>4 DEF IsBinding
<1>11. ReaderTyped'
  BY <1>1, <1>4, <1>5, <1>9, <1>10 DEF TypeInv, ReaderTyped, uiVars, InHand, Committing
<1> QED
  BY <1>7, <1>8, <1>11 DEF TypeInv

-----------------------------------------------------------------------------
(* The UI thread's steps keep the invariant. *)

\* A name is as old as the bindings.
LEMMA NamesStep ==
    ASSUME NamesInv, nextOg \in Nat, nextOg' \in Nat, nextOg <= nextOg',
           \A o \in Ogs, s \in Sess, g \in Gens : Names(o, s, g)' =>
              \/ Names(o, s, g)
              \/ o > nextOg /\ o = nextOg' /\ s = active'.id /\ g = active'.gen
    PROVE  NamesInv'
<1> SUFFICES ASSUME NEW o \in Ogs, NEW s \in Sess, NEW t \in Sess, NEW g \in Gens, NEW h \in Gens, Names(o, s, g)'
             PROVE  o <= nextOg' /\ (Names(o, t, h)' => s = t /\ g = h)
  BY DEF NamesInv
<1>1. o \in Nat
  BY StreamRouteAssumption DEF Ogs
<1> QED
  BY <1>1 DEF NamesInv

\* Nothing of an output generation that is still to come is anywhere.
LEMMA TagsOld ==
    ASSUME TypeInv, FreshInv
    PROVE  /\ nextOg \in Nat /\ \A o \in Ogs : o \in Nat /\ o # 0
           /\ \A i \in Pos : /\ At(i).echo # 0 => At(i).echo \in Ogs /\ At(i).echo <= nextOg
                             /\ At(i).live # 0 => At(i).live \in Ogs /\ At(i).live <= nextOg
           /\ \A f \in fwd : f.og \in Ogs /\ f.og <= nextOg
           /\ \A o \in sent : o \in Ogs /\ o <= nextOg
           /\ (InHand \/ Committing) => 0 \in Pos /\ At(0) = line
<1>1. nextOg \in Nat /\ \A o \in Ogs : o \in Nat /\ o # 0
  BY StreamRouteAssumption DEF TypeInv, UiTyped, Ogs
<1>2. \A o \in Ogs : o > nextOg => Fresh(o)
  BY DEF FreshInv
<1>3. ASSUME NEW i \in Pos
      PROVE  /\ At(i).echo # 0 => At(i).echo \in Ogs /\ At(i).echo <= nextOg
             /\ At(i).live # 0 => At(i).live \in Ogs /\ At(i).live <= nextOg
  <2>1. At(i) \in Lines /\ At(i).echo \in 0 .. MaxBind /\ At(i).live \in 0 .. MaxBind
    BY LinesTyped DEF Lines, LineSet
  <2>2. /\ At(i).echo # 0 => At(i).echo \in Ogs /\ Tag(At(i)) = At(i).echo
        /\ At(i).live # 0 => At(i).live \in Ogs /\ Tag(At(i)) = At(i).live
    BY <2>1, StreamRouteAssumption DEF Tag, Lines, Ogs
  <2> QED
    BY <1>1, <1>2, <2>2 DEF Fresh
<1>4. \A f \in fwd : f.og \in Ogs /\ f.og <= nextOg
  <2>1. \A f \in fwd : f.og \in Ogs
    BY DEF TypeInv, DaemonTyped
  <2> QED
    BY <1>1, <1>2, <2>1 DEF Fresh
<1>5. \A o \in sent : o \in Ogs /\ o <= nextOg
  <2>1. \A o \in sent : o \in Ogs
    BY DEF TypeInv, DaemonTyped
  <2> QED
    BY <1>1, <1>2, <2>1 DEF Fresh
<1>6. (InHand \/ Committing) => 0 \in Pos /\ At(0) = line
  BY LinesTyped DEF Pos, At
<1> QED
  BY <1>1, <1>3, <1>4, <1>5, <1>6

LEMMA BindKeeps ==
    ASSUME TypeInv, OpenInv, NEW s \in Sess, Bind(s)
    PROVE  OpenInv'
<1>1. /\ active' = [epoch |-> active.epoch + 1, id |-> s, og |-> nextOg', gen |-> gen[s]]
      /\ grid' = 0 /\ exitShown' = 0
      /\ UNCHANGED <<att, fwd, gen, ended, frames, sent, wire, pc, rEpoch, route, retired,
                     adopted, evicted, told, line, pre, post, proof>>
  BY DEF Bind, daemonVars, localVars, lineVars
<1>2. Pos' = Pos /\ \A i \in Pos : At(i)' = At(i)
  BY <1>1, StreamStays
<1>3. /\ nextOg' = nextOg + 1 /\ nextOg \in Nat /\ nextOg' \in Ogs /\ gen[s] \in Gens /\ s # NoSess
      /\ active.epoch \in Nat /\ rEpoch \in Nat /\ rEpoch <= active.epoch
  BY BindQueue, StreamRouteAssumption DEF TypeInv, UiTyped, ReaderTyped
<1>4. /\ DOMAIN out' = 1 .. Len(out') /\ Len(out') \in Nat /\ Len(out') >= Len(out) + 2
      /\ Len(out) \in Nat /\ DOMAIN out = 1 .. Len(out)
      /\ out'[Len(out') - 1] = Attach(s, nextOg', gen[s]) /\ out'[Len(out')] = Snapshot(s)
      /\ \A i \in 1 .. Len(out) : out'[i] = out[i]
      /\ \A i \in 1 .. Len(out') - 2 : i > Len(out) => out'[i].op = "detach"
  BY BindQueue
<1>5. \A i \in DOMAIN out' : out'[i].op = "attach" =>
         \/ i \in DOMAIN out /\ out'[i] = out[i]
         \/ i = Len(out') - 1 /\ out'[i] = Attach(s, nextOg', gen[s])
  <2> SUFFICES ASSUME NEW i \in 1 .. Len(out'), out'[i].op = "attach"
               PROVE  \/ i \in 1 .. Len(out) /\ out'[i] = out[i]
                      \/ i = Len(out') - 1
    BY <1>4
  <2>1. CASE i <= Len(out)
    BY <1>4, <2>1
  <2>2. CASE i > Len(out) /\ i <= Len(out') - 2
    <3>1. i \in 1 .. Len(out') - 2
      BY <1>4, <2>2
    <3>2. out'[i].op = "detach"
      BY <1>4, <2>2, <3>1
    <3> QED
      BY <3>2
  <2>3. CASE i = Len(out')
    <3>1. out'[i].op = "snapshot"
      BY <1>4, <2>3 DEF Snapshot
    <3> QED
      BY <3>1
  <2>4. i <= Len(out) \/ (i > Len(out) /\ i <= Len(out') - 2) \/ i = Len(out') - 1 \/ i = Len(out')
    BY <1>4
  <2> QED
    BY <2>1, <2>2, <2>3, <2>4
<1>6. Fresh(nextOg')
  BY <1>3 DEF OpenInv, FreshInv
<1>7. /\ \A i \in Pos : At(i).echo # nextOg' /\ At(i).live # nextOg'
      /\ \A f \in fwd : f.og # nextOg'
      /\ \A o \in sent : o # nextOg'
      /\ (InHand \/ Committing) => 0 \in Pos /\ At(0) = line
  BY <1>3, TagsOld DEF OpenInv
<1>8. NamesInv'
  <2>1. ASSUME NEW o \in Ogs, NEW t \in Sess, NEW g \in Gens, Names(o, t, g)'
        PROVE  \/ Names(o, t, g)
               \/ o > nextOg /\ o = nextOg' /\ t = active'.id /\ g = active'.gen
    <3>1. CASE \E i \in DOMAIN out' : out'[i] = Attach(t, o, g)
      <4>1. PICK i \in DOMAIN out' : out'[i] = Attach(t, o, g)
        BY <3>1
      <4>2. CASE i \in DOMAIN out /\ out'[i] = out[i]
        BY <4>1, <4>2 DEF Names
      <4>3. CASE out'[i] = Attach(s, nextOg', gen[s])
        <5>1. t = s /\ o = nextOg' /\ g = gen[s]
          BY <4>1, <4>3 DEF Attach
        <5> QED
          BY <1>1, <1>3, <5>1
      <4> QED
        BY <1>5, <4>1, <4>2, <4>3 DEF Attach
    <3>2. CASE active'.og = o /\ active'.id = t /\ active'.gen = g
      BY <1>1, <1>3, <3>2
    <3>3. CASE /\ ~ \E i \in DOMAIN out' : out'[i] = Attach(t, o, g)
               /\ ~ (active'.og = o /\ active'.id = t /\ active'.gen = g)
      BY <1>1, <1>2, <2>1, <3>3 DEF Names, Tag
    <3> QED
      BY <3>1, <3>2, <3>3
  <2>2. NamesInv /\ nextOg' \in Nat /\ nextOg <= nextOg'
    BY <1>3 DEF OpenInv
  <2> QED
    BY <1>3, <2>1, <2>2, NamesStep
<1>9. FreshInv'
  <2>1. \A o \in Ogs : Fresh(o)' <=> Fresh(o)
    BY <1>1, <1>2 DEF Fresh, Tag
  <2>2. \A o \in Ogs : Refused(o)' <=> Refused(o)
    BY <1>1 DEF Refused
  <2>3. \A o \in Ogs : Unserved(o)' => Unserved(o) \/ o = nextOg'
    BY <1>5 DEF Unserved, Attach
  <2>4. \A o \in Ogs : o \in Nat
    BY StreamRouteAssumption DEF Ogs
  <2>5. ~ Refused(nextOg') /\ ~ Unserved(nextOg')
    BY <1>3 DEF OpenInv, FreshInv
  <2>6. \A o \in Ogs : Unserved(o)' \/ Refused(o)' \/ o > nextOg' => Fresh(o)'
    BY <1>3, <1>6, <2>1, <2>2, <2>3, <2>4 DEF OpenInv, FreshInv
  <2>7. \A o \in Ogs : /\ Unserved(o)' \/ Refused(o)' => o <= nextOg'
                       /\ Unserved(o)' => ~ Refused(o)'
    <3>1. \A o \in Ogs : Unserved(o) \/ Refused(o) => o <= nextOg
      BY DEF OpenInv, FreshInv
    <3>2. \A o \in Ogs : Unserved(o) => ~ Refused(o)
      BY DEF OpenInv, FreshInv
    <3>3. \A o \in Ogs : o <= nextOg \/ o = nextOg' => o <= nextOg'
      BY <1>3, <2>4
    <3> QED
      BY <2>2, <2>3, <2>5, <3>1, <3>2, <3>3
  <2>8. ASSUME NEW i \in DOMAIN out', NEW j \in DOMAIN out', out'[i].op = "attach",
               out'[j].op = "attach", out'[i].og = out'[j].og
        PROVE  i = j
    <3>1. \A k \in DOMAIN out : out[k].op = "attach" => out[k].og # nextOg'
      BY <2>5 DEF Unserved
    <3> QED
      BY <1>5, <2>8, <3>1 DEF OpenInv, FreshInv, Attach
  <2> QED
    BY <2>6, <2>7, <2>8 DEF FreshInv
<1>10. QueueInv'
  <2>1. Len(out') - 1 \in DOMAIN out'
    BY <1>4
  <2>2. \A j \in DOMAIN out' : j > Len(out') - 1 => out'[j].op = "snapshot"
    BY <1>4 DEF Snapshot
  <2> QED
    BY <1>1, <1>4, <2>1, <2>2 DEF QueueInv
<1>11. RouteInv'
  BY <1>1, <1>3 DEF OpenInv, RouteInv
<1>12. StaleInv'
  BY <1>1, <1>2, <1>6, <1>7 DEF StaleInv, Fresh
<1>13. HandInv'
  <2>1. post \in TokenSet /\ (post = NoToken => post.epoch = 0) /\ (post # NoToken => post.epoch \in Nat)
    BY StreamRouteAssumption DEF TypeInv, ReaderTyped, TokenSet, NoToken, Token
  <2>2. \A t \in Sess : LocalToken(t)' = LocalToken(t)
    BY <1>1 DEF LocalToken
  <2>3. line.id \in Sess \/ ~ (InHand \/ Committing)
    BY DEF TypeInv, ReaderTyped, Lines
  <2>4. InHand' = InHand /\ Committing' = Committing
    BY <1>1 DEF InHand, Committing
  <2>5. Accepts(route, line)' <=> Accepts(route, line)
    BY <1>1 DEF Accepts, Authorized
  <2>6. active'.epoch = active.epoch + 1 /\ active'.og = nextOg'
    BY <1>1
  <2>7. pc = "dispatch" => InHand
    BY DEF InHand
  <2>8. pc = "dispatch" \/ Committing => line.echo # nextOg' /\ post.epoch < active'.epoch
    BY <1>3, <1>7, <2>1, <2>6, <2>7 DEF OpenInv, HandInv
  <2> QED
    BY <1>1, <1>3, <2>1, <2>2, <2>3, <2>4, <2>5, <2>6, <2>8 DEF OpenInv, HandInv
<1>14. ExitInv'
  BY <1>1, <1>2 DEF OpenInv, ExitInv, ExitAt
<1>15. EchoInv'
  <2>1. \A o \in Ogs : o # nextOg' /\ Confirmed(o) => Confirmed(o)'
    BY <1>1 DEF Confirmed
  <2>2. \A o \in Ogs, k \in Nat : Ahead(o, k) => Ahead(o, k)'
    BY <1>1, <1>2 DEF Ahead, InHand
  <2>3. \A k \in Pos : At(k).kind = "exit" => At(k).live \in Ogs
    BY LinesTyped, TagsOld DEF Lines, OpenInv
  <2>4. \A f \in fwd : f.og \in Ogs
    BY TagsOld DEF OpenInv
  <2>5. Pos \subseteq Nat /\ Len(wire) + 1 \in Nat /\ Len(wire') = Len(wire)
    BY <1>1, LinesTyped DEF Pos
  <2> QED
    BY <1>1, <1>2, <1>7, <2>1, <2>2, <2>3, <2>4, <2>5 DEF OpenInv, EchoInv
<1>16. KeptInv'
  <2>1. \A o \in sent : (\E i \in Pos : ExitAt(i, o)) => (\E i \in Pos' : ExitAt(i, o)')
    BY <1>2 DEF ExitAt
  <2>2. \A o \in sent : o # active'.og
    BY <1>1, <1>7
  <2> QED
    BY <1>1, <2>1, <2>2 DEF OpenInv, KeptInv
<1>17. PaintInv'
  BY <1>1, <1>4 DEF PaintInv, Unserved, Attach
<1>18. PaintedByOwnRoute'
  BY <1>1 DEF PaintedByOwnRoute
<1> QED
  BY <1>8, <1>9, <1>10, <1>11, <1>12, <1>13, <1>14, <1>15, <1>16, <1>17, <1>18 DEF OpenInv

\* Nothing of an Attach still to be served, refused or to come appears, and no
\* Attach is queued again.
LEMMA FreshStep ==
    ASSUME FreshInv, nextOg' = nextOg,
           \A o \in Ogs : Unserved(o)' => Unserved(o),
           \A o \in Ogs : Refused(o)' => Refused(o) \/ (Unserved(o) /\ ~ Unserved(o)'),
           \A o \in Ogs : Fresh(o) /\ (Unserved(o)' \/ Refused(o)' \/ o > nextOg) => Fresh(o)',
           \A i, j \in DOMAIN out' :
              out'[i].op = "attach" /\ out'[j].op = "attach" /\ out'[i].og = out'[j].og => i = j
    PROVE  FreshInv'
<1>1. \A o \in Ogs : Unserved(o)' \/ Refused(o)' \/ o > nextOg' => Fresh(o)'
  BY DEF FreshInv
<1>2. \A o \in Ogs : Unserved(o)' \/ Refused(o)' => o <= nextOg'
  BY DEF FreshInv
<1>3. \A o \in Ogs : Unserved(o)' => ~ Refused(o)'
  BY DEF FreshInv
<1> QED
  BY <1>1, <1>2, <1>3 DEF FreshInv

\* The viewport is cleared, or the Detaches owed since are queued.
LEMMA NeutralKeeps ==
    ASSUME TypeInv, OpenInv, Clear \/ Cleanup
    PROVE  OpenInv'
<1>1. /\ UNCHANGED <<nextOg, att, fwd, gen, ended, frames, sent, wire, pc, rEpoch, route, retired,
                     adopted, evicted, told, line, pre, post, proof>>
  BY DEF Clear, Cleanup, daemonVars, localVars, lineVars
<1>2. Pos' = Pos /\ \A i \in Pos : At(i)' = At(i)
  BY <1>1, StreamStays
<1>3. /\ active'.id = NoSess /\ active'.og = 0
      /\ active' = active \/ active'.epoch = active.epoch + 1
      /\ active.epoch \in Nat /\ rEpoch \in Nat /\ rEpoch <= active.epoch
      /\ \A o \in Ogs : o # 0
  <2>1. active'.id = NoSess /\ (active' = active \/ (active'.epoch = active.epoch + 1 /\ active'.og = 0))
    BY DEF Clear, Cleanup
  <2>2. active.id = NoSess => active.og = 0
    BY StreamRouteAssumption DEF TypeInv, UiTyped, IsBinding
  <2>3. active.epoch \in Nat /\ rEpoch \in Nat /\ rEpoch <= active.epoch /\ \A o \in Ogs : o # 0
    BY StreamRouteAssumption DEF TypeInv, UiTyped, ReaderTyped, Ogs
  <2> QED
    BY <2>1, <2>2, <2>3
<1>4. \A i \in DOMAIN out' : out'[i].op = "attach" => i \in DOMAIN out /\ out'[i] = out[i]
  <2>1. /\ owed \in SUBSET Sess /\ attached \in SUBSET Sess
        /\ IsFiniteSet(owed \cup attached) /\ IsFiniteSet(owed)
    BY FS_Union DEF TypeInv, UiTyped
  <2>2. out' = out \/ out' = out \o Detaches(owed \cup attached) \/ out' = out \o Detaches(owed)
    BY DEF Clear, Cleanup
  <2> QED
    BY <2>1, <2>2, BatchAttaches
<1>5. NamesInv'
  <2>1. ASSUME NEW o \in Ogs, NEW t \in Sess, NEW g \in Gens, Names(o, t, g)'
        PROVE  Names(o, t, g)
    <3>1. CASE \E i \in DOMAIN out' : out'[i] = Attach(t, o, g)
      BY <1>4, <3>1 DEF Names, Attach
    <3>2. CASE ~ \E i \in DOMAIN out' : out'[i] = Attach(t, o, g)
      BY <1>1, <1>2, <1>3, <2>1, <3>2 DEF Names, Tag
    <3> QED
      BY <3>1, <3>2
  <2>2. NamesInv /\ nextOg' = nextOg /\ nextOg \in Nat
    BY <1>1, StreamRouteAssumption DEF OpenInv, TypeInv, UiTyped, Ogs
  <2> QED
    BY <2>1, <2>2, NamesStep
<1>6. FreshInv'
  <2>1. \A o \in Ogs : Fresh(o)' <=> Fresh(o)
    BY <1>1, <1>2 DEF Fresh, Tag
  <2>2. \A o \in Ogs : Refused(o)' <=> Refused(o)
    BY <1>1 DEF Refused
  <2>3. \A o \in Ogs : Unserved(o)' => Unserved(o)
    BY <1>4 DEF Unserved
  <2>4. \A i, j \in DOMAIN out' :
              out'[i].op = "attach" /\ out'[j].op = "attach" /\ out'[i].og = out'[j].og => i = j
    BY <1>4 DEF OpenInv, FreshInv
  <2>5. FreshInv
    BY DEF OpenInv
  <2> QED
    BY <1>1, <2>1, <2>2, <2>3, <2>4, <2>5, FreshStep
<1>7. QueueInv' /\ StaleInv' /\ PaintInv'
  BY <1>3 DEF QueueInv, StaleInv, PaintInv
<1>8. RouteInv'
  BY <1>1, <1>3 DEF OpenInv, RouteInv
<1>9. HandInv'
  <2>1. post \in TokenSet /\ (post = NoToken => post.epoch = 0) /\ (post # NoToken => post.epoch \in Nat)
    BY StreamRouteAssumption DEF TypeInv, ReaderTyped, TokenSet, NoToken, Token
  <2>2. \A t \in Sess : LocalToken(t)' = LocalToken(t) /\ (active' = active => SharedToken(t)' = SharedToken(t))
    BY <1>1 DEF LocalToken, SharedToken
  <2>3. line.id \in Sess \/ ~ (InHand \/ Committing)
    BY DEF TypeInv, ReaderTyped, Lines
  <2>4. InHand' = InHand /\ Committing' = Committing
    BY <1>1 DEF InHand, Committing
  <2>5. Accepts(route, line)' <=> Accepts(route, line)
    BY <1>1 DEF Accepts, Authorized
  <2>6. pc = "dispatch" => InHand
    BY DEF InHand
  <2>7. HandInv
    BY DEF OpenInv
  <2>8. pc = "dispatch" \/ Committing => post.epoch <= active.epoch
    BY <1>3, <2>1, <2>7 DEF HandInv
  <2>9. CASE active' = active
    BY <1>1, <1>3, <2>2, <2>3, <2>4, <2>5, <2>6, <2>7, <2>9 DEF HandInv
  <2>10. CASE active'.epoch = active.epoch + 1
    BY <1>1, <1>3, <2>1, <2>2, <2>3, <2>4, <2>5, <2>6, <2>7, <2>8, <2>10 DEF HandInv
  <2> QED
    BY <1>3, <2>9, <2>10
<1>10. ExitInv'
  BY <1>1, <1>2 DEF OpenInv, ExitInv, ExitAt
<1>11. EchoInv'
  <2>1. \A o \in Ogs : Confirmed(o) => Confirmed(o)'
    BY <1>1, <1>3 DEF Confirmed
  <2>2. \A o \in Ogs, k \in Nat : Ahead(o, k) => Ahead(o, k)'
    BY <1>1, <1>2 DEF Ahead, InHand
  <2>3. \A k \in Pos : At(k).kind = "exit" => At(k).live \in Ogs
    BY LinesTyped, TagsOld DEF Lines, OpenInv
  <2>4. \A f \in fwd : f.og \in Ogs
    BY TagsOld DEF OpenInv
  <2>5. Pos \subseteq Nat /\ Len(wire) + 1 \in Nat /\ Len(wire') = Len(wire)
    BY <1>1, LinesTyped DEF Pos
  <2> QED
    BY <1>1, <1>2, <2>1, <2>2, <2>3, <2>4, <2>5 DEF OpenInv, EchoInv
<1>12. KeptInv'
  <2>1. \A o \in sent : (\E i \in Pos : ExitAt(i, o)) => (\E i \in Pos' : ExitAt(i, o)')
    BY <1>2 DEF ExitAt
  <2>2. \A o \in sent : o # active'.og
    BY <1>3, TagsOld DEF OpenInv
  <2> QED
    BY <1>1, <2>1, <2>2 DEF OpenInv, KeptInv
<1>13. PaintedByOwnRoute'
  BY DEF Clear, Cleanup, paintVars, PaintedByOwnRoute, OpenInv
<1> QED
  BY <1>5, <1>6, <1>7, <1>8, <1>9, <1>10, <1>11, <1>12, <1>13 DEF OpenInv

-----------------------------------------------------------------------------
(* The daemon's steps keep the invariant. *)

\* What neither the UI thread nor the reader does in a step of the daemon.
Idle == UNCHANGED <<uiVars, paintVars, closed, pc, localVars, lineVars>>

\* A step of the daemon that only queues lines leaves the reader's knowledge as
\* it is.
LEMMA IdleKeeps ==
    ASSUME OpenInv, Idle
    PROVE  /\ RouteInv' /\ HandInv' /\ PaintedByOwnRoute'
           /\ (InHand' <=> InHand) /\ (Committing' <=> Committing)
           /\ \A o : Confirmed(o)' <=> Confirmed(o)
           /\ nextOg' = nextOg /\ active' = active /\ route' = route /\ retired' = retired
           /\ adopted' = adopted /\ evicted' = evicted /\ told' = told /\ grid' = grid
           /\ rEpoch' = rEpoch /\ pc' = pc /\ line' = line
<1>1. UNCHANGED <<active, nextOg, grid, exitShown, pc, rEpoch, route, retired, adopted, evicted,
                  told, line, pre, post>>
  BY DEF Idle, uiVars, paintVars, localVars, lineVars
<1>2. RouteInv' /\ PaintedByOwnRoute'
  BY <1>1 DEF OpenInv, RouteInv, PaintedByOwnRoute
<1>3. HandInv'
  BY <1>1 DEF OpenInv, HandInv, InHand, Committing, LocalToken, SharedToken, Accepts, Authorized
<1>4. \A o : Confirmed(o)' <=> Confirmed(o)
  BY <1>1 DEF Confirmed
<1>5. (InHand' <=> InHand) /\ (Committing' <=> Committing)
  BY <1>1 DEF InHand, Committing
<1> QED
  BY <1>1, <1>2, <1>3, <1>4, <1>5

\* A session ends or is started again, or a forwarder stops.
LEMMA QuietKeeps ==
    ASSUME TypeInv, OpenInv,
           \/ \E f \in fwd : AbortTakesHold(f)
           \/ \E s \in Sess : SessionEnds(s) \/ Restart(s)
    PROVE  OpenInv'
<1>1. Idle /\ UNCHANGED <<out, att, sent, wire>> /\ fwd' \subseteq fwd
  BY DEF AbortTakesHold, SessionEnds, Restart, Idle
<1>2. \A s \in Sess : att[s] # 0 => gen'[s] = gen[s]
  BY DEF AbortTakesHold, SessionEnds, Restart, TypeInv, DaemonTyped
<1>3. /\ RouteInv' /\ HandInv' /\ PaintedByOwnRoute' /\ (InHand' <=> InHand)
      /\ \A o : Confirmed(o)' <=> Confirmed(o)
      /\ nextOg' = nextOg /\ active' = active /\ route' = route /\ retired' = retired
      /\ adopted' = adopted /\ evicted' = evicted /\ told' = told /\ grid' = grid
      /\ pc' = pc /\ line' = line
  BY <1>1, IdleKeeps
<1>4. Pos' = Pos /\ \A i \in Pos : At(i)' = At(i)
  BY <1>1, <1>3, StreamStays
<1>5. \A o \in Ogs : o # 0
  BY StreamRouteAssumption DEF Ogs
<1>6. NamesInv'
  <2>1. ASSUME NEW o \in Ogs, NEW t \in Sess, NEW g \in Gens, Names(o, t, g)'
        PROVE  Names(o, t, g)
    BY <1>1, <1>2, <1>3, <1>4, <1>5, <2>1 DEF Names, Tag
  <2>2. NamesInv /\ nextOg \in Nat
    BY StreamRouteAssumption DEF OpenInv, TypeInv, UiTyped, Ogs
  <2> QED
    BY <1>3, <2>1, <2>2, NamesStep
<1>7. \A o : (Unserved(o)' <=> Unserved(o)) /\ (Refused(o)' <=> Refused(o))
  BY <1>1 DEF Unserved, Refused
<1>8. FreshInv'
  <2>1. \A o \in Ogs : Fresh(o) => Fresh(o)'
    BY <1>1, <1>3, <1>4 DEF Fresh, Tag
  <2>2. FreshInv /\ \A i, j \in DOMAIN out' :
              out'[i].op = "attach" /\ out'[j].op = "attach" /\ out'[i].og = out'[j].og => i = j
    BY <1>1 DEF OpenInv, FreshInv
  <2> QED
    BY <1>3, <1>7, <2>1, <2>2, FreshStep
<1>9. QueueInv'
  BY <1>1, <1>3, <1>7 DEF OpenInv, QueueInv
<1>10. StaleInv'
  BY <1>3, <1>4 DEF OpenInv, StaleInv, Stale
<1>11. ExitInv'
  BY <1>1, <1>3, <1>4 DEF OpenInv, ExitInv, ExitAt
<1>12. EchoInv'
  <2>1. \A o, k : Ahead(o, k) => Ahead(o, k)'
    BY <1>3, <1>4 DEF Ahead
  <2> QED
    BY <1>1, <1>3, <1>4, <2>1 DEF OpenInv, EchoInv
<1>13. KeptInv'
  <2>1. \A o \in sent : (\E i \in Pos : ExitAt(i, o)) => (\E i \in Pos' : ExitAt(i, o)')
    BY <1>4 DEF ExitAt
  <2> QED
    BY <1>1, <1>3, <2>1 DEF OpenInv, KeptInv
<1>14. PaintInv'
  BY <1>3, <1>4, <1>7 DEF OpenInv, PaintInv
<1> QED
  BY <1>3, <1>6, <1>8, <1>9, <1>10, <1>11, <1>12, <1>13, <1>14 DEF OpenInv

\* A forwarder sends a live line, its exit included.
LEMMA ForwardKeeps ==
    ASSUME TypeInv, OpenInv, NEW f \in fwd,
           (\E k \in {"damage", "grid"} : ForwardFrame(f, k)) \/ ForwardExit(f)
    PROVE  OpenInv'
<1>0. PICK n \in Nat : n = Len(wire) + 1
  BY LinesTyped
<1>1. PICK k \in {"damage", "grid", "exit"} :
         /\ wire' = Append(wire, Line(k, f.id, f.gen, 0, f.og, f.og))
         /\ k # "exit" => sent' = sent /\ fwd' \subseteq fwd
         /\ k = "exit" => sent' = sent \cup {f.og} /\ fwd' = fwd \ {f}
  BY DEF ForwardFrame, ForwardExit
<1>2. Idle /\ UNCHANGED <<out, att, gen>>
  BY DEF ForwardFrame, ForwardExit, Idle
<1> DEFINE e == Line(k, f.id, f.gen, 0, f.og, f.og)
<1>3. /\ e \in Lines /\ f.id \in Sess /\ f.og \in Ogs /\ f.gen \in Gens /\ f.og # 0
      /\ e.kind = k /\ e.kind # "refused" /\ e.echo = 0 /\ e.live = f.og /\ Tag(e) = f.og /\ e.id = f.id /\ e.gen = f.gen
  <2>1. e \in Lines /\ f.id \in Sess /\ f.og \in Ogs /\ f.gen \in Gens
    BY ForwardedLine
  <2>2. f.og # 0
    BY <2>1, StreamRouteAssumption DEF Ogs
  <2> QED
    BY <2>1, <2>2 DEF Line, Tag
<1>4. /\ RouteInv' /\ HandInv' /\ PaintedByOwnRoute' /\ (InHand' <=> InHand)
      /\ \A o : Confirmed(o)' <=> Confirmed(o)
      /\ nextOg' = nextOg /\ active' = active /\ route' = route /\ retired' = retired
      /\ adopted' = adopted /\ evicted' = evicted /\ told' = told /\ grid' = grid
      /\ pc' = pc /\ line' = line
  BY <1>2, IdleKeeps
<1> HIDE DEF e
<1>5. /\ Len(wire') = n /\ Len(wire) \in Nat /\ wire'[n] = e
      /\ DOMAIN wire = 1 .. Len(wire) /\ DOMAIN wire' = 1 .. n
      /\ \A i \in DOMAIN wire : wire'[i] = wire[i]
      /\ Pos' = Pos \cup {n} /\ (\A i \in Pos : At(i)' = At(i)) /\ At(n)' = e
      /\ \A i \in Pos : i \in Nat /\ i < n
  <2>1. wire' = Append(wire, e)
    BY <1>1 DEF e
  <2>2. /\ Len(wire') = Len(wire) + 1 /\ Len(wire) \in Nat
        /\ DOMAIN wire = 1 .. Len(wire) /\ DOMAIN wire' = 1 .. Len(wire')
        /\ \A i \in DOMAIN wire : wire'[i] = wire[i]
        /\ wire'[Len(wire) + 1] = e
        /\ Pos' = Pos \cup {Len(wire) + 1} /\ Pos \subseteq 0 .. Len(wire)
        /\ \A i \in Pos : At(i)' = At(i)
        /\ \A i \in Nat : i = Len(wire) + 1 => At(i)' = e
    BY <1>3, <1>4, <2>1, StreamGrows
  <2> QED
    BY <1>0, <2>2
<1>6. NamesInv'
  <2>1. ASSUME NEW o \in Ogs, NEW t \in Sess, NEW g \in Gens, Names(o, t, g)'
        PROVE  Names(o, t, g)
    <3>1. CASE \E i \in Pos' : (Tag(At(i)) = o /\ At(i).id = t /\ At(i).gen = g)'
      BY <1>3, <1>5, <3>1 DEF Names, Tag
    <3>2. CASE ~ \E i \in Pos' : (Tag(At(i)) = o /\ At(i).id = t /\ At(i).gen = g)'
      BY <1>1, <1>2, <1>4, <2>1, <3>2 DEF Names
    <3> QED
      BY <3>1, <3>2
  <2>2. NamesInv /\ nextOg \in Nat
    BY StreamRouteAssumption DEF OpenInv, TypeInv, UiTyped, Ogs
  <2> QED
    BY <1>4, <2>1, <2>2, NamesStep
<1>7. \A o : (Unserved(o)' <=> Unserved(o)) /\ (Refused(o)' <=> Refused(o))
  <2>1. \A i \in DOMAIN wire' : i \in DOMAIN wire \/ i = n
    BY <1>0, <1>5
  <2>2. \A i \in DOMAIN wire : i \in DOMAIN wire'
    BY <1>0, <1>5
  <2> QED
    BY <1>2, <1>3, <1>5, <2>1, <2>2 DEF Unserved, Refused
<1>8. FreshInv'
  <2>1. \A o \in Ogs : Fresh(o) => Fresh(o)'
    BY <1>1, <1>2, <1>3, <1>4, <1>5 DEF Fresh, Tag
  <2>2. FreshInv /\ \A i, j \in DOMAIN out' :
              out'[i].op = "attach" /\ out'[j].op = "attach" /\ out'[i].og = out'[j].og => i = j
    BY <1>2 DEF OpenInv, FreshInv
  <2> QED
    BY <1>4, <1>7, <2>1, <2>2, FreshStep
<1>9. QueueInv'
  BY <1>2, <1>4, <1>7 DEF OpenInv, QueueInv
<1>10. StaleInv'
  <2>1. \A i \in Pos : Stale(At(i))' => Stale(At(i))
    BY <1>4, <1>5 DEF Stale
  <2>2. ~ Stale(At(n))'
    BY <1>3, <1>5 DEF Stale
  <2>3. \A i \in Pos : ~ (n < i)
    BY <1>5
  <2> QED
    BY <1>4, <1>5, <2>1, <2>2, <2>3 DEF OpenInv, StaleInv
<1>11. ExitInv'
  <2>1. ExitInv
    BY DEF OpenInv
  <2>2. \A h \in fwd' : h \in fwd /\ (k = "exit" => h.og # f.og)
    BY <1>1, <2>1 DEF ExitInv
  <2>3. f.og \notin sent /\ told[f.og] = << >>
    BY <1>3, <2>1 DEF ExitInv
  <2>4. \A i \in Pos : At(i).kind = "exit" => At(i).live # f.og
    BY <2>1, <2>3 DEF ExitInv
  <2>5. /\ \A h, g \in fwd' : h.og = g.og => h = g
        /\ \A h \in fwd' : h.og \notin sent'
    BY <1>1, <2>1, <2>2 DEF ExitInv
  <2>6. \A i, j \in Pos' : (At(i).kind = "exit" /\ ExitAt(j, At(i).live))' => i = j
    BY <1>3, <1>5, <2>1, <2>4 DEF ExitInv, ExitAt
  <2>7. \A i \in Pos' : (At(i).kind = "exit")' => (At(i).live)' \in sent' /\ told'[(At(i).live)'] = << >>
    BY <1>1, <1>3, <1>4, <1>5, <2>1, <2>3 DEF ExitInv
  <2>8. \A o \in Ogs : told'[o] # << >> => o \in sent' /\ Len(told'[o]) = 1 /\ told'[o][1] # 0
    BY <1>1, <1>4, <2>1 DEF ExitInv
  <2>9. \A i \in Pos' : (At(i).echo # 0 =>
          told[At(i).echo] = << >> /\ \A j \in Pos : ExitAt(j, At(i).echo) => i < j)'
    BY <1>3, <1>4, <1>5, <2>1 DEF ExitInv, ExitAt
  <2> QED
    BY <1>4, <2>1, <2>5, <2>6, <2>7, <2>8, <2>9 DEF ExitInv
<1>12. EchoInv'
  <2>1. \A o, m : Ahead(o, m) => Ahead(o, m)'
    BY <1>4, <1>5 DEF Ahead
  <2>2. \A o : Ahead(o, n) => Ahead(o, n + 1)
    BY <1>5 DEF Ahead
  <2>3. Ahead(f.og, n) \/ Confirmed(f.og)
    BY <1>0 DEF OpenInv, EchoInv
  <2>4. \A h \in fwd' : Ahead(h.og, n + 1)' \/ Confirmed(h.og)'
    BY <1>0, <1>1, <1>4, <2>1, <2>2 DEF OpenInv, EchoInv
  <2>5. \A m \in Pos' : (At(m).kind = "exit" => Ahead(At(m).live, m) \/ Confirmed(At(m).live))'
    BY <1>3, <1>4, <1>5, <2>1, <2>3 DEF OpenInv, EchoInv
  <2> QED
    BY <1>5, <2>4, <2>5 DEF EchoInv
<1>13. KeptInv'
  <2>1. \A o \in sent : (\E i \in Pos : ExitAt(i, o)) => (\E i \in Pos' : ExitAt(i, o)')
    BY <1>5 DEF ExitAt
  <2>2. k = "exit" => \E i \in Pos' : ExitAt(i, f.og)'
    BY <1>3, <1>5 DEF ExitAt
  <2> QED
    BY <1>1, <1>4, <2>1, <2>2 DEF OpenInv, KeptInv
<1>14. PaintInv'
  BY <1>4, <1>5, <1>7 DEF OpenInv, PaintInv
<1> QED
  BY <1>4, <1>6, <1>8, <1>9, <1>10, <1>11, <1>12, <1>13, <1>14 DEF OpenInv

\* The queue after its head was served: no Attach is new, and the published
\* binding's is still queued behind every Detach, or was the head, or served.
LEMMA ServedAttaches ==
    ASSUME TypeInv, OpenInv, Serve
    PROVE  /\ \A o : Unserved(o)' => Unserved(o)
           /\ \A o : Unserved(o) => Unserved(o)' \/ (out[1].op = "attach" /\ out[1].og = o)
           /\ \A o : out[1].op = "attach" /\ out[1].og = o => Unserved(o) /\ ~ Unserved(o)'
           /\ \A i, j \in DOMAIN out' :
                 out'[i].op = "attach" /\ out'[j].op = "attach" /\ out'[i].og = out'[j].og => i = j
           /\ active.id # NoSess =>
                 \/ \E i \in DOMAIN out' : /\ out'[i] = Attach(active.id, active.og, active.gen)
                                           /\ \A j \in DOMAIN out' : j > i => out'[j].op = "snapshot"
                 \/ /\ \A j \in DOMAIN out' : out'[j].op = "snapshot"
                    /\ \/ out[1] = Attach(active.id, active.og, active.gen)
                       \/ /\ out[1].op = "snapshot"
                          /\ att[active.id] = active.og \/ Refused(active.og)
<1>1. /\ 1 \in DOMAIN out /\ Len(out) \in Nat /\ Len(out) > 0 /\ Len(out') = Len(out) - 1
      /\ DOMAIN out = 1 .. Len(out) /\ DOMAIN out' = 1 .. Len(out')
      /\ \A i \in DOMAIN out' : i + 1 \in DOMAIN out /\ out'[i] = out[i + 1]
  BY ServedQueue
<1>2. \A i \in DOMAIN out : i = 1 \/ (i - 1 \in DOMAIN out' /\ out'[i - 1] = out[i])
  <2> TAKE i \in DOMAIN out
  <2>1. i \in Nat /\ (i = 1 \/ i - 1 \in DOMAIN out')
    BY <1>1
  <2>2. (i - 1) + 1 = i
    BY <2>1
  <2> QED
    BY <1>1, <2>1, <2>2
<1>3. \A i \in DOMAIN out' : i + 1 # 1 /\ i \in Nat
  BY <1>1
<1>4. \A i, j \in DOMAIN out :
          out[i].op = "attach" /\ out[j].op = "attach" /\ out[i].og = out[j].og => i = j
  BY DEF OpenInv, FreshInv
<1>5. \A o : Unserved(o)' => Unserved(o)
  BY <1>1 DEF Unserved
<1>6. \A o : Unserved(o) => Unserved(o)' \/ (out[1].op = "attach" /\ out[1].og = o)
  BY <1>1, <1>2 DEF Unserved
<1>7. \A o : out[1].op = "attach" /\ out[1].og = o => Unserved(o) /\ ~ Unserved(o)'
  BY <1>1, <1>3, <1>4 DEF Unserved
<1>8. \A i, j \in DOMAIN out' :
          out'[i].op = "attach" /\ out'[j].op = "attach" /\ out'[i].og = out'[j].og => i = j
  <2>1. \A i, j \in DOMAIN out' : i + 1 = j + 1 => i = j
    BY <1>3
  <2> QED
    BY <1>1, <1>4, <2>1
<1>9. ASSUME active.id # NoSess
      PROVE  \/ \E i \in DOMAIN out' : /\ out'[i] = Attach(active.id, active.og, active.gen)
                                       /\ \A j \in DOMAIN out' : j > i => out'[j].op = "snapshot"
             \/ /\ \A j \in DOMAIN out' : out'[j].op = "snapshot"
                /\ \/ out[1] = Attach(active.id, active.og, active.gen)
                   \/ /\ out[1].op = "snapshot"
                      /\ att[active.id] = active.og \/ Refused(active.og)
  <2>1. CASE \E i \in DOMAIN out : /\ out[i] = Attach(active.id, active.og, active.gen)
                                   /\ \A j \in DOMAIN out : j > i => out[j].op = "snapshot"
    <3>1. PICK i \in DOMAIN out : /\ out[i] = Attach(active.id, active.og, active.gen)
                                  /\ \A j \in DOMAIN out : j > i => out[j].op = "snapshot"
      BY <2>1
    <3>2. \A j \in DOMAIN out' : i = 1 \/ j > i - 1 => j + 1 > i
      BY <1>1
    <3>3. CASE i = 1
      <4>1. \A j \in DOMAIN out' : out'[j].op = "snapshot"
        BY <1>1, <3>1, <3>2, <3>3
      <4> QED
        BY <3>1, <3>3, <4>1
    <3>4. CASE i # 1
      <4>1. i - 1 \in DOMAIN out' /\ out'[i - 1] = out[i]
        BY <1>2, <3>4
      <4>2. \A j \in DOMAIN out' : j > i - 1 => out'[j].op = "snapshot"
        BY <1>1, <3>1, <3>2
      <4> QED
        BY <3>1, <4>1, <4>2
    <3> QED
      BY <3>3, <3>4
  <2>2. CASE /\ \A j \in DOMAIN out : out[j].op = "snapshot"
             /\ att[active.id] = active.og \/ Refused(active.og)
    BY <1>1, <2>2
  <2> QED
    BY <1>9, <2>1, <2>2 DEF OpenInv, QueueInv
<1> QED
  BY <1>5, <1>6, <1>7, <1>8, <1>9

\* The daemon serves a Detach.
LEMMA ServeDetachKeeps ==
    ASSUME TypeInv, OpenInv, Serve, out[1].op = "detach"
    PROVE  OpenInv'
<1>1. /\ Idle /\ UNCHANGED <<wire, sent, gen>> /\ fwd' = AbortFor(out[1].id)
      /\ att' = [att EXCEPT ![out[1].id] = 0] /\ out[1].id \in Sess
  BY ServedQueue DEF Serve, ServeDetach, Idle, Requests
<1>2. /\ RouteInv' /\ HandInv' /\ PaintedByOwnRoute' /\ (InHand' <=> InHand)
      /\ \A o : Confirmed(o)' <=> Confirmed(o)
      /\ nextOg' = nextOg /\ active' = active /\ route' = route /\ retired' = retired
      /\ adopted' = adopted /\ evicted' = evicted /\ told' = told /\ grid' = grid
      /\ pc' = pc /\ line' = line
  BY <1>1, IdleKeeps
<1>3. Pos' = Pos /\ \A i \in Pos : At(i)' = At(i)
  BY <1>1, <1>2, StreamStays
<1>4. /\ \A o \in Ogs : o # 0
      /\ \A t \in Sess : att'[t] = att[t] \/ att'[t] = 0
  BY <1>1, StreamRouteAssumption DEF Ogs, TypeInv, DaemonTyped
<1>5. /\ \A h \in fwd' : \E f \in fwd : f.og = h.og /\ f.id = h.id /\ f.gen = h.gen
                 /\ (h = IF f.id = out[1].id THEN [f EXCEPT !.aborted = TRUE] ELSE f)
  BY <1>1, AbortTyped
<1>6. /\ \A o : Unserved(o)' => Unserved(o)
      /\ \A o : Unserved(o) => Unserved(o)'
      /\ \A i, j \in DOMAIN out' :
            out'[i].op = "attach" /\ out'[j].op = "attach" /\ out'[i].og = out'[j].og => i = j
  BY ServedAttaches
<1>7. NamesInv'
  <2>1. ASSUME NEW o \in Ogs, NEW t \in Sess, NEW g \in Gens, Names(o, t, g)'
        PROVE  Names(o, t, g)
    <3>1. CASE \E i \in DOMAIN out' : out'[i] = Attach(t, o, g)
      BY <3>1, ServedQueue DEF Names
    <3>2. CASE \E h \in fwd' : h.og = o /\ h.id = t /\ h.gen = g
      BY <1>5, <3>2 DEF Names
    <3>3. CASE /\ ~ \E i \in DOMAIN out' : out'[i] = Attach(t, o, g)
               /\ ~ \E h \in fwd' : h.og = o /\ h.id = t /\ h.gen = g
      BY <1>1, <1>2, <1>3, <1>4, <2>1, <3>3 DEF Names, Tag
    <3> QED
      BY <3>1, <3>2, <3>3
  <2>2. NamesInv /\ nextOg \in Nat
    BY StreamRouteAssumption DEF OpenInv, TypeInv, UiTyped, Ogs
  <2> QED
    BY <1>2, <2>1, <2>2, NamesStep
<1>8. \A o : Refused(o)' <=> Refused(o)
  BY <1>1 DEF Refused
<1>9. FreshInv'
  <2>1. \A o \in Ogs : Fresh(o) => Fresh(o)'
    <3>1. \A o \in Ogs : (\A f \in fwd : f.og # o) => (\A f \in fwd' : f.og # o)
      BY <1>5
    <3> QED
      BY <1>1, <1>2, <1>3, <1>4, <3>1 DEF Fresh, Tag
  <2>2. FreshInv
    BY DEF OpenInv
  <2> QED
    BY <1>2, <1>6, <1>8, <2>1, <2>2, FreshStep
<1>10. QueueInv'
  <2>1. out[1] # Attach(active.id, active.og, active.gen)
    BY DEF Attach
  <2> QED
    BY <1>2, <2>1, ServedAttaches DEF QueueInv
<1>11. StaleInv'
  BY <1>2, <1>3 DEF OpenInv, StaleInv, Stale
<1>12. ExitInv'
  <2>1. ExitInv
    BY DEF OpenInv
  <2>2. \A h \in fwd' : h.og \notin sent'
    BY <1>1, <1>5, <2>1 DEF ExitInv
  <2>3. ASSUME NEW h \in fwd', NEW g \in fwd', h.og = g.og
        PROVE  h = g
    <3>1. PICK f \in fwd : f.og = h.og /\ (h = IF f.id = out[1].id THEN [f EXCEPT !.aborted = TRUE] ELSE f)
      BY <1>5
    <3>2. PICK d \in fwd : d.og = g.og /\ (g = IF d.id = out[1].id THEN [d EXCEPT !.aborted = TRUE] ELSE d)
      BY <1>5
    <3>3. f = d
      BY <2>1, <2>3, <3>1, <3>2 DEF ExitInv
    <3> QED
      BY <3>1, <3>2, <3>3
  <2> QED
    BY <1>1, <1>2, <1>3, <2>1, <2>2, <2>3 DEF ExitInv, ExitAt
<1>13. EchoInv'
  <2>1. \A o, k : Ahead(o, k) => Ahead(o, k)'
    BY <1>2, <1>3 DEF Ahead
  <2>2. \A h \in fwd' : Ahead(h.og, Len(wire) + 1)' \/ Confirmed(h.og)'
    <3> TAKE h \in fwd'
    <3>1. Ahead(h.og, Len(wire) + 1) \/ Confirmed(h.og)
      BY <1>5 DEF OpenInv, EchoInv
    <3> QED
      BY <1>1, <1>2, <2>1, <3>1
  <2> QED
    BY <1>2, <1>3, <2>1, <2>2 DEF OpenInv, EchoInv
<1>14. KeptInv'
  <2>1. \A o \in sent : (\E i \in Pos : ExitAt(i, o)) => (\E i \in Pos' : ExitAt(i, o)')
    BY <1>3 DEF ExitAt
  <2> QED
    BY <1>1, <1>2, <2>1 DEF OpenInv, KeptInv
<1>15. PaintInv'
  BY <1>2, <1>3, <1>6, <1>8 DEF OpenInv, PaintInv
<1> QED
  BY <1>2, <1>7, <1>9, <1>10, <1>11, <1>12, <1>13, <1>14, <1>15 DEF OpenInv

\* The daemon answers a Snapshot request.  The reply carries no tag: when it is
\* not the published binding's, the echo is still to come or never will.
LEMMA ServeSnapshotKeeps ==
    ASSUME TypeInv, OpenInv, Serve, out[1].op = "snapshot"
    PROVE  OpenInv'
<1>0. PICK n \in Nat : n = Len(wire) + 1
  BY LinesTyped
<1> DEFINE s == out[1].id
           e == Line("grid", s, gen[s], 0, 0, att[s])
<1>1. /\ Idle /\ UNCHANGED <<att, fwd, sent, gen>> /\ wire' = Append(wire, e) /\ s \in Sess
  BY ServedQueue DEF Serve, ServeSnapshot, Idle, Requests
<1>2. /\ RouteInv' /\ HandInv' /\ PaintedByOwnRoute' /\ (InHand' <=> InHand)
      /\ \A o : Confirmed(o)' <=> Confirmed(o)
      /\ nextOg' = nextOg /\ active' = active /\ route' = route /\ retired' = retired
      /\ adopted' = adopted /\ evicted' = evicted /\ told' = told /\ grid' = grid
      /\ pc' = pc /\ line' = line
  BY <1>1, IdleKeeps
<1>3. /\ gen[s] \in Gens /\ att[s] \in 0 .. MaxBind /\ 1 \in Ogs /\ \A o \in Ogs : o # 0
  BY <1>1, StreamRouteAssumption DEF TypeInv, DaemonTyped, Ogs
<1>4. /\ e \in Lines /\ e.kind = "grid" /\ e.echo = 0 /\ e.live = 0 /\ Tag(e) = 0 /\ e.id = s
      /\ e.gen = gen[s] /\ e.src = att[s]
  <2>1. e \in Lines
    BY <1>1, <1>3, LinesMade
  <2> QED
    BY <2>1 DEF Line, Tag
<1> HIDE DEF e
<1>5. /\ Len(wire') = n /\ Len(wire) \in Nat /\ wire'[n] = e
      /\ DOMAIN wire = 1 .. Len(wire) /\ DOMAIN wire' = 1 .. n
      /\ \A i \in DOMAIN wire : wire'[i] = wire[i]
      /\ Pos' = Pos \cup {n} /\ (\A i \in Pos : At(i)' = At(i)) /\ At(n)' = e
      /\ \A i \in Pos : i \in Nat /\ i < n
  <2>1. /\ Len(wire') = Len(wire) + 1 /\ Len(wire) \in Nat
        /\ DOMAIN wire = 1 .. Len(wire) /\ DOMAIN wire' = 1 .. Len(wire')
        /\ \A i \in DOMAIN wire : wire'[i] = wire[i]
        /\ wire'[Len(wire) + 1] = e
        /\ Pos' = Pos \cup {Len(wire) + 1} /\ Pos \subseteq 0 .. Len(wire)
        /\ \A i \in Pos : At(i)' = At(i)
        /\ \A i \in Nat : i = Len(wire) + 1 => At(i)' = e
    BY <1>1, <1>2, <1>4, StreamGrows
  <2> QED
    BY <1>0, <2>1
<1>6. /\ \A o : Unserved(o)' => Unserved(o)
      /\ \A o : Unserved(o) => Unserved(o)'
      /\ \A i, j \in DOMAIN out' :
            out'[i].op = "attach" /\ out'[j].op = "attach" /\ out'[i].og = out'[j].og => i = j
  BY ServedAttaches
<1>7. NamesInv'
  <2>1. ASSUME NEW o \in Ogs, NEW t \in Sess, NEW g \in Gens, Names(o, t, g)'
        PROVE  Names(o, t, g)
    <3>1. CASE \E i \in DOMAIN out' : out'[i] = Attach(t, o, g)
      BY <3>1, ServedQueue DEF Names
    <3>2. CASE \E i \in Pos' : (Tag(At(i)) = o /\ At(i).id = t /\ At(i).gen = g)'
      BY <1>3, <1>4, <1>5, <3>2 DEF Names, Tag
    <3>3. CASE /\ ~ \E i \in DOMAIN out' : out'[i] = Attach(t, o, g)
               /\ ~ \E i \in Pos' : (Tag(At(i)) = o /\ At(i).id = t /\ At(i).gen = g)'
      BY <1>1, <1>2, <2>1, <3>3 DEF Names
    <3> QED
      BY <3>1, <3>2, <3>3
  <2>2. NamesInv /\ nextOg \in Nat
    BY StreamRouteAssumption DEF OpenInv, TypeInv, UiTyped, Ogs
  <2> QED
    BY <1>2, <2>1, <2>2, NamesStep
<1>8. \A o : Refused(o)' <=> Refused(o)
  <2>1. \A i \in DOMAIN wire' : i \in DOMAIN wire \/ i = n
    BY <1>0, <1>5
  <2>2. \A i \in DOMAIN wire : i \in DOMAIN wire'
    BY <1>0, <1>5
  <2> QED
    BY <1>4, <1>5, <2>1, <2>2 DEF Refused
<1>9. FreshInv'
  <2>1. \A o \in Ogs : Fresh(o) => Fresh(o)'
    BY <1>1, <1>2, <1>3, <1>4, <1>5 DEF Fresh, Tag
  <2>2. FreshInv
    BY DEF OpenInv
  <2> QED
    BY <1>2, <1>6, <1>8, <2>1, <2>2, FreshStep
<1>10. QueueInv'
  <2>1. out[1] # Attach(active.id, active.og, active.gen)
    BY DEF Attach
  <2> QED
    BY <1>1, <1>2, <1>8, <2>1, ServedAttaches DEF QueueInv
<1>11. StaleInv'
  <2>1. \A i \in Pos : Stale(At(i))' => Stale(At(i))
    BY <1>2, <1>5 DEF Stale
  <2>2. \A i \in Pos : ~ (n < i)
    BY <1>5
  <2>3. ASSUME active.id # NoSess, Stale(e)
        PROVE  /\ \A j \in Pos : At(j).echo # active.og
               /\ ~ (route.og = active.og /\ route.confirmed)
    <3>1. active.id \in Sess /\ active.og \in Ogs /\ active.gen \in Gens /\ active.id = s
      BY <1>4, <2>3 DEF TypeInv, UiTyped, IsBinding, Stale
    <3>2. ASSUME att[s] = active.og PROVE FALSE
      <4>1. Names(active.og, active.id, active.gen) /\ Names(active.og, active.id, gen[active.id])
        BY <1>1, <3>1, <3>2 DEF Names
      <4>2. gen[s] = active.gen
        BY <1>3, <3>1, <4>1 DEF OpenInv, NamesInv
      <4> QED
        BY <1>4, <2>3, <3>2, <4>2 DEF Stale
    <3>3. Unserved(active.og) \/ Refused(active.og)
      <4>1. (\E i \in DOMAIN out : out[i] = Attach(active.id, active.og, active.gen)) \/ Refused(active.og)
        BY <2>3, <3>1, <3>2 DEF OpenInv, QueueInv
      <4> QED
        BY <4>1 DEF Unserved, Attach
    <3>4. Fresh(active.og)
      BY <3>1, <3>3 DEF OpenInv, FreshInv
    <3>5. \A j \in Pos : At(j).echo = active.og => Tag(At(j)) = active.og
      BY <1>3, <3>1 DEF Tag
    <3> QED
      BY <3>4, <3>5 DEF Fresh
  <2>4. Stale(At(n))' => Stale(e)
    BY <1>2, <1>5 DEF Stale
  <2> QED
    BY <1>2, <1>4, <1>5, <2>1, <2>2, <2>3, <2>4 DEF OpenInv, StaleInv
<1>12. ExitInv'
  BY <1>1, <1>2, <1>4, <1>5 DEF OpenInv, ExitInv, ExitAt
<1>13. EchoInv'
  <2>1. \A o, m : Ahead(o, m) => Ahead(o, m)'
    BY <1>2, <1>5 DEF Ahead
  <2>2. \A o : Ahead(o, n) => Ahead(o, n + 1)
    BY <1>5 DEF Ahead
  <2>3. \A h \in fwd' : Ahead(h.og, n + 1)' \/ Confirmed(h.og)'
    BY <1>0, <1>1, <1>2, <2>1, <2>2 DEF OpenInv, EchoInv
  <2>4. \A m \in Pos' : (At(m).kind = "exit" => Ahead(At(m).live, m) \/ Confirmed(At(m).live))'
    BY <1>2, <1>4, <1>5, <2>1 DEF OpenInv, EchoInv
  <2> QED
    BY <1>5, <2>3, <2>4 DEF EchoInv
<1>14. KeptInv'
  <2>1. \A o \in sent : (\E i \in Pos : ExitAt(i, o)) => (\E i \in Pos' : ExitAt(i, o)')
    BY <1>5 DEF ExitAt
  <2> QED
    BY <1>1, <1>2, <2>1 DEF OpenInv, KeptInv
<1>15. PaintInv'
  BY <1>2, <1>5, <1>6, <1>8 DEF OpenInv, PaintInv
<1> QED
  BY <1>2, <1>7, <1>9, <1>10, <1>11, <1>12, <1>13, <1>14, <1>15 DEF OpenInv

\* The daemon refuses an Attach of another incarnation.
LEMMA ServeRefusedKeeps ==
    ASSUME TypeInv, OpenInv, Serve, out[1].op = "attach", gen[out[1].id] # out[1].gen
    PROVE  OpenInv'
<1>0. PICK n \in Nat : n = Len(wire) + 1
  BY LinesTyped
<1> DEFINE s == out[1].id  o == out[1].og  g == out[1].gen
           e == Line("refused", s, g, 0, 0, o)
<1>1. /\ Idle /\ UNCHANGED <<att, fwd, sent, gen>> /\ wire' = Append(wire, e)
      /\ s \in Sess /\ o \in Ogs /\ g \in Gens
  <2>1. Idle /\ UNCHANGED gen
    BY DEF Serve, Idle
  <2> QED
    BY <2>1, AttachOutcomes
<1>2. /\ RouteInv' /\ HandInv' /\ PaintedByOwnRoute' /\ (InHand' <=> InHand)
      /\ \A p : Confirmed(p)' <=> Confirmed(p)
      /\ nextOg' = nextOg /\ active' = active /\ route' = route /\ retired' = retired
      /\ adopted' = adopted /\ evicted' = evicted /\ told' = told /\ grid' = grid
      /\ pc' = pc /\ line' = line
  BY <1>1, IdleKeeps
<1>3. 0 \in 0 .. MaxBind /\ \A p \in Ogs : p # 0
  BY StreamRouteAssumption DEF Ogs
<1>4. /\ e \in Lines /\ e.kind = "refused" /\ e.echo = 0 /\ e.live = 0 /\ Tag(e) = 0 /\ e.src = o
  <2>1. e \in Lines
    BY <1>1, <1>3, LinesMade
  <2> QED
    BY <2>1 DEF Line, Tag
<1> HIDE DEF e
<1>5. /\ Len(wire') = n /\ Len(wire) \in Nat /\ wire'[n] = e
      /\ DOMAIN wire = 1 .. Len(wire) /\ DOMAIN wire' = 1 .. n
      /\ \A i \in DOMAIN wire : wire'[i] = wire[i]
      /\ Pos' = Pos \cup {n} /\ (\A i \in Pos : At(i)' = At(i)) /\ At(n)' = e
      /\ \A i \in Pos : i \in Nat /\ i < n
  <2>1. /\ Len(wire') = Len(wire) + 1 /\ Len(wire) \in Nat
        /\ DOMAIN wire = 1 .. Len(wire) /\ DOMAIN wire' = 1 .. Len(wire')
        /\ \A i \in DOMAIN wire : wire'[i] = wire[i]
        /\ wire'[Len(wire) + 1] = e
        /\ Pos' = Pos \cup {Len(wire) + 1} /\ Pos \subseteq 0 .. Len(wire)
        /\ \A i \in Pos : At(i)' = At(i)
        /\ \A i \in Nat : i = Len(wire) + 1 => At(i)' = e
    BY <1>1, <1>2, <1>4, StreamGrows
  <2> QED
    BY <1>0, <2>1
<1>6. /\ \A p : Unserved(p)' => Unserved(p)
      /\ \A p : Unserved(p) => Unserved(p)' \/ p = o
      /\ \A p : p = o => Unserved(p) /\ ~ Unserved(p)'
      /\ \A i, j \in DOMAIN out' :
            out'[i].op = "attach" /\ out'[j].op = "attach" /\ out'[i].og = out'[j].og => i = j
  BY ServedAttaches
<1>7. NamesInv'
  <2>1. ASSUME NEW p \in Ogs, NEW t \in Sess, NEW h \in Gens, Names(p, t, h)'
        PROVE  Names(p, t, h)
    <3>1. CASE \E i \in DOMAIN out' : out'[i] = Attach(t, p, h)
      BY <3>1, ServedQueue DEF Names
    <3>2. CASE \E i \in Pos' : (Tag(At(i)) = p /\ At(i).id = t /\ At(i).gen = h)'
      BY <1>3, <1>4, <1>5, <3>2 DEF Names, Tag
    <3>3. CASE /\ ~ \E i \in DOMAIN out' : out'[i] = Attach(t, p, h)
               /\ ~ \E i \in Pos' : (Tag(At(i)) = p /\ At(i).id = t /\ At(i).gen = h)'
      BY <1>1, <1>2, <2>1, <3>3 DEF Names
    <3> QED
      BY <3>1, <3>2, <3>3
  <2>2. NamesInv /\ nextOg \in Nat
    BY StreamRouteAssumption DEF OpenInv, TypeInv, UiTyped, Ogs
  <2> QED
    BY <1>2, <2>1, <2>2, NamesStep
<1>8. \A p : Refused(p)' <=> Refused(p) \/ p = o
  <2>1. \A i \in DOMAIN wire' : i \in DOMAIN wire \/ i = n
    BY <1>0, <1>5
  <2>2. /\ \A i \in DOMAIN wire : i \in DOMAIN wire'
        /\ n \in DOMAIN wire'
    BY <1>0, <1>5
  <2> QED
    BY <1>4, <1>5, <2>1, <2>2 DEF Refused
<1>9. FreshInv'
  <2>1. \A p \in Ogs : Fresh(p) => Fresh(p)'
    BY <1>1, <1>2, <1>3, <1>4, <1>5 DEF Fresh, Tag
  <2>2. FreshInv
    BY DEF OpenInv
  <2>3. \A p \in Ogs : Refused(p)' => Refused(p) \/ (Unserved(p) /\ ~ Unserved(p)')
    BY <1>6, <1>8
  <2> QED
    BY <1>2, <1>6, <2>1, <2>2, <2>3, FreshStep
<1>10. QueueInv'
  <2>1. out[1] = Attach(active.id, active.og, active.gen) => o = active.og
    BY DEF Attach
  <2>2. \A p : p = active.og /\ out[1] = Attach(active.id, active.og, active.gen) => Refused(p)'
    BY <1>8, <2>1
  <2>3. active.id # NoSess =>
                 \/ \E i \in DOMAIN out' : /\ out'[i] = Attach(active.id, active.og, active.gen)
                                           /\ \A j \in DOMAIN out' : j > i => out'[j].op = "snapshot"
                 \/ /\ \A j \in DOMAIN out' : out'[j].op = "snapshot"
                    /\ out[1] = Attach(active.id, active.og, active.gen)
    BY ServedAttaches
  <2> QED
    BY <1>2, <2>2, <2>3 DEF QueueInv
<1>11. StaleInv'
  <2>1. \A i \in Pos : Stale(At(i))' => Stale(At(i))
    BY <1>2, <1>5 DEF Stale
  <2>2. \A i \in Pos : ~ (n < i)
    BY <1>5
  <2>3. ~ Stale(At(n))'
    BY <1>4, <1>5 DEF Stale
  <2> QED
    BY <1>2, <1>5, <2>1, <2>2, <2>3 DEF OpenInv, StaleInv
<1>12. ExitInv'
  BY <1>1, <1>2, <1>4, <1>5 DEF OpenInv, ExitInv, ExitAt
<1>13. EchoInv'
  <2>1. \A p, m : Ahead(p, m) => Ahead(p, m)'
    BY <1>2, <1>5 DEF Ahead
  <2>2. \A p : Ahead(p, n) => Ahead(p, n + 1)
    BY <1>5 DEF Ahead
  <2>3. \A h \in fwd' : Ahead(h.og, n + 1)' \/ Confirmed(h.og)'
    BY <1>0, <1>1, <1>2, <2>1, <2>2 DEF OpenInv, EchoInv
  <2>4. \A m \in Pos' : (At(m).kind = "exit" => Ahead(At(m).live, m) \/ Confirmed(At(m).live))'
    BY <1>2, <1>4, <1>5, <2>1 DEF OpenInv, EchoInv
  <2> QED
    BY <1>5, <2>3, <2>4 DEF EchoInv
<1>14. KeptInv'
  <2>1. \A p \in sent : (\E i \in Pos : ExitAt(i, p)) => (\E i \in Pos' : ExitAt(i, p)')
    BY <1>5 DEF ExitAt
  <2> QED
    BY <1>1, <1>2, <2>1 DEF OpenInv, KeptInv
<1>15. PaintInv'
  <2>1. \A p : Unserved(p) \/ Refused(p) => Unserved(p)' \/ Refused(p)'
    BY <1>6, <1>8
  <2> QED
    BY <1>2, <1>5, <2>1 DEF OpenInv, PaintInv
<1> QED
  BY <1>2, <1>7, <1>9, <1>10, <1>11, <1>12, <1>13, <1>14, <1>15 DEF OpenInv

\* The daemon attaches: the echo, and behind it the exit of a session that has
\* ended or a forwarder.
LEMMA ServeAttachKeeps ==
    ASSUME TypeInv, OpenInv, Serve, out[1].op = "attach", gen[out[1].id] = out[1].gen
    PROVE  OpenInv'
<1>0. PICK n \in Nat : n = Len(wire) + 1
  BY LinesTyped
<1>a. PICK s \in Sess, o \in Ogs, g \in Gens : s = out[1].id /\ o = out[1].og /\ g = out[1].gen
  BY AttachOutcomes
<1> DEFINE e == Line("grid", s, g, o, 0, o)
           x == Line("exit", s, g, 0, o, o)
<1>1. /\ Idle /\ UNCHANGED gen /\ o # 0
      /\ att' = [att EXCEPT ![s] = o] /\ ended[s] \in BOOLEAN
      /\ ~ ended[s] => /\ wire' = Append(wire, e) /\ sent' = sent
                       /\ fwd' = AbortFor(s) \cup {Forwarder(s, o, g, FALSE)}
      /\ ended[s] => /\ wire' = Append(Append(wire, e), x) /\ sent' = sent \cup {o}
                     /\ fwd' = AbortFor(s)
  <2>1. Idle /\ UNCHANGED gen
    BY DEF Serve, Idle
  <2>2. o # 0 /\ ended[s] \in BOOLEAN
    BY StreamRouteAssumption DEF Ogs, TypeInv, DaemonTyped
  <2> QED
    BY <1>a, <2>1, <2>2, AttachOutcomes
<1>2. /\ RouteInv' /\ HandInv' /\ PaintedByOwnRoute' /\ (InHand' <=> InHand)
      /\ \A p : Confirmed(p)' <=> Confirmed(p)
      /\ nextOg' = nextOg /\ active' = active /\ route' = route /\ retired' = retired
      /\ adopted' = adopted /\ evicted' = evicted /\ told' = told /\ grid' = grid
      /\ pc' = pc /\ line' = line
  BY <1>1, IdleKeeps
<1>3. 0 \in 0 .. MaxBind /\ \A p \in Ogs : p # 0
  BY StreamRouteAssumption DEF Ogs
<1>4. /\ e \in Lines /\ e.kind = "grid" /\ e.echo = o /\ e.live = 0 /\ Tag(e) = o /\ e.id = s /\ e.gen = g
      /\ x \in Lines /\ x.kind = "exit" /\ x.echo = 0 /\ x.live = o /\ Tag(x) = o /\ x.id = s /\ x.gen = g
  <2>1. e \in Lines /\ x \in Lines
    BY <1>1, <1>3, LinesMade
  <2> QED
    BY <1>1, <2>1 DEF Line, Tag
<1> HIDE DEF e, x
<1>5. PICK m \in Nat : m = n + 1
  OBVIOUS
<1>6. /\ Len(wire) \in Nat /\ (ended[s] => Len(wire') = m) /\ (~ ended[s] => Len(wire') = n)
      /\ \A i \in DOMAIN wire : i \in DOMAIN wire' /\ wire'[i] = wire[i]
      /\ \A i \in DOMAIN wire' : i \in DOMAIN wire \/ wire'[i] = e \/ wire'[i] = x
      /\ \A i \in Pos' : i \in Pos \/ i = n \/ (i = m /\ ended[s])
      /\ \A i \in Pos : i \in Pos' /\ At(i)' = At(i)
      /\ n \in Pos' /\ At(n)' = e
      /\ ended[s] => m \in Pos' /\ At(m)' = x
      /\ \A i \in Pos : i \in Nat /\ i < n /\ i < m
  <2>1. CASE ~ ended[s]
    <3>1. /\ Len(wire') = Len(wire) + 1 /\ Len(wire) \in Nat
          /\ DOMAIN wire = 1 .. Len(wire) /\ DOMAIN wire' = 1 .. Len(wire')
          /\ \A i \in DOMAIN wire : wire'[i] = wire[i]
          /\ wire'[Len(wire) + 1] = e
          /\ Pos' = Pos \cup {Len(wire) + 1} /\ Pos \subseteq 0 .. Len(wire)
          /\ \A i \in Pos : At(i)' = At(i)
          /\ \A i \in Nat : i = Len(wire) + 1 => At(i)' = e
      BY <1>1, <1>2, <1>4, <2>1, StreamGrows
    <3>2. \A i \in DOMAIN wire' : i \in DOMAIN wire \/ i = Len(wire) + 1
      BY <3>1
    <3> QED
      BY <1>0, <1>5, <2>1, <3>1, <3>2
  <2>2. CASE ended[s]
    <3>1. /\ Len(wire') = Len(wire) + 2 /\ Len(wire) \in Nat
          /\ DOMAIN wire = 1 .. Len(wire) /\ DOMAIN wire' = 1 .. Len(wire')
          /\ \A i \in DOMAIN wire : wire'[i] = wire[i]
          /\ wire'[Len(wire) + 1] = e /\ wire'[Len(wire) + 2] = x
          /\ Pos' = Pos \cup {Len(wire) + 1, Len(wire) + 2} /\ Pos \subseteq 0 .. Len(wire)
          /\ \A i \in Pos : At(i)' = At(i)
          /\ \A i \in Nat : i = Len(wire) + 1 => At(i)' = e
          /\ \A i \in Nat : i = Len(wire) + 2 => At(i)' = x
      BY <1>1, <1>2, <1>4, <2>2, StreamGrowsTwice
    <3>2. /\ \A i \in DOMAIN wire' : i \in DOMAIN wire \/ i = Len(wire) + 1 \/ i = Len(wire) + 2
          /\ m = Len(wire) + 2
      BY <1>0, <1>5, <3>1
    <3> QED
      BY <1>0, <1>5, <2>2, <3>1, <3>2
  <2> QED
    BY <1>1, <2>1, <2>2
<1>7. /\ \A p : Unserved(p)' => Unserved(p)
      /\ \A p : Unserved(p) => Unserved(p)' \/ p = o
      /\ \A p : p = o => Unserved(p) /\ ~ Unserved(p)'
      /\ \A i, j \in DOMAIN out' :
            out'[i].op = "attach" /\ out'[j].op = "attach" /\ out'[i].og = out'[j].og => i = j
  BY <1>a, ServedAttaches
<1>8. Fresh(o) /\ o <= nextOg /\ ~ Refused(o) /\ ~ (o > nextOg)
  <2>1. Unserved(o)
    BY <1>7
  <2>2. o \in Nat /\ nextOg \in Nat
    BY <1>1, StreamRouteAssumption DEF Ogs, TypeInv, UiTyped
  <2> QED
    BY <1>1, <2>1, <2>2 DEF OpenInv, FreshInv
<1>9. /\ \A i \in Pos : At(i).echo # o /\ At(i).live # o
      /\ \A f \in fwd : f.og # o
      /\ o \notin sent /\ told[o] = << >>
  <2>1. \A i \in Pos : At(i).echo = 0 \/ At(i).live = 0
    BY LinesTyped DEF Lines
  <2> QED
    BY <1>1, <1>8, <2>1 DEF Fresh, Tag
<1>10. \A h \in fwd' :
          \/ \E f \in fwd : f.og = h.og /\ f.id = h.id /\ f.gen = h.gen
                 /\ (h = IF f.id = s THEN [f EXCEPT !.aborted = TRUE] ELSE f)
          \/ ~ ended[s] /\ h = Forwarder(s, o, g, FALSE) /\ h.og = o /\ h.id = s /\ h.gen = g
  <2>1. \A h \in AbortFor(s) :
            \E f \in fwd : f.og = h.og /\ f.id = h.id /\ f.gen = h.gen
                 /\ (h = IF f.id = s THEN [f EXCEPT !.aborted = TRUE] ELSE f)
    BY <1>1, AbortTyped
  <2>2. \A h : h = Forwarder(s, o, g, FALSE) => h.og = o /\ h.id = s /\ h.gen = g
    BY DEF Forwarder
  <2> QED
    BY <1>1, <2>1, <2>2
<1>11. NamesInv'
  <2>1. Names(o, s, g)
    <3>1. out[1] = Attach(s, o, g)
      BY <1>a, ServedQueue DEF Attach, Requests
    <3> QED
      BY <3>1, ServedQueue DEF Names
  <2>2. ASSUME NEW p \in Ogs, NEW t \in Sess, NEW h \in Gens, Names(p, t, h)'
        PROVE  Names(p, t, h)
    <3>1. CASE \E i \in DOMAIN out' : out'[i] = Attach(t, p, h)
      BY <3>1, ServedQueue DEF Names
    <3>2. CASE \E i \in Pos' : (Tag(At(i)) = p /\ At(i).id = t /\ At(i).gen = h)'
      <4>1. PICK i \in Pos' : (Tag(At(i)) = p /\ At(i).id = t /\ At(i).gen = h)'
        BY <3>2
      <4>2. CASE i \in Pos
        BY <1>6, <4>1, <4>2 DEF Names, Tag
      <4>3. CASE i = n \/ (i = m /\ ended[s])
        <5>1. p = o /\ t = s /\ h = g
          BY <1>1, <1>4, <1>6, <4>1, <4>3 DEF Tag
        <5> QED
          BY <2>1, <5>1
      <4> QED
        BY <1>6, <4>2, <4>3
    <3>3. CASE \E f \in fwd' : f.og = p /\ f.id = t /\ f.gen = h
      <4>1. PICK k \in fwd' : k.og = p /\ k.id = t /\ k.gen = h
        BY <3>3
      <4>2. \/ \E f \in fwd : f.og = p /\ f.id = t /\ f.gen = h
            \/ p = o /\ t = s /\ h = g
        BY <1>10, <4>1
      <4>3. CASE \E f \in fwd : f.og = p /\ f.id = t /\ f.gen = h
        BY <4>3 DEF Names
      <4> QED
        BY <2>1, <4>2, <4>3
    <3>4. CASE att'[t] = p /\ gen'[t] = h
      <4>1. att'[t] = att[t] \/ (t = s /\ p = o /\ h = g)
        <5>1. att \in [Sess -> 0 .. MaxBind] /\ gen' = gen /\ g = gen[s] /\ att' = [att EXCEPT ![s] = o]
          BY <1>a, <1>1 DEF TypeInv, DaemonTyped
        <5>2. t # s => att'[t] = att[t]
          BY <5>1
        <5>3. t = s => p = o /\ h = g
          BY <3>4, <5>1
        <5> QED
          BY <5>2, <5>3
      <4> QED
        BY <1>1, <2>1, <3>4, <4>1 DEF Names
    <3>5. CASE /\ ~ \E i \in DOMAIN out' : out'[i] = Attach(t, p, h)
               /\ ~ \E i \in Pos' : (Tag(At(i)) = p /\ At(i).id = t /\ At(i).gen = h)'
               /\ ~ \E f \in fwd' : f.og = p /\ f.id = t /\ f.gen = h
               /\ ~ (att'[t] = p /\ gen'[t] = h)
      BY <1>2, <2>2, <3>5 DEF Names
    <3> QED
      BY <3>1, <3>2, <3>3, <3>4, <3>5
  <2>3. NamesInv /\ nextOg \in Nat
    BY StreamRouteAssumption DEF OpenInv, TypeInv, UiTyped, Ogs
  <2> QED
    BY <1>2, <2>2, <2>3, NamesStep
<1>12. \A p : Refused(p)' <=> Refused(p)
  <2>1. \A i \in DOMAIN wire' : i \in DOMAIN wire \/ wire'[i].kind # "refused"
    BY <1>4, <1>6
  <2> QED
    BY <1>6, <2>1 DEF Refused
<1>13. FreshInv'
  <2>1. ASSUME NEW p \in Ogs, Fresh(p), Unserved(p)' \/ Refused(p)' \/ p > nextOg
        PROVE  Fresh(p)'
    <3>1. p # o
      BY <1>7, <1>8, <1>12, <2>1
    <3>2. \A i \in Pos' : Tag(At(i))' # p
      BY <1>4, <1>6, <2>1, <3>1 DEF Fresh, Tag
    <3>3. \A f \in fwd' : f.og # p
      BY <1>10, <2>1, <3>1 DEF Fresh
    <3>4. \A t \in Sess : att'[t] # p
      BY <1>1, <2>1, <3>1 DEF Fresh, TypeInv, DaemonTyped
    <3>5. p \notin sent' /\ told'[p] = << >> /\ (route'.og = p => ~ route'.confirmed)
      BY <1>1, <1>2, <2>1, <3>1 DEF Fresh
    <3> QED
      BY <3>2, <3>3, <3>4, <3>5 DEF Fresh
  <2>2. FreshInv
    BY DEF OpenInv
  <2> QED
    BY <1>2, <1>7, <1>12, <2>1, <2>2, FreshStep
<1>14. QueueInv'
  <2>1. out[1] = Attach(active.id, active.og, active.gen) => o = active.og /\ s = active.id
    BY <1>a DEF Attach
  <2>2. out[1] = Attach(active.id, active.og, active.gen) => att'[active.id] = active.og
    BY <1>1, <2>1 DEF TypeInv, DaemonTyped
  <2>3. active.id # NoSess =>
                 \/ \E i \in DOMAIN out' : /\ out'[i] = Attach(active.id, active.og, active.gen)
                                           /\ \A j \in DOMAIN out' : j > i => out'[j].op = "snapshot"
                 \/ /\ \A j \in DOMAIN out' : out'[j].op = "snapshot"
                    /\ out[1] = Attach(active.id, active.og, active.gen)
    BY ServedAttaches
  <2> QED
    BY <1>2, <2>2, <2>3 DEF QueueInv
<1>15. StaleInv'
  <2>1. \A i \in Pos : Stale(At(i))' => Stale(At(i))
    BY <1>2, <1>6 DEF Stale
  <2>2. \A i \in Pos : ~ (n < i) /\ ~ (m < i)
    BY <1>6
  <2>3. ~ Stale(At(n))' /\ (ended[s] => ~ Stale(At(m))')
    BY <1>1, <1>4, <1>6 DEF Stale
  <2> QED
    BY <1>2, <1>6, <2>1, <2>2, <2>3 DEF OpenInv, StaleInv
<1>16. ExitInv'
  <2>1. ExitInv
    BY DEF OpenInv
  <2>2. ASSUME NEW h \in fwd'
        PROVE  h.og \notin sent'
    <3>1. CASE \E f \in fwd : f.og = h.og
      <4>1. h.og \notin sent /\ h.og # o
        BY <1>9, <2>1, <3>1 DEF ExitInv
      <4> QED
        BY <1>1, <4>1
    <3>2. CASE ~ ended[s] /\ h.og = o
      BY <1>1, <1>9, <3>2
    <3> QED
      BY <1>10, <3>1, <3>2
  <2>3. ASSUME NEW h \in fwd', NEW k \in fwd', h.og = k.og
        PROVE  h = k
    <3>1. CASE h.og = o
      <4>1. h = Forwarder(s, o, g, FALSE)
        BY <1>9, <1>10, <3>1
      <4>2. k = Forwarder(s, o, g, FALSE)
        <5>1. k.og = o
          BY <2>3, <3>1
        <5> QED
          BY <1>9, <1>10, <5>1
      <4> QED
        BY <4>1, <4>2
    <3>2. CASE h.og # o
      <4>1. PICK f \in fwd : f.og = h.og /\ (h = IF f.id = s THEN [f EXCEPT !.aborted = TRUE] ELSE f)
        BY <1>10, <3>2
      <4>2. PICK d \in fwd : d.og = k.og /\ (k = IF d.id = s THEN [d EXCEPT !.aborted = TRUE] ELSE d)
        BY <1>10, <2>3, <3>2
      <4>3. f = d
        BY <2>1, <2>3, <4>1, <4>2 DEF ExitInv
      <4> QED
        BY <4>1, <4>2, <4>3
    <3> QED
      BY <3>1, <3>2
  <2>4. \A i, j \in Pos' : (At(i).kind = "exit" /\ ExitAt(j, At(i).live))' => i = j
    BY <1>4, <1>6, <1>9, <2>1 DEF ExitInv, ExitAt
  <2>5. ASSUME NEW i \in Pos', (At(i).kind = "exit")'
        PROVE  (At(i).live)' \in sent' /\ told'[(At(i).live)'] = << >>
    <3>1. CASE i \in Pos
      <4>1. At(i).live \in sent /\ told[At(i).live] = << >> /\ At(i)' = At(i)
        BY <1>6, <2>1, <2>5, <3>1 DEF ExitInv
      <4>2. sent \subseteq sent'
        BY <1>1
      <4> QED
        BY <1>2, <4>1, <4>2
    <3>2. CASE i = n
      BY <1>4, <1>6, <2>5, <3>2
    <3>3. CASE i = m /\ ended[s]
      BY <1>1, <1>2, <1>4, <1>6, <1>9, <3>3
    <3> QED
      BY <1>6, <3>1, <3>2, <3>3
  <2>6. \A p \in Ogs : told'[p] # << >> => p \in sent' /\ Len(told'[p]) = 1 /\ told'[p][1] # 0
    BY <1>1, <1>2, <2>1 DEF ExitInv
  <2>7. ASSUME NEW i \in Pos', (At(i).echo # 0)'
        PROVE  (told[At(i).echo] = << >> /\ \A j \in Pos : ExitAt(j, At(i).echo) => i < j)'
    <3>1. CASE i \in Pos
      <4>1. At(i)' = At(i) /\ At(i).echo # 0 /\ At(i).echo # o /\ i < n /\ i < m
        BY <1>6, <1>9, <2>7, <3>1
      <4>2. told[At(i).echo] = << >> /\ \A j \in Pos : ExitAt(j, At(i).echo) => i < j
        BY <2>1, <3>1, <4>1 DEF ExitInv
      <4>3. ASSUME NEW j \in Pos', ExitAt(j, At(i).echo)' PROVE i < j
        <5>1. CASE j \in Pos
          <6>1. ExitAt(j, At(i).echo)
            BY <1>6, <4>1, <4>3, <5>1 DEF ExitAt
          <6> QED
            BY <4>2, <5>1, <6>1
        <5> QED
          BY <1>6, <4>1, <5>1
      <4> QED
        BY <1>2, <4>1, <4>2, <4>3
    <3>2. CASE i = n
      <4>1. n < m
        BY <1>5
      <4>2. (At(i).echo)' = o /\ told'[o] = << >>
        BY <1>2, <1>4, <1>6, <1>9, <3>2
      <4>3. ASSUME NEW j \in Pos', ExitAt(j, o)' PROVE i < j
        <5>1. CASE j \in Pos
          BY <1>6, <1>9, <4>3, <5>1 DEF ExitAt
        <5>2. CASE j = n
          BY <1>4, <1>6, <4>3, <5>2 DEF ExitAt
        <5>3. CASE j = m
          BY <3>2, <4>1, <5>3
        <5> QED
          BY <1>6, <5>1, <5>2, <5>3
      <4> QED
        BY <4>2, <4>3
    <3>3. CASE i = m /\ ended[s]
      BY <1>4, <1>6, <2>7, <3>3
    <3> QED
      BY <1>6, <3>1, <3>2, <3>3
  <2> QED
    BY <1>2, <2>1, <2>2, <2>3, <2>4, <2>5, <2>6, <2>7 DEF ExitInv
<1>17. EchoInv'
  <2>1. \A p, q : Ahead(p, q) => Ahead(p, q)'
    BY <1>2, <1>6 DEF Ahead
  <2>2. n # 0 /\ n < m /\ n < n + 1 /\ n < m + 1 /\ m \in Nat
    BY <1>0, <1>5, LinesTyped
  <2>3. \A p \in Nat : n < p => Ahead(o, p)'
    BY <1>4, <1>6, <2>2 DEF Ahead
  <2>4. \A h \in fwd : /\ Ahead(h.og, n + 1) \/ Confirmed(h.og)
                       /\ Ahead(h.og, m + 1) \/ Confirmed(h.og)
    <3>1. \A p : Ahead(p, n) => Ahead(p, n + 1) /\ Ahead(p, m + 1)
      BY <1>5, <1>6 DEF Ahead
    <3> QED
      BY <1>0, <3>1 DEF OpenInv, EchoInv
  <2>5. \A h \in fwd' : Ahead(h.og, Len(wire) + 1)' \/ Confirmed(h.og)'
    <3> TAKE h \in fwd'
    <3>1. CASE \E f \in fwd : f.og = h.og
      BY <1>1, <1>2, <1>6, <2>1, <2>4, <3>1
    <3>2. CASE ~ ended[s] /\ h.og = o
      BY <1>6, <2>2, <2>3, <3>2
    <3> QED
      BY <1>10, <3>1, <3>2
  <2>6. \A i \in Pos' : (At(i).kind = "exit" => Ahead(At(i).live, i) \/ Confirmed(At(i).live))'
    BY <1>2, <1>4, <1>6, <2>1, <2>2, <2>3 DEF OpenInv, EchoInv
  <2> QED
    BY <2>5, <2>6 DEF EchoInv
<1>18. KeptInv'
  <2>1. \A p \in sent : (\E i \in Pos : ExitAt(i, p)) => (\E i \in Pos' : ExitAt(i, p)')
    BY <1>6 DEF ExitAt
  <2>2. ended[s] => \E i \in Pos' : ExitAt(i, o)'
    BY <1>4, <1>6 DEF ExitAt
  <2>3. \A p \in sent' : p \in sent \/ (ended[s] /\ p = o)
    BY <1>1
  <2> QED
    BY <1>1, <1>2, <2>1, <2>2, <2>3 DEF OpenInv, KeptInv
<1>19. PaintInv'
  BY <1>2, <1>4, <1>6, <1>7, <1>12 DEF OpenInv, PaintInv
<1> QED
  BY <1>2, <1>11, <1>13, <1>14, <1>15, <1>16, <1>17, <1>18, <1>19 DEF OpenInv

LEMMA ServeKeeps ==
    ASSUME TypeInv, OpenInv, Serve
    PROVE  OpenInv'
<1>1. out[1].op \in {"detach", "attach", "snapshot"}
  BY ServedQueue DEF Requests
<1> QED
  BY <1>1, ServeDetachKeeps, ServeSnapshotKeeps, ServeRefusedKeeps, ServeAttachKeeps

-----------------------------------------------------------------------------
(* The reader's steps keep the invariant. *)

\* What the reader knows after it looked at the published binding: nothing new
\* is confirmed, exited or named, and no binding it adopted is lost.
LEMMA SyncKnows ==
    ASSUME TypeInv, OpenInv, SyncHistory
    PROVE  /\ rEpoch' = active.epoch /\ adopted \subseteq adopted' /\ evicted \subseteq evicted'
           /\ active.og # 0 => active.og \in adopted'
           /\ \A o \in adopted' : o \in adopted \/ o = active.og
           /\ adopted' \subseteq 1 .. nextOg
           /\ \A i \in DOMAIN RetiredNow :
                 /\ RetiredNow[i] \in RouteSet /\ RetiredNow[i].og \in Ogs
                 /\ RetiredNow[i].id \in Sess /\ RetiredNow[i].gen \in Gens
                 /\ Names(RetiredNow[i].og, RetiredNow[i].id, RetiredNow[i].gen)
                 /\ RetiredNow[i].og # active.og
                 /\ RetiredNow[i].exited => told[RetiredNow[i].og] # << >>
           /\ AdoptedRoute.confirmed => AdoptedRoute = route
           /\ AdoptedRoute.exited => AdoptedRoute.og # 0 /\ told[AdoptedRoute.og] # << >>
           /\ \A o \in Ogs : Confirmed(o) =>
                 /\ o = active.og => rEpoch = active.epoch /\ AdoptedRoute = route /\ route.confirmed
                 /\ \A i \in DOMAIN RetiredNow : RetiredNow[i].og = o => RetiredNow[i].confirmed
           /\ \A o \in adopted' \ evicted' :
                 \/ o = active.og \/ told[o] # << >>
                 \/ \E i \in DOMAIN RetiredNow : RetiredNow[i].og = o
<1>1. /\ rEpoch' = active.epoch /\ adopted' = adopted \cup ({active.og} \ {0})
      /\ evicted' = evicted \cup
          {o \in Ogs : /\ o = route.og \/ \E i \in DOMAIN retired : retired[i].og = o
                       /\ o # AdoptedRoute.og
                       /\ ~\E i \in DOMAIN RetiredNow : RetiredNow[i].og = o}
  BY DEF SyncHistory
<1>2. /\ RouteInv /\ ExitInv /\ KeptInv
  BY DEF OpenInv
<1>3. /\ AdoptedRoute.og = active.og /\ AdoptedRoute.id = active.id /\ AdoptedRoute.gen = active.gen
      /\ rEpoch = active.epoch => AdoptedRoute = route /\ RetiredNow = retired
      /\ rEpoch # active.epoch => ~ AdoptedRoute.confirmed /\ ~ AdoptedRoute.exited
  BY <1>2, SyncMeans
<1>4. adopted' \subseteq 1 .. nextOg
  <2>1. active.og \in 0 .. MaxBind /\ active.og <= nextOg /\ nextOg \in Nat
    BY StreamRouteAssumption DEF TypeInv, UiTyped, Ogs
  <2>2. active.og # 0 => active.og \in 1 .. nextOg
    BY <2>1, StreamRouteAssumption
  <2> QED
    BY <1>1, <1>2, <2>2 DEF RouteInv
<1>5. ASSUME NEW i \in DOMAIN RetiredNow
      PROVE  /\ RetiredNow[i] \in RouteSet /\ RetiredNow[i].og \in Ogs
             /\ RetiredNow[i].id \in Sess /\ RetiredNow[i].gen \in Gens
             /\ Names(RetiredNow[i].og, RetiredNow[i].id, RetiredNow[i].gen)
             /\ RetiredNow[i].og # active.og
             /\ RetiredNow[i].exited => told[RetiredNow[i].og] # << >>
             /\ RetiredNow[i] = route \/ \E j \in DOMAIN retired : RetiredNow[i] = retired[j]
  <2>1. /\ RetiredNow[i] = route \/ \E j \in DOMAIN retired : RetiredNow[i] = retired[j]
        /\ IsBinding(RetiredNow[i]) /\ RetiredNow[i].id \in Sess /\ RetiredNow[i].og # AdoptedRoute.og
    BY <1>2, RetiredMeans
  <2>2. RetiredNow[i] \in RouteSet
    BY <2>1, LinesTyped DEF TypeInv, ReaderTyped
  <2>3. RetiredNow[i].og \in Ogs /\ RetiredNow[i].gen \in Gens
    BY <2>1, StreamRouteAssumption DEF IsBinding
  <2>4. Names(RetiredNow[i].og, RetiredNow[i].id, RetiredNow[i].gen)
    BY <2>1 DEF Names
  <2>5. RetiredNow[i].exited => told[RetiredNow[i].og] # << >>
    BY <1>2, <2>1 DEF ExitInv
  <2> QED
    BY <1>3, <2>1, <2>2, <2>3, <2>4, <2>5
<1>6. AdoptedRoute.exited => AdoptedRoute.og # 0 /\ told[AdoptedRoute.og] # << >>
  BY <1>2, <1>3 DEF ExitInv
<1>7. ASSUME NEW o \in Ogs, Confirmed(o)
      PROVE  /\ o = active.og => rEpoch = active.epoch /\ AdoptedRoute = route /\ route.confirmed
             /\ \A i \in DOMAIN RetiredNow : RetiredNow[i].og = o => RetiredNow[i].confirmed
  <2>1. o = active.og => rEpoch = active.epoch
    BY <1>7 DEF Confirmed
  <2>2. o = active.og => AdoptedRoute = route /\ route.og = o
    BY <1>3, <2>1
  <2>3. o = active.og => route.confirmed
    BY <1>7, <2>2 DEF Confirmed
  <2>4. \A i \in DOMAIN RetiredNow : RetiredNow[i].og = o => RetiredNow[i].confirmed
    BY <1>5, <1>7 DEF Confirmed
  <2> QED
    BY <2>1, <2>2, <2>3, <2>4
<1>8. ASSUME NEW o \in adopted', o \notin evicted'
      PROVE  \/ o = active.og \/ told[o] # << >>
             \/ \E i \in DOMAIN RetiredNow : RetiredNow[i].og = o
  <2>1. o \in Ogs \/ o = active.og
    BY <1>1 DEF TypeInv, ReaderTyped
  <2> QED
    BY <1>1, <1>2, <1>3, <1>8, <2>1 DEF KeptInv
<1> QED
  BY <1>1, <1>3, <1>4, <1>5, <1>6, <1>7, <1>8

\* The reader adopts the published binding before it reads.
LEMMA TopSyncKeeps ==
    ASSUME TypeInv, OpenInv, TopSync
    PROVE  OpenInv'
<1>1. /\ SyncHistory /\ route' = AdoptedRoute /\ retired' = RetiredNow /\ pc' = "read" /\ pc = "top"
      /\ UNCHANGED <<active, nextOg, grid, exitShown, out, att, fwd, gen, sent, wire, told, line>>
  BY DEF TopSync, uiVars, paintVars, daemonVars, lineVars
<1>2. /\ rEpoch' = active.epoch /\ adopted \subseteq adopted' /\ evicted \subseteq evicted'
      /\ active.og # 0 => active.og \in adopted'
      /\ \A o \in adopted' : o \in adopted \/ o = active.og
      /\ adopted' \subseteq 1 .. nextOg
      /\ \A i \in DOMAIN RetiredNow :
            /\ Names(RetiredNow[i].og, RetiredNow[i].id, RetiredNow[i].gen)
            /\ RetiredNow[i].og # active.og
            /\ RetiredNow[i].exited => told[RetiredNow[i].og] # << >>
      /\ AdoptedRoute.confirmed => AdoptedRoute = route
      /\ AdoptedRoute.exited => AdoptedRoute.og # 0 /\ told[AdoptedRoute.og] # << >>
  BY <1>1, SyncKnows
<1>3. AdoptedRoute.og = active.og /\ AdoptedRoute.id = active.id /\ AdoptedRoute.gen = active.gen
  BY SyncMeans DEF OpenInv
<1>4. ~ InHand /\ ~ Committing /\ ~ InHand' /\ ~ Committing'
  BY <1>1 DEF InHand, Committing
<1>5. Pos' = Pos /\ \A i \in Pos : At(i)' = At(i)
  BY <1>1, <1>4, StreamStays
<1>6. \A o \in Ogs : o # 0
  BY StreamRouteAssumption DEF Ogs
<1>7. NamesInv'
  <2>1. ASSUME NEW o \in Ogs, NEW t \in Sess, NEW g \in Gens, Names(o, t, g)'
        PROVE  Names(o, t, g)
    <3>1. CASE route'.og = o /\ route'.id = t /\ route'.gen = g
      BY <1>1, <1>3, <3>1 DEF Names
    <3>2. CASE \E i \in DOMAIN retired' : retired'[i].og = o /\ retired'[i].id = t /\ retired'[i].gen = g
      BY <1>1, <1>2, <3>2
    <3>3. CASE /\ ~ (route'.og = o /\ route'.id = t /\ route'.gen = g)
               /\ ~ \E i \in DOMAIN retired' : retired'[i].og = o /\ retired'[i].id = t /\ retired'[i].gen = g
      BY <1>1, <1>5, <2>1, <3>3 DEF Names, Tag
    <3> QED
      BY <3>1, <3>2, <3>3
  <2>2. NamesInv /\ nextOg \in Nat
    BY StreamRouteAssumption DEF OpenInv, TypeInv, UiTyped, Ogs
  <2> QED
    BY <1>1, <2>1, <2>2, NamesStep
<1>8. \A o : (Unserved(o)' <=> Unserved(o)) /\ (Refused(o)' <=> Refused(o))
  BY <1>1 DEF Unserved, Refused
<1>9. FreshInv'
  <2>1. \A o \in Ogs : Fresh(o) => Fresh(o)'
    BY <1>1, <1>2, <1>5 DEF Fresh, Tag
  <2>2. FreshInv /\ \A i, j \in DOMAIN out' :
              out'[i].op = "attach" /\ out'[j].op = "attach" /\ out'[i].og = out'[j].og => i = j
    BY <1>1 DEF OpenInv, FreshInv
  <2> QED
    BY <1>1, <1>8, <2>1, <2>2, FreshStep
<1>10. QueueInv' /\ PaintInv' /\ PaintedByOwnRoute'
  BY <1>1, <1>5, <1>8 DEF OpenInv, QueueInv, PaintInv, PaintedByOwnRoute
<1>11. RouteInv'
  BY <1>1, <1>2, <1>3 DEF RouteInv
<1>12. StaleInv'
  BY <1>1, <1>2, <1>5 DEF OpenInv, StaleInv, Stale
<1>13. HandInv'
  BY <1>1, <1>4 DEF HandInv
<1>14. ExitInv'
  BY <1>1, <1>2, <1>5 DEF OpenInv, ExitInv, ExitAt
<1>15. EchoInv'
  <2>1. \A o \in Ogs : Confirmed(o) => Confirmed(o)'
    BY <1>1, <1>2, <1>3, SyncKnows DEF Confirmed
  <2>2. \A o, k : Ahead(o, k) => Ahead(o, k)'
    BY <1>4, <1>5 DEF Ahead
  <2>3. \A k \in Pos : At(k).kind = "exit" => At(k).live \in Ogs
    BY LinesTyped, TagsOld DEF Lines, OpenInv
  <2>4. \A f \in fwd : f.og \in Ogs
    BY TagsOld DEF OpenInv
  <2> QED
    BY <1>1, <1>5, <2>1, <2>2, <2>3, <2>4 DEF OpenInv, EchoInv
<1>16. KeptInv'
  <2>1. \A o \in sent : (\E i \in Pos : ExitAt(i, o)) => (\E i \in Pos' : ExitAt(i, o)')
    BY <1>5 DEF ExitAt
  <2>2. \A o \in adopted' \ evicted' :
           o = active.og \/ told[o] # << >> \/ \E i \in DOMAIN RetiredNow : RetiredNow[i].og = o
    BY <1>1, SyncKnows
  <2> QED
    BY <1>1, <1>2, <1>3, <2>1, <2>2 DEF OpenInv, KeptInv
<1> QED
  BY <1>7, <1>9, <1>10, <1>11, <1>12, <1>13, <1>14, <1>15, <1>16 DEF OpenInv

\* The reader takes a line.
LEMMA ReadLineKeeps ==
    ASSUME TypeInv, OpenInv, ReadLine, closed' = "open"
    PROVE  OpenInv'
<1>1. Head(wire).kind # "refused" /\ ~ Contradicted(Head(wire))
  BY DEF ReadLine, FailClosed
<1>2. /\ Len(wire) \in Nat /\ Len(wire) > 0 /\ Len(wire') = Len(wire) - 1
      /\ DOMAIN wire = 1 .. Len(wire) /\ DOMAIN wire' = 1 .. Len(wire')
      /\ \A i \in DOMAIN wire' : wire'[i] = wire[i + 1]
      /\ line' = wire[1] /\ line'.kind # "refused" /\ pc = "read" /\ pc' = "post"
      /\ Pos = 1 .. Len(wire) /\ Pos' = 0 .. Len(wire')
      /\ \A i \in Pos' : i + 1 \in Pos /\ At(i)' = At(i + 1)
      /\ pre' = LocalToken(line'.id)
      /\ UNCHANGED <<active, nextOg, grid, exitShown, out, att, fwd, gen, sent, rEpoch, route, retired,
                     adopted, evicted, told>>
  BY <1>1, StreamShifts DEF uiVars, paintVars, daemonVars, localVars
<1>3. /\ \A i \in Pos' : i \in Nat
      /\ \A i, j \in Pos' : (i + 1 < j + 1 => i < j) /\ (i < j => i + 1 < j + 1) /\ (i + 1 = j + 1 => i = j)
      /\ \A k \in Pos : \E i \in Pos' : i + 1 = k
  <2>1. \A k \in Pos : k - 1 \in Pos' /\ (k - 1) + 1 = k
    BY <1>2
  <2> QED
    BY <1>2, <2>1
<1>4. NamesInv'
  <2>1. ASSUME NEW o \in Ogs, NEW t \in Sess, NEW g \in Gens, Names(o, t, g)'
        PROVE  Names(o, t, g)
    <3>1. CASE \E i \in Pos' : (Tag(At(i)) = o /\ At(i).id = t /\ At(i).gen = g)'
      BY <1>2, <3>1 DEF Names, Tag
    <3>2. CASE ~ \E i \in Pos' : (Tag(At(i)) = o /\ At(i).id = t /\ At(i).gen = g)'
      BY <1>2, <2>1, <3>2 DEF Names
    <3> QED
      BY <3>1, <3>2
  <2>2. NamesInv /\ nextOg \in Nat
    BY StreamRouteAssumption DEF OpenInv, TypeInv, UiTyped, Ogs
  <2> QED
    BY <1>2, <2>1, <2>2, NamesStep
<1>5. \A o : (Unserved(o)' <=> Unserved(o)) /\ (Refused(o)' <=> Refused(o))
  <2>1. \A i \in DOMAIN wire' : i + 1 \in DOMAIN wire
    BY <1>2
  <2>2. \A i \in DOMAIN wire : i = 1 \/ (i - 1 \in DOMAIN wire' /\ (i - 1) + 1 = i)
    BY <1>2
  <2>3. wire[1].kind # "refused"
    BY <1>2
  <2> QED
    BY <1>2, <2>1, <2>2, <2>3 DEF Unserved, Refused
<1>6. FreshInv'
  <2>1. \A o \in Ogs : Fresh(o) => Fresh(o)'
    BY <1>2 DEF Fresh, Tag
  <2>2. FreshInv /\ \A i, j \in DOMAIN out' :
              out'[i].op = "attach" /\ out'[j].op = "attach" /\ out'[i].og = out'[j].og => i = j
    BY <1>2 DEF OpenInv, FreshInv
  <2> QED
    BY <1>2, <1>5, <2>1, <2>2, FreshStep
<1>7. QueueInv' /\ RouteInv' /\ PaintedByOwnRoute'
  BY <1>2, <1>5 DEF OpenInv, QueueInv, RouteInv, PaintedByOwnRoute
<1>8. StaleInv'
  <2>1. \A i \in Pos' : Stale(At(i))' => Stale(At(i + 1))
    BY <1>2 DEF Stale
  <2> QED
    BY <1>2, <1>3, <2>1 DEF OpenInv, StaleInv
<1>9. HandInv'
  BY <1>2 DEF HandInv, InHand, Committing, LocalToken
<1>10. ExitInv'
  <2>1. ExitInv
    BY DEF OpenInv
  <2>2. \A i, j \in Pos' : (At(i).kind = "exit" /\ ExitAt(j, At(i).live))' => i = j
    BY <1>2, <1>3, <2>1 DEF ExitInv, ExitAt
  <2>3. \A i \in Pos' : (At(i).kind = "exit" => At(i).live \in sent /\ told[At(i).live] = << >>)'
    BY <1>2, <2>1 DEF ExitInv
  <2>4. \A i \in Pos' : (At(i).echo # 0 =>
          told[At(i).echo] = << >> /\ \A j \in Pos : ExitAt(j, At(i).echo) => i < j)'
    BY <1>2, <1>3, <2>1 DEF ExitInv, ExitAt
  <2> QED
    BY <1>2, <2>1, <2>2, <2>3, <2>4 DEF ExitInv
<1>11. EchoInv'
  <2>1. \A o : Confirmed(o) => Confirmed(o)'
    BY <1>2 DEF Confirmed
  <2>2. InHand'
    BY <1>2 DEF InHand
  <2>3. \A o : \A i \in Nat : Ahead(o, i + 1) => Ahead(o, i)'
    <3> TAKE o
    <3> TAKE i \in Nat
    <3>1. ASSUME NEW j \in Pos, j < i + 1, At(j).echo = o
          PROVE  Ahead(o, i)'
      <4>1. PICK k \in Pos' : k + 1 = j
        BY <1>3
      <4>2. k < i
        BY <1>3, <3>1, <4>1
      <4>3. (At(k).echo = o)'
        BY <1>2, <3>1, <4>1
      <4> QED
        BY <2>2, <4>2, <4>3 DEF Ahead
    <3> QED
      BY <3>1 DEF Ahead
  <2>4. \A f \in fwd' : Ahead(f.og, Len(wire) + 1)' \/ Confirmed(f.og)'
    <3> TAKE f \in fwd'
    <3>1. PICK n \in Nat : n = Len(wire') + 1 /\ Len(wire) + 1 = n + 1
      BY <1>2
    <3>2. Ahead(f.og, n + 1) \/ Confirmed(f.og)
      BY <1>2, <3>1 DEF OpenInv, EchoInv
    <3>3. Ahead(f.og, n)' \/ Confirmed(f.og)'
      BY <2>1, <2>3, <3>2
    <3> QED
      BY <3>1, <3>3
  <2>5. \A k \in Pos' : (At(k).kind = "exit" => Ahead(At(k).live, k) \/ Confirmed(At(k).live))'
    <3> SUFFICES ASSUME NEW k \in Pos', NEW o, (At(k).kind = "exit" /\ At(k).live = o)'
                 PROVE  Ahead(o, k)' \/ Confirmed(o)'
      OBVIOUS
    <3>1. k + 1 \in Pos /\ At(k + 1).kind = "exit" /\ At(k + 1).live = o /\ k \in Nat
      BY <1>2, <1>3
    <3>2. Ahead(o, k + 1) \/ Confirmed(o)
      BY <3>1 DEF OpenInv, EchoInv
    <3> QED
      BY <2>1, <2>3, <3>1, <3>2
  <2> QED
    BY <2>4, <2>5 DEF EchoInv
<1>12. KeptInv'
  <2>1. \A o \in sent : (\E i \in Pos : ExitAt(i, o)) => (\E i \in Pos' : ExitAt(i, o)')
    <3> SUFFICES ASSUME NEW o \in sent, NEW k \in Pos, ExitAt(k, o)
                 PROVE  \E i \in Pos' : ExitAt(i, o)'
      OBVIOUS
    <3>1. PICK i \in Pos' : i + 1 = k
      BY <1>3
    <3>2. ExitAt(i, o)'
      BY <1>2, <3>1 DEF ExitAt
    <3> QED
      BY <3>2
  <2> QED
    BY <1>2, <2>1 DEF OpenInv, KeptInv
<1>13. PaintInv'
  <2>1. (\E i \in Pos : At(i).echo = active.og) => (\E i \in Pos' : (At(i).echo = active.og)')
    <3> SUFFICES ASSUME NEW k \in Pos, At(k).echo = active.og
                 PROVE  \E i \in Pos' : (At(i).echo = active.og)'
      OBVIOUS
    <3>1. PICK i \in Pos' : i + 1 = k
      BY <1>3
    <3>2. (At(i).echo = active.og)'
      BY <1>2, <3>1
    <3> QED
      BY <3>2
  <2> QED
    BY <1>2, <1>5, <2>1 DEF OpenInv, PaintInv
<1> QED
  BY <1>4, <1>6, <1>7, <1>8, <1>9, <1>10, <1>11, <1>12, <1>13 DEF OpenInv

\* The reader compares the line in its hand with the binding or the receipt.
LEMMA HoldKeeps ==
    ASSUME TypeInv, OpenInv, PostToken \/ CloneReceipt \/ NoteGrid, closed' = "open"
    PROVE  OpenInv'
<1>1. UNCHANGED <<active, nextOg, grid, exitShown, out, att, fwd, gen, sent, wire, rEpoch, route, retired,
                  adopted, evicted, told, line, pre>>
  BY DEF PostToken, CloneReceipt, NoteGrid, FailClosed, uiVars, paintVars, daemonVars, localVars, lineVars
<1>2. /\ (InHand' <=> InHand) /\ (Committing' <=> Committing)
      /\ InHand \/ Committing
      /\ Committing => post' = post /\ (pc' # "commit" => line.kind = "grid")
      /\ InHand => pc = "post" /\ pc' = "dispatch" /\ post' = SharedToken(line.id)
  BY DEF PostToken, CloneReceipt, NoteGrid, FailClosed, InHand, Committing, lineVars, OpenInv, HandInv
<1>3. Pos' = Pos /\ \A i \in Pos : At(i)' = At(i)
  BY <1>1, <1>2, StreamStays
<1>4. NamesInv'
  BY <1>1, <1>3 DEF OpenInv, NamesInv, Names, Tag
<1>5. \A o : (Unserved(o)' <=> Unserved(o)) /\ (Refused(o)' <=> Refused(o))
  BY <1>1 DEF Unserved, Refused
<1>6. FreshInv'
  <2>1. \A o \in Ogs : Fresh(o) => Fresh(o)'
    BY <1>1, <1>3 DEF Fresh, Tag
  <2>2. FreshInv /\ \A i, j \in DOMAIN out' :
              out'[i].op = "attach" /\ out'[j].op = "attach" /\ out'[i].og = out'[j].og => i = j
    BY <1>1 DEF OpenInv, FreshInv
  <2> QED
    BY <1>1, <1>5, <2>1, <2>2, FreshStep
<1>7. QueueInv' /\ RouteInv' /\ PaintedByOwnRoute' /\ PaintInv'
  BY <1>1, <1>3, <1>5 DEF OpenInv, QueueInv, RouteInv, PaintedByOwnRoute, PaintInv
<1>8. StaleInv'
  BY <1>1, <1>3 DEF OpenInv, StaleInv, Stale
<1>9. HandInv'
  <2>1. active.epoch \in Nat /\ active.epoch # 0 /\ line.id \in Sess
    BY <1>2, StreamRouteAssumption DEF TypeInv, UiTyped, ReaderTyped, Lines
  <2>2. /\ SharedToken(line.id)' = SharedToken(line.id) /\ LocalToken(line.id)' = LocalToken(line.id)
        /\ Accepts(route, line)' <=> Accepts(route, line)
    BY <1>1 DEF SharedToken, LocalToken, Accepts, Authorized
  <2>3. SharedToken(line.id) = NoToken \/ (SharedToken(line.id).id = line.id /\ SharedToken(line.id).epoch = active.epoch)
    BY DEF SharedToken, Token
  <2>4. ~ (InHand /\ Committing) /\ (pc = "dispatch" => InHand) /\ (pc' = "dispatch" => InHand')
    BY DEF InHand, Committing
  <2>5. CASE InHand
    BY <1>1, <1>2, <2>1, <2>2, <2>3, <2>4, <2>5 DEF OpenInv, HandInv
  <2>6. CASE Committing
    BY <1>1, <1>2, <2>1, <2>2, <2>4, <2>6 DEF OpenInv, HandInv
  <2> QED
    BY <1>2, <2>5, <2>6
<1>10. ExitInv'
  BY <1>1, <1>3 DEF OpenInv, ExitInv, ExitAt
<1>11. EchoInv'
  BY <1>1, <1>2, <1>3 DEF OpenInv, EchoInv, Ahead, Confirmed
<1>12. KeptInv'
  <2>1. \A o \in sent : (\E i \in Pos : ExitAt(i, o)) => (\E i \in Pos' : ExitAt(i, o)')
    BY <1>3 DEF ExitAt
  <2> QED
    BY <1>1, <2>1 DEF OpenInv, KeptInv
<1> QED
  BY <1>4, <1>6, <1>7, <1>8, <1>9, <1>10, <1>11, <1>12 DEF OpenInv

\* The line in the reader's hand names what its tag names.
LEMMA HandNames ==
    ASSUME TypeInv, OpenInv, pc = "dispatch"
    PROVE  /\ line \in Lines /\ 0 \in Pos /\ At(0) = line /\ InHand
           /\ \A o \in Ogs, s \in Sess, g \in Gens :
                 Tag(line) = o /\ Names(o, s, g) => line.id = s /\ line.gen = g
           /\ active.id # NoSess =>
                 /\ active.id \in Sess /\ active.og \in Ogs /\ active.gen \in Gens /\ active.og # 0
                 /\ Tag(line) = active.og => line.id = active.id /\ line.gen = active.gen
<1>1. line \in Lines /\ 0 \in Pos /\ At(0) = line /\ InHand
  BY LinesTyped DEF Pos, At, InHand
<1>2. \A o \in Ogs, s \in Sess, g \in Gens :
          Tag(line) = o /\ Names(o, s, g) => line.id = s /\ line.gen = g
  BY <1>1, TaggedNames DEF OpenInv
<1>3. ASSUME active.id # NoSess
      PROVE  active.id \in Sess /\ active.og \in Ogs /\ active.gen \in Gens /\ active.og # 0
  BY <1>3, StreamRouteAssumption DEF TypeInv, UiTyped, IsBinding, Ogs
<1>4. Names(active.og, active.id, active.gen)
  BY DEF Names
<1> QED
  BY <1>1, <1>2, <1>3, <1>4

\* The published binding's echo is accepted, also across a change of binding.
LEMMA EchoAccepted ==
    ASSUME TypeInv, OpenInv, pc = "dispatch", active.id # NoSess, line.echo = active.og
    PROVE  Routed /\ Accepts(AdoptedRoute, line)
<1>1. /\ line \in Lines /\ active.id \in Sess /\ active.og \in Ogs /\ active.og # 0
      /\ Tag(line) = active.og => line.id = active.id /\ line.gen = active.gen
  BY HandNames
<1>2. line.id = active.id /\ line.gen = active.gen
  BY <1>1 DEF Tag
<1>3. line.kind = "grid" /\ line.live = 0
  BY <1>1 DEF Lines
<1>4. post = Token(active.epoch, active.id, active.og)
  BY <1>2 DEF OpenInv, HandInv, SharedToken
<1>5. AdoptedRoute.id = active.id /\ AdoptedRoute.og = active.og /\ AdoptedRoute.gen = active.gen
  BY SyncMeans DEF OpenInv
<1>6. post # NoToken /\ post.og = active.og
  BY <1>1, <1>4 DEF NoToken, Token
<1>7. AdoptedRoute # NoRoute
  BY <1>1, <1>5 DEF NoRoute, NewRoute
<1>8. Routed
  BY <1>3, <1>6, <1>7 DEF Routed, PostAttachEcho
<1>9. Accepts(AdoptedRoute, line)
  BY <1>1, <1>2, <1>3, <1>5 DEF Accepts, Authorized
<1> QED
  BY <1>8, <1>9

\* So is its exit, once the binding is confirmed.
LEMMA ExitAccepted ==
    ASSUME TypeInv, OpenInv, pc = "dispatch", active.id # NoSess, line.kind = "exit",
           line.live = active.og, Confirmed(active.og)
    PROVE  Routed /\ Accepts(AdoptedRoute, line)
<1>1. /\ line \in Lines /\ InHand /\ active.id \in Sess /\ active.og \in Ogs /\ active.og # 0
      /\ Tag(line) = active.og => line.id = active.id /\ line.gen = active.gen
  BY HandNames
<1>2. line.echo = 0
  BY <1>1 DEF Lines
<1>3. line.id = active.id
  BY <1>1, <1>2 DEF Tag
<1>4. rEpoch = active.epoch
  BY DEF Confirmed
<1>5. /\ AdoptedRoute = route /\ route.id = active.id /\ route.og = active.og /\ route.gen = active.gen
  BY <1>4, SyncMeans DEF OpenInv
<1>6. route.confirmed
  BY <1>5 DEF Confirmed
<1>7. pre = Token(active.epoch, active.id, active.og) /\ post = Token(active.epoch, active.id, active.og)
  BY <1>1, <1>3, <1>4, <1>5 DEF OpenInv, HandInv, SharedToken, LocalToken
<1>8. post # NoToken
  BY <1>1, <1>7 DEF NoToken, Token
<1>9. AdoptedRoute # NoRoute
  BY <1>1, <1>5 DEF NoRoute, NewRoute
<1>10. Routed
  BY <1>7, <1>8, <1>9 DEF Routed
<1>11. Accepts(AdoptedRoute, line)
  BY <1>1, <1>2, <1>3, <1>5, <1>6 DEF Accepts, Authorized
<1> QED
  BY <1>10, <1>11

\* A line is accepted: the binding is confirmed by its echo, or was.
LEMMA AcceptKeeps ==
    ASSUME TypeInv, OpenInv, Dispatch, Routed, Accepts(AdoptedRoute, line)
    PROVE  OpenInv'
<1>1. /\ SyncHistory /\ route' = [AdoptedRoute EXCEPT !.confirmed = TRUE] /\ retired' = RetiredNow
      /\ pc = "dispatch" /\ pc' = (IF line.kind = "grid" THEN "clone" ELSE "commit")
      /\ UNCHANGED <<active, nextOg, grid, exitShown, out, att, fwd, gen, sent, wire, told, line, pre, post>>
  BY DispatchOutcomes DEF uiVars, paintVars, daemonVars, lineVars
<1>2. /\ rEpoch' = active.epoch /\ adopted \subseteq adopted' /\ evicted \subseteq evicted'
      /\ active.og # 0 => active.og \in adopted'
      /\ \A o \in adopted' : o \in adopted \/ o = active.og
      /\ adopted' \subseteq 1 .. nextOg
      /\ \A i \in DOMAIN RetiredNow :
            /\ Names(RetiredNow[i].og, RetiredNow[i].id, RetiredNow[i].gen)
            /\ RetiredNow[i].og # active.og
            /\ RetiredNow[i].exited => told[RetiredNow[i].og] # << >>
      /\ AdoptedRoute.confirmed => AdoptedRoute = route
      /\ AdoptedRoute.exited => AdoptedRoute.og # 0 /\ told[AdoptedRoute.og] # << >>
  BY <1>1, SyncKnows
<1>3. /\ AdoptedRoute \in RouteSet /\ AdoptedRoute.og = active.og /\ AdoptedRoute.id = active.id
      /\ AdoptedRoute.gen = active.gen
  BY SyncMeans DEF OpenInv
<1>4. /\ route'.og = active.og /\ route'.id = active.id /\ route'.gen = active.gen
      /\ route'.confirmed /\ route'.exited = AdoptedRoute.exited
  BY <1>1, <1>3 DEF RouteSet
<1>5. /\ line \in Lines /\ 0 \in Pos /\ At(0) = line /\ InHand /\ active.id \in Sess /\ active.og \in Ogs
      /\ active.og # 0 /\ active.id # NoSess
  <2>1. line \in Lines /\ 0 \in Pos /\ At(0) = line /\ InHand
    BY <1>1, HandNames
  <2>2. active.id = line.id
    BY <1>3 DEF Accepts
  <2>3. active.id \in Sess /\ active.id # NoSess
    BY <2>1, <2>2, StreamRouteAssumption DEF Lines
  <2> QED
    BY <1>1, <2>1, <2>3, HandNames
<1>6. InHand /\ ~ InHand' /\ Committing'
  BY <1>1 DEF InHand, Committing
<1>7. Pos' = Pos /\ \A i \in Pos : At(i)' = At(i)
  BY <1>1, <1>6, StreamStays
<1>8. AdoptedRoute.confirmed \/ line.echo = active.og
  BY <1>3 DEF Accepts
<1>9. line.echo = 0 \/ line.echo = active.og
  BY <1>3 DEF Accepts
<1>10. NamesInv'
  <2>1. ASSUME NEW o \in Ogs, NEW t \in Sess, NEW g \in Gens, Names(o, t, g)'
        PROVE  Names(o, t, g)
    <3>1. CASE route'.og = o /\ route'.id = t /\ route'.gen = g
      BY <1>4, <3>1 DEF Names
    <3>2. CASE \E i \in DOMAIN retired' : retired'[i].og = o /\ retired'[i].id = t /\ retired'[i].gen = g
      BY <1>1, <1>2, <3>2
    <3>3. CASE /\ ~ (route'.og = o /\ route'.id = t /\ route'.gen = g)
               /\ ~ \E i \in DOMAIN retired' : retired'[i].og = o /\ retired'[i].id = t /\ retired'[i].gen = g
      BY <1>1, <1>7, <2>1, <3>3 DEF Names, Tag
    <3> QED
      BY <3>1, <3>2, <3>3
  <2>2. NamesInv /\ nextOg \in Nat
    BY StreamRouteAssumption DEF OpenInv, TypeInv, UiTyped, Ogs
  <2> QED
    BY <1>1, <2>1, <2>2, NamesStep
<1>11. \A o : (Unserved(o)' <=> Unserved(o)) /\ (Refused(o)' <=> Refused(o))
  BY <1>1 DEF Unserved, Refused
<1>12. FreshInv'
  <2>1. ~ Fresh(active.og)
    <3>1. CASE AdoptedRoute.confirmed
      BY <1>2, <1>3, <3>1 DEF Fresh
    <3>2. CASE line.echo = active.og
      BY <1>5, <3>2 DEF Fresh, Tag
    <3> QED
      BY <1>8, <3>1, <3>2
  <2>2. \A o \in Ogs : Fresh(o) => Fresh(o)'
    BY <1>1, <1>4, <1>7, <2>1 DEF Fresh, Tag
  <2>3. FreshInv /\ \A i, j \in DOMAIN out' :
              out'[i].op = "attach" /\ out'[j].op = "attach" /\ out'[i].og = out'[j].og => i = j
    BY <1>1 DEF OpenInv, FreshInv
  <2> QED
    BY <1>1, <1>11, <2>2, <2>3, FreshStep
<1>13. QueueInv' /\ PaintInv' /\ PaintedByOwnRoute'
  BY <1>1, <1>7, <1>11 DEF OpenInv, QueueInv, PaintInv, PaintedByOwnRoute
<1>14. RouteInv'
  BY <1>1, <1>2, <1>4 DEF RouteInv
<1>15. StaleInv'
  <2>1. ASSUME NEW k \in Pos PROVE ~ Stale(At(k))
    <3>1. CASE AdoptedRoute.confirmed
      BY <1>2, <1>3, <1>5, <3>1 DEF OpenInv, StaleInv
    <3>2. CASE line.echo = active.og
      <4>1. k = 0 \/ 0 < k
        BY LinesTyped DEF Pos
      <4> QED
        BY <1>5, <3>2, <4>1 DEF OpenInv, StaleInv, Stale
    <3> QED
      BY <1>8, <3>1, <3>2
  <2> QED
    BY <1>1, <1>7, <2>1 DEF StaleInv, Stale
<1>16. HandInv'
  <2>1. HandInv
    BY DEF OpenInv
  <2>2. post # NoToken
    BY DEF Routed
  <2>3. Accepts(route, line)'
    BY <1>1, <1>3, <1>4, <1>5 DEF Accepts, Authorized
  <2>4. SharedToken(line.id)' = SharedToken(line.id)
    BY <1>1 DEF SharedToken
  <2>5. pc' # "dispatch" /\ (pc' # "commit" => line.kind = "grid")
    BY <1>1
  <2> QED
    BY <1>1, <1>2, <1>4, <1>6, <2>1, <2>2, <2>3, <2>4, <2>5 DEF HandInv
<1>17. ExitInv'
  BY <1>1, <1>2, <1>3, <1>4, <1>7 DEF OpenInv, ExitInv, ExitAt
<1>18. EchoInv'
  <2>1. \A o \in Ogs : Confirmed(o) => Confirmed(o)'
    BY <1>1, <1>2, <1>4, SyncKnows DEF Confirmed
  <2>2. Confirmed(active.og)'
    BY <1>1, <1>2, <1>4 DEF Confirmed
  <2>3. \A o \in Ogs : \A k : Ahead(o, k) => Ahead(o, k)' \/ Confirmed(o)'
    <3> SUFFICES ASSUME NEW o \in Ogs, NEW k, NEW j \in Pos, j < k, At(j).echo = o
                 PROVE  Ahead(o, k)' \/ Confirmed(o)'
      BY DEF Ahead
    <3>1. CASE j = 0
      <4>1. o = active.og
        BY <1>5, <1>9, <3>1, StreamRouteAssumption DEF Ogs
      <4> QED
        BY <1>1, <2>2, <4>1
    <3>2. CASE j # 0
      BY <1>7, <3>2 DEF Ahead
    <3> QED
      BY <3>1, <3>2
  <2>4. \A k \in Pos : At(k).kind = "exit" => At(k).live \in Ogs
    BY LinesTyped, TagsOld DEF Lines, OpenInv
  <2>5. \A f \in fwd : f.og \in Ogs
    BY TagsOld DEF OpenInv
  <2>6. \A f \in fwd' : Ahead(f.og, Len(wire) + 1)' \/ Confirmed(f.og)'
    BY <1>1, <2>1, <2>3, <2>5 DEF OpenInv, EchoInv
  <2>7. \A k \in Pos' : (At(k).kind = "exit" => Ahead(At(k).live, k) \/ Confirmed(At(k).live))'
    BY <1>7, <2>1, <2>3, <2>4 DEF OpenInv, EchoInv
  <2> QED
    BY <2>6, <2>7 DEF EchoInv
<1>19. KeptInv'
  <2>1. \A o \in sent : (\E i \in Pos : ExitAt(i, o)) => (\E i \in Pos' : ExitAt(i, o)')
    BY <1>7 DEF ExitAt
  <2>2. \A o \in adopted' \ evicted' :
           o = active.og \/ told[o] # << >> \/ \E i \in DOMAIN RetiredNow : RetiredNow[i].og = o
    BY <1>1, SyncKnows
  <2> QED
    BY <1>1, <1>2, <1>4, <2>1, <2>2 DEF OpenInv, KeptInv
<1> QED
  BY <1>10, <1>12, <1>13, <1>14, <1>15, <1>16, <1>17, <1>18, <1>19 DEF OpenInv

\* The reader is done with a line: at most the exit it carried is told.
ToldStep ==
    \A o \in Ogs :
        \/ told'[o] = told[o]
        \/ /\ line.kind = "exit" /\ line.live = o
           /\ told'[o] # << >> /\ Len(told'[o]) = 1 /\ told'[o][1] # 0

LEMMA ExitStep ==
    ASSUME TypeInv, OpenInv, UNCHANGED <<fwd, sent>>, InHand \/ Committing, Pos' = Pos \ {0},
           \A i \in Pos' : At(i)' = At(i), ToldStep,
           route'.exited => route'.og # 0 /\ told'[route'.og] # << >>,
           \A i \in DOMAIN retired' : retired'[i].exited => told'[retired'[i].og] # << >>
    PROVE  ExitInv'
<1>1. ExitInv
  BY DEF OpenInv
<1>2. /\ 0 \in Pos /\ At(0) = line /\ \A i \in Pos' : i \in Pos /\ i # 0 /\ ~ (i < 0)
  BY LinesTyped, TagsOld DEF Pos, OpenInv
<1>3. /\ \A i \in Pos : At(i).kind = "exit" => At(i).live \in Ogs
      /\ \A i \in Pos : At(i).echo # 0 => At(i).echo \in Ogs
  BY LinesTyped, TagsOld DEF Lines, OpenInv
<1>4. \A i, j \in Pos' : (At(i).kind = "exit" /\ ExitAt(j, At(i).live))' => i = j
  BY <1>1, <1>2 DEF ExitInv, ExitAt
<1>5. ASSUME NEW i \in Pos', At(i).kind = "exit"
      PROVE  At(i).live \in sent /\ told'[At(i).live] = << >>
  <2>1. ~ (line.kind = "exit" /\ line.live = At(i).live)
    BY <1>1, <1>2, <1>5 DEF ExitInv, ExitAt
  <2>2. told'[At(i).live] = told[At(i).live]
    <3>1. i \in Pos
      BY <1>2
    <3>2. At(i).live \in Ogs
      BY <1>3, <1>5, <3>1
    <3> QED
      BY <2>1, <3>2 DEF ToldStep
  <2> QED
    BY <1>1, <1>2, <1>5, <2>2 DEF ExitInv
<1>6. \A i \in Pos' : (At(i).kind = "exit" => At(i).live \in sent /\ told[At(i).live] = << >>)'
  BY <1>5
<1>7. \A o \in Ogs : told'[o] # << >> => o \in sent' /\ Len(told'[o]) = 1 /\ told'[o][1] # 0
  BY <1>1, <1>2 DEF ExitInv, ToldStep
<1>8. ASSUME NEW i \in Pos', At(i).echo # 0
      PROVE  told'[At(i).echo] = << >> /\ \A j \in Pos' : ExitAt(j, At(i).echo) => i < j
  <2>1. ~ (line.kind = "exit" /\ line.live = At(i).echo)
    BY <1>1, <1>2, <1>8 DEF ExitInv, ExitAt
  <2>2. told'[At(i).echo] = told[At(i).echo]
    <3>1. i \in Pos
      BY <1>2
    <3>2. At(i).echo \in Ogs
      BY <1>3, <1>8, <3>1
    <3> QED
      BY <2>1, <3>2 DEF ToldStep
  <2> QED
    BY <1>1, <1>2, <1>8, <2>2 DEF ExitInv
<1>9. \A i \in Pos' : (At(i).echo # 0 =>
          told[At(i).echo] = << >> /\ \A j \in Pos : ExitAt(j, At(i).echo) => i < j)'
  BY <1>8 DEF ExitAt
<1> QED
  BY <1>1, <1>4, <1>6, <1>7, <1>9 DEF ExitInv

\* A line is dropped: a retired binding may be confirmed by it, or told its exit.
LEMMA DropKeeps ==
    ASSUME TypeInv, OpenInv, Dispatch, ~ (Routed /\ Accepts(AdoptedRoute, line))
    PROVE  OpenInv'
<1>1. /\ SyncHistory /\ route' = AdoptedRoute /\ Observe(RetiredNow, line) /\ pc = "dispatch" /\ pc' = "top"
      /\ UNCHANGED <<active, nextOg, grid, exitShown, out, att, fwd, gen, sent, wire>>
  BY DispatchOutcomes DEF uiVars, paintVars, daemonVars
<1>2. /\ rEpoch' = active.epoch /\ adopted \subseteq adopted' /\ evicted \subseteq evicted'
      /\ active.og # 0 => active.og \in adopted'
      /\ \A o \in adopted' : o \in adopted \/ o = active.og
      /\ adopted' \subseteq 1 .. nextOg
      /\ AdoptedRoute.confirmed => AdoptedRoute = route
      /\ AdoptedRoute.exited => AdoptedRoute.og # 0 /\ told[AdoptedRoute.og] # << >>
  BY <1>1, SyncKnows
<1>3. AdoptedRoute.og = active.og /\ AdoptedRoute.id = active.id /\ AdoptedRoute.gen = active.gen
  BY SyncMeans DEF OpenInv
<1>4. /\ line \in Lines /\ 0 \in Pos /\ At(0) = line /\ InHand /\ ~ InHand' /\ ~ Committing'
  BY <1>1, HandNames DEF InHand, Committing
<1>5. /\ Len(wire) \in Nat /\ Pos' = Pos \ {0} /\ \A i \in Pos' : i \in Pos /\ At(i)' = At(i)
  BY <1>1, <1>4, StreamDrops
<1>6. /\ told \in [Ogs -> Seq(0 .. MaxGen)] /\ RetiredNow \in Seq(RouteSet)
      /\ \A i \in DOMAIN RetiredNow :
            /\ RetiredNow[i] \in RouteSet /\ RetiredNow[i].og \in Ogs
            /\ RetiredNow[i].id \in Sess /\ RetiredNow[i].gen \in Gens
            /\ Names(RetiredNow[i].og, RetiredNow[i].id, RetiredNow[i].gen)
            /\ RetiredNow[i].og # active.og
            /\ RetiredNow[i].exited => told[RetiredNow[i].og] # << >>
  BY <1>1, RetiredMeans, SyncKnows DEF OpenInv, TypeInv, ReaderTyped
\* A retired binding accepts its echo, and its exit behind it.
<1>7. ASSUME NEW i \in DOMAIN RetiredNow, RetiredNow[i].og = Tag(line),
             line.echo # 0 \/ (line.kind = "exit" /\ RetiredNow[i].confirmed)
      PROVE  Accepts(RetiredNow[i], line)
  <2>1. RetiredNow[i].id = line.id /\ RetiredNow[i].gen = line.gen /\ RetiredNow[i].og # 0
    BY <1>1, <1>6, <1>7, HandNames, StreamRouteAssumption DEF Ogs
  <2> QED
    BY <1>4, <1>7, <2>1 DEF Accepts, Authorized, Tag, Lines
\* What is retired afterwards.
<1>8. \A i \in DOMAIN retired' : \E j \in DOMAIN RetiredNow :
         /\ retired'[i].og = RetiredNow[j].og /\ retired'[i].id = RetiredNow[j].id
         /\ retired'[i].gen = RetiredNow[j].gen /\ retired'[i].exited = RetiredNow[j].exited
         /\ RetiredNow[j].confirmed => retired'[i].confirmed
         /\ line.echo # 0 /\ RetiredNow[j].og = Tag(line) => retired'[i].confirmed
  <2> TAKE i \in DOMAIN retired'
  <2>1. PICK j \in DOMAIN RetiredNow :
                 /\ retired'[i] = [RetiredNow[j] EXCEPT !.confirmed = retired'[i].confirmed]
                 /\ RetiredNow[j].confirmed => retired'[i].confirmed
                 /\ line.kind = "grid" /\ line.echo # 0 /\ RetiredNow[j].og = Tag(line) /\ Accepts(RetiredNow[j], line)
                       => retired'[i].confirmed
    BY <1>1, <1>6, ObserveMeans
  <2>2. line.echo # 0 /\ RetiredNow[j].og = Tag(line) => retired'[i].confirmed
    <3>1. line.echo # 0 => line.kind = "grid"
      BY <1>4 DEF Lines
    <3> QED
      BY <1>7, <2>1, <3>1
  <2>3. RetiredNow[j] \in RouteSet
    BY <1>6
  <2>4. /\ retired'[i].og = RetiredNow[j].og /\ retired'[i].id = RetiredNow[j].id
        /\ retired'[i].gen = RetiredNow[j].gen /\ retired'[i].exited = RetiredNow[j].exited
    BY <2>1, <2>3 DEF RouteSet
  <2> QED
    BY <2>1, <2>2, <2>4
\* What has been told.
<1>9. /\ ToldStep
      /\ \A j \in DOMAIN RetiredNow : \/ \E i \in DOMAIN retired' : retired'[i].og = RetiredNow[j].og
                                      \/ told'[RetiredNow[j].og] # << >>
      /\ line.kind = "exit" => \A j \in DOMAIN RetiredNow :
            RetiredNow[j].og = Tag(line) /\ Accepts(RetiredNow[j], line) => told'[RetiredNow[j].og] # << >>
  <2>1. CASE /\ UNCHANGED told
             /\ \A j \in DOMAIN RetiredNow : \E i \in DOMAIN retired' : retired'[i].og = RetiredNow[j].og
             /\ line.kind # "exit" \/ \A j \in DOMAIN RetiredNow :
                   RetiredNow[j].og = Tag(line) /\ Accepts(RetiredNow[j], line) => RetiredNow[j].exited
    BY <1>6, <2>1 DEF ToldStep
  <2>2. CASE /\ line.kind = "exit" /\ Tag(line) \in Ogs
             /\ \E j \in DOMAIN RetiredNow : /\ RetiredNow[j].og = Tag(line)
                                              /\ told' = [told EXCEPT ![Tag(line)] = Append(@, RetiredNow[j].gen)]
             /\ \A j \in DOMAIN RetiredNow : RetiredNow[j].og # Tag(line) =>
                   \E i \in DOMAIN retired' : retired'[i].og = RetiredNow[j].og
    <3>1. PICK j \in DOMAIN RetiredNow : told' = [told EXCEPT ![Tag(line)] = Append(@, RetiredNow[j].gen)]
      BY <2>2
    <3>2. line.live = Tag(line) /\ told[Tag(line)] = << >>
      BY <1>4, <2>2 DEF Lines, Tag, OpenInv, ExitInv
    <3>3. told'[Tag(line)] = <<RetiredNow[j].gen>>
      BY <1>6, <2>2, <3>1, <3>2
    <3>4. RetiredNow[j].gen # 0
      BY <1>6, StreamRouteAssumption DEF Gens
    <3>5. told'[Tag(line)] # << >> /\ Len(told'[Tag(line)]) = 1 /\ told'[Tag(line)][1] # 0
      BY <3>3, <3>4
    <3>6. \A o \in Ogs : o # Tag(line) => told'[o] = told[o]
      BY <1>6, <3>1
    <3>7. ToldStep
      BY <2>2, <3>2, <3>5, <3>6 DEF ToldStep
    <3>8. \A i \in DOMAIN RetiredNow : RetiredNow[i].og = Tag(line) => told'[RetiredNow[i].og] # << >>
      BY <3>5
    <3>9. \A i \in DOMAIN RetiredNow : \/ \E k \in DOMAIN retired' : retired'[k].og = RetiredNow[i].og
                                       \/ told'[RetiredNow[i].og] # << >>
      BY <2>2, <3>8
    <3>10. \A i \in DOMAIN RetiredNow :
             RetiredNow[i].og = Tag(line) /\ Accepts(RetiredNow[i], line) => told'[RetiredNow[i].og] # << >>
      BY <3>8
    <3> QED
      BY <3>7, <3>9, <3>10
  <2> QED
    BY <1>1, <1>6, <2>1, <2>2, ObserveMeans
<1>10. NamesInv'
  <2>1. ASSUME NEW o \in Ogs, NEW t \in Sess, NEW g \in Gens, Names(o, t, g)'
        PROVE  Names(o, t, g)
    <3>1. CASE route'.og = o /\ route'.id = t /\ route'.gen = g
      BY <1>1, <1>3, <3>1 DEF Names
    <3>2. CASE \E i \in DOMAIN retired' : retired'[i].og = o /\ retired'[i].id = t /\ retired'[i].gen = g
      BY <1>6, <1>8, <3>2
    <3>3. CASE \E i \in Pos' : (Tag(At(i)) = o /\ At(i).id = t /\ At(i).gen = g)'
      BY <1>5, <3>3 DEF Names, Tag
    <3>4. CASE /\ ~ (route'.og = o /\ route'.id = t /\ route'.gen = g)
               /\ ~ \E i \in DOMAIN retired' : retired'[i].og = o /\ retired'[i].id = t /\ retired'[i].gen = g
               /\ ~ \E i \in Pos' : (Tag(At(i)) = o /\ At(i).id = t /\ At(i).gen = g)'
      BY <1>1, <2>1, <3>4 DEF Names
    <3> QED
      BY <3>1, <3>2, <3>3, <3>4
  <2>2. NamesInv /\ nextOg \in Nat
    BY StreamRouteAssumption DEF OpenInv, TypeInv, UiTyped, Ogs
  <2> QED
    BY <1>1, <2>1, <2>2, NamesStep
<1>11. \A o : (Unserved(o)' <=> Unserved(o)) /\ (Refused(o)' <=> Refused(o))
  BY <1>1 DEF Unserved, Refused
<1>12. FreshInv'
  <2>1. ASSUME NEW o \in Ogs, Fresh(o) PROVE Fresh(o)'
    <3>1. line.live # o
      <4>1. Tag(line) # o /\ o # 0
        BY <1>4, <2>1, StreamRouteAssumption DEF Fresh, Ogs
      <4> QED
        BY <1>4, <4>1 DEF Tag, Lines
    <3>2. told'[o] = << >>
      BY <1>9, <2>1, <3>1 DEF Fresh, ToldStep
    <3> QED
      BY <1>1, <1>2, <1>5, <2>1, <3>2 DEF Fresh, Tag
  <2>2. FreshInv /\ \A i, j \in DOMAIN out' :
              out'[i].op = "attach" /\ out'[j].op = "attach" /\ out'[i].og = out'[j].og => i = j
    BY <1>1 DEF OpenInv, FreshInv
  <2> QED
    BY <1>1, <1>11, <2>1, <2>2, FreshStep
<1>13. QueueInv' /\ PaintedByOwnRoute'
  BY <1>1, <1>11 DEF OpenInv, QueueInv, PaintedByOwnRoute
<1>14. RouteInv'
  <2>1. \A i \in DOMAIN retired' : retired'[i].og # route'.og
    BY <1>1, <1>3, <1>6, <1>8
  <2> QED
    BY <1>1, <1>2, <1>3, <2>1 DEF RouteInv
<1>15. StaleInv'
  BY <1>1, <1>2, <1>5 DEF OpenInv, StaleInv, Stale
<1>16. HandInv'
  BY <1>1, <1>4 DEF HandInv
<1>17. ExitInv'
  <2>1. AdoptedRoute.og \in Ogs \/ AdoptedRoute.og = 0
    BY <1>3, StreamRouteAssumption DEF TypeInv, UiTyped, IsBinding
  <2>2. route'.exited => route'.og # 0 /\ told'[route'.og] # << >>
    BY <1>1, <1>2, <1>9, <2>1 DEF ToldStep
  <2>3. \A i \in DOMAIN retired' : retired'[i].exited => told'[retired'[i].og] # << >>
    BY <1>6, <1>8, <1>9 DEF ToldStep
  <2> QED
    BY <1>1, <1>4, <1>5, <1>9, <2>2, <2>3, ExitStep
\* The published binding's echo is not dropped.
<1>18. active.id # NoSess => line.echo # active.og
  BY <1>1, EchoAccepted
<1>19. EchoInv'
  <2>1. \A o \in Ogs : Confirmed(o) => Confirmed(o)'
    <3> TAKE o \in Ogs
    <3> HAVE Confirmed(o)
    <3>1. /\ o = active.og => AdoptedRoute = route /\ route.confirmed
          /\ \A i \in DOMAIN RetiredNow : RetiredNow[i].og = o => RetiredNow[i].confirmed
      BY <1>1, SyncKnows
    <3>2. \A i \in DOMAIN retired' : retired'[i].og = o => retired'[i].confirmed
      BY <1>8, <3>1
    <3> QED
      BY <1>1, <1>2, <1>3, <3>1, <3>2 DEF Confirmed
  <2>2. ASSUME NEW o \in Ogs, line.echo = o PROVE Confirmed(o)'
    <3>1. Tag(line) = o /\ o # 0
      BY <2>2, StreamRouteAssumption DEF Tag, Ogs
    <3>2. o # active.og
      BY <1>18, <2>2, <3>1, StreamRouteAssumption DEF TypeInv, UiTyped, IsBinding
    <3>3. \A i \in DOMAIN retired' : retired'[i].og = o => retired'[i].confirmed
      BY <1>8, <2>2, <3>1
    <3> QED
      BY <1>1, <1>3, <3>2, <3>3 DEF Confirmed
  <2>3. \A o \in Ogs : \A k : Ahead(o, k) => Ahead(o, k)' \/ Confirmed(o)'
    <3> SUFFICES ASSUME NEW o \in Ogs, NEW k, NEW j \in Pos, j < k, At(j).echo = o
                 PROVE  Ahead(o, k)' \/ Confirmed(o)'
      BY DEF Ahead
    <3>1. CASE j = 0
      BY <1>4, <2>2, <3>1
    <3>2. CASE j # 0
      BY <1>5, <3>2 DEF Ahead
    <3> QED
      BY <3>1, <3>2
  <2>4. \A k \in Pos : At(k).kind = "exit" => At(k).live \in Ogs
    BY LinesTyped, TagsOld DEF Lines, OpenInv
  <2>5. \A f \in fwd : f.og \in Ogs
    BY TagsOld DEF OpenInv
  <2>6. \A f \in fwd' : Ahead(f.og, Len(wire) + 1)' \/ Confirmed(f.og)'
    BY <1>1, <2>1, <2>3, <2>5 DEF OpenInv, EchoInv
  <2>7. \A k \in Pos' : (At(k).kind = "exit" => Ahead(At(k).live, k) \/ Confirmed(At(k).live))'
    BY <1>5, <2>1, <2>3, <2>4 DEF OpenInv, EchoInv
  <2> QED
    BY <2>6, <2>7 DEF EchoInv
<1>20. KeptInv'
  <2>1. ASSUME NEW o \in adopted' \ evicted'
        PROVE  o = route'.og \/ told'[o] # << >> \/ \E i \in DOMAIN retired' : retired'[i].og = o
    <3>1. o = active.og \/ told[o] # << >> \/ \E i \in DOMAIN RetiredNow : RetiredNow[i].og = o
      BY <1>1, SyncKnows
    <3>2. o = active.og \/ o \in Ogs
      BY <1>2 DEF TypeInv, ReaderTyped
    <3> QED
      BY <1>1, <1>3, <1>9, <3>1, <3>2 DEF ToldStep
  <2>2. ASSUME NEW o \in sent, line.kind = "exit", line.live = o
        PROVE  told'[o] # << >> \/ o \in evicted' \/ (o \notin adopted' /\ o # active.og)
    <3>1. o \in Ogs /\ o # 0 /\ Tag(line) = o
      BY <1>4, <2>2, StreamRouteAssumption DEF Tag, Lines, Ogs, TypeInv, DaemonTyped
    <3>2. Confirmed(o)
      <4>1. ~ Ahead(o, 0)
        BY LinesTyped DEF Ahead, Pos
      <4> QED
        BY <1>4, <2>2, <4>1 DEF OpenInv, EchoInv
    <3>3. o # active.og
      <4>1. active.og # 0 => active.id # NoSess
        BY StreamRouteAssumption DEF TypeInv, UiTyped, IsBinding
      <4> QED
        BY <1>1, <2>2, <3>1, <3>2, <4>1, ExitAccepted
    <3>4. ASSUME o \in adopted', o \notin evicted' PROVE told'[o] # << >>
      <4>1. told[o] # << >> \/ \E i \in DOMAIN RetiredNow : RetiredNow[i].og = o
        BY <1>1, <3>3, <3>4, SyncKnows
      <4>2. \A i \in DOMAIN RetiredNow : RetiredNow[i].og = o => Accepts(RetiredNow[i], line)
        BY <1>1, <1>7, <2>2, <3>1, <3>2, SyncKnows
      <4> QED
        BY <1>9, <2>2, <3>1, <4>1, <4>2 DEF ToldStep
    <3> QED
      BY <3>3, <3>4
  <2>3. \A o \in sent : (\E i \in Pos : ExitAt(i, o)) =>
           (line.kind = "exit" /\ line.live = o) \/ (\E i \in Pos' : ExitAt(i, o)')
    BY <1>4, <1>5 DEF ExitAt
  <2>4. \A o \in sent : told[o] # << >> => told'[o] # << >>
    BY <1>9 DEF ToldStep, TypeInv, DaemonTyped
  <2>5. \A o \in sent : (\E i \in Pos' : ExitAt(i, o)') \/ told'[o] # << >> \/ o \in evicted'
                        \/ (o \notin adopted' /\ o # active'.og)
    BY <1>1, <1>2, <2>2, <2>3, <2>4 DEF OpenInv, KeptInv
  <2> QED
    BY <1>1, <2>1, <2>5 DEF KeptInv
<1>21. PaintInv'
  BY <1>1, <1>4, <1>5, <1>11, <1>18 DEF OpenInv, PaintInv
<1> QED
  BY <1>10, <1>12, <1>13, <1>14, <1>15, <1>16, <1>17, <1>19, <1>20, <1>21 DEF OpenInv

\* A commit whose token is current is the published binding's own.
LEMMA CommitOwn ==
    ASSUME TypeInv, OpenInv, pc = "commit", TokenCurrent
    PROVE  line.src = active.og
<1>1. Committing
  BY DEF Committing
<1>2. /\ line.id = route.id /\ route.id \in Sess /\ 0 \in Pos /\ At(0) = line
      /\ Tag(line) # 0 => line.src = route.og
      /\ Tag(line) = 0 => line.kind = "grid" /\ line.echo = 0 /\ line.live = 0
  BY <1>1, CommitMeans DEF OpenInv
<1>3. post # NoToken /\ post.epoch <= rEpoch /\ route.confirmed
  BY <1>1 DEF OpenInv, HandInv
<1>4. active.id # NoSess /\ post.epoch = active.epoch
  BY <1>3 DEF TokenCurrent, SharedToken, Token
<1>5. rEpoch = active.epoch
  <2>1. rEpoch \in Nat /\ active.epoch \in Nat /\ rEpoch <= active.epoch
    BY StreamRouteAssumption DEF TypeInv, UiTyped, ReaderTyped
  <2> QED
    BY <1>3, <1>4, <2>1
<1>6. route.og = active.og /\ route.id = active.id
  BY <1>5 DEF OpenInv, RouteInv
<1>7. ~ Stale(line)
  BY <1>2, <1>3, <1>4, <1>6 DEF OpenInv, StaleInv
<1> QED
  BY <1>2, <1>6, <1>7 DEF Stale

\* The line in the reader's hand is committed.
LEMMA CommitKeeps ==
    ASSUME TypeInv, OpenInv, Commit
    PROVE  OpenInv'
<1>1. /\ pc = "commit" /\ pc' = "top" /\ Committing /\ ~ InHand /\ ~ InHand' /\ ~ Committing'
      /\ UNCHANGED <<active, nextOg, att, fwd, gen, sent, wire, rEpoch, retired, adopted, evicted>>
  BY DEF Commit, uiVars, daemonVars, InHand, Committing
<1>2. /\ route'.og = route.og /\ route'.id = route.id /\ route'.gen = route.gen
      /\ route'.confirmed = route.confirmed
  <2>1. route \in RouteSet
    BY DEF TypeInv, ReaderTyped
  <2> QED
    BY <2>1 DEF Commit, CommitGrid, CommitDamage, CommitExit, RouteSet
<1>3. /\ route.og \in Ogs /\ route.gen \in Gens /\ line \in Lines /\ 0 \in Pos /\ At(0) = line
      /\ line.id = route.id /\ route.id \in Sess
      /\ line.kind # "grid" => line.live = route.og
      /\ Tag(line) # 0 => Tag(line) = route.og
  BY <1>1, CommitMeans DEF OpenInv
<1>4. /\ Len(wire) \in Nat /\ Pos' = Pos \ {0} /\ \A i \in Pos' : i \in Pos /\ At(i)' = At(i)
  BY <1>1, StreamDrops
<1>5. /\ line.kind = "exit" => ~ route.exited /\ told[route.og] = << >>
      /\ line.echo # 0 => ~ route.exited
  <2>1. line.echo # 0 => line.echo = route.og
    BY <1>3 DEF Tag
  <2> QED
    BY <1>3, <2>1 DEF OpenInv, ExitInv
<1>6. TokenCurrent => line.src = active.og
  BY <1>1, CommitOwn
\* What is painted.
<1>7. /\ grid' = grid \/ grid' = active.og
      /\ exitShown' = exitShown \/ exitShown' = active.og
      /\ line.echo = active.og /\ active.id # NoSess => grid' = active.og
  <2>1. grid' = grid \/ grid' = active.og
    BY <1>6 DEF Commit, CommitGrid, CommitDamage, CommitExit
  <2>2. exitShown' = exitShown \/ exitShown' = active.og
    BY <1>6 DEF Commit, CommitGrid, CommitDamage, CommitExit
  <2>3. ASSUME line.echo = active.og, active.id # NoSess
        PROVE  grid' = active.og
    <3>1. active.og # 0
      BY <2>3, StreamRouteAssumption DEF TypeInv, UiTyped, IsBinding, Ogs
    <3>2. post = SharedToken(line.id) /\ post # NoToken
      BY <1>1, <2>3 DEF OpenInv, HandInv
    <3>3. post.id = line.id
      BY <3>2 DEF SharedToken, Token
    <3>4. TokenCurrent
      BY <2>3, <3>2, <3>3 DEF TokenCurrent
    <3>5. line.kind = "grid"
      BY <1>3, <2>3, <3>1 DEF Lines
    <3>6. CommitGrid
      BY <3>5 DEF Commit, CommitDamage, CommitExit
    <3> QED
      BY <1>5, <1>6, <2>3, <3>1, <3>4, <3>6 DEF CommitGrid
  <2> QED
    BY <2>1, <2>2, <2>3
\* What is told.
<1>8. /\ ToldStep /\ (line.kind = "exit" => told'[route.og] # << >>)
      /\ route'.exited => told'[route'.og] # << >>
  <2>1. CASE line.kind = "exit"
    <3>1. told' = [told EXCEPT ![route.og] = Append(@, route.gen)]
      BY <1>5, <2>1 DEF Commit, CommitGrid, CommitDamage, CommitExit
    <3>2. told \in [Ogs -> Seq(0 .. MaxGen)] /\ route.gen # 0
      BY <1>3, StreamRouteAssumption DEF TypeInv, ReaderTyped, Gens
    <3>3. told'[route.og] = <<route.gen>>
      <4>1. told'[route.og] = Append(told[route.og], route.gen)
        BY <1>3, <3>1, <3>2
      <4>2. told[route.og] = << >>
        BY <1>5, <2>1
      <4> QED
        BY <4>1, <4>2
    <3>4. told'[route.og] # << >> /\ Len(told'[route.og]) = 1 /\ told'[route.og][1] # 0
      BY <3>2, <3>3
    <3>5. \A o \in Ogs : o # route.og => told'[o] = told[o]
      BY <3>1, <3>2
    <3>6. line.live = route.og
      BY <1>3, <2>1
    <3>7. ToldStep
      BY <2>1, <3>4, <3>5, <3>6 DEF ToldStep
    <3> QED
      BY <1>2, <3>4, <3>7
  <2>2. CASE line.kind # "exit"
    <3>1. told' = told /\ (CommitGrid \/ CommitDamage)
      BY <2>2 DEF Commit, CommitGrid, CommitDamage, CommitExit
    <3>2. route'.exited => route.exited
      BY <3>1 DEF CommitGrid, CommitDamage, TypeInv, ReaderTyped, RouteSet
    <3> QED
      BY <1>2, <2>2, <3>1, <3>2 DEF ToldStep, OpenInv, ExitInv
  <2> QED
    BY <2>1, <2>2
\* What is queued.
<1>9. /\ \A i \in DOMAIN out : i \in DOMAIN out' /\ out'[i] = out[i]
      /\ \A i \in DOMAIN out' : i \in DOMAIN out \/ out'[i].op = "snapshot"
  <2>1. CASE out' = out
    BY <2>1
  <2>2. CASE out' = Append(out, Snapshot(line.id))
    <3>1. Snapshot(line.id) \in Requests /\ Snapshot(line.id).op = "snapshot"
      BY <1>3, StreamRouteAssumption DEF Snapshot, Requests
    <3>2. out \in Seq(Requests) /\ Len(out) \in Nat /\ DOMAIN out = 1 .. Len(out)
      BY LinesTyped DEF TypeInv, UiTyped
    <3>3. /\ out' \in Seq(Requests) /\ Len(out') = Len(out) + 1
          /\ \A i \in 1 .. Len(out) : out'[i] = out[i]
          /\ out'[Len(out) + 1] = Snapshot(line.id)
      BY <2>2, <3>1, <3>2, AppendTyped
    <3>4. DOMAIN out' = 1 .. Len(out')
      BY <3>3, LenProperties
    <3> QED
      BY <3>1, <3>2, <3>3, <3>4
  <2> QED
    BY <2>1, <2>2 DEF Commit, CommitGrid, CommitDamage, CommitExit
<1>10. NamesInv'
  <2>1. ASSUME NEW o \in Ogs, NEW t \in Sess, NEW g \in Gens, Names(o, t, g)'
        PROVE  Names(o, t, g)
    <3>1. CASE \E i \in DOMAIN out' : out'[i] = Attach(t, o, g)
      BY <1>9, <3>1 DEF Names, Attach
    <3>2. CASE \E i \in Pos' : (Tag(At(i)) = o /\ At(i).id = t /\ At(i).gen = g)'
      BY <1>4, <3>2 DEF Names, Tag
    <3>3. CASE /\ ~ \E i \in DOMAIN out' : out'[i] = Attach(t, o, g)
               /\ ~ \E i \in Pos' : (Tag(At(i)) = o /\ At(i).id = t /\ At(i).gen = g)'
      BY <1>1, <1>2, <2>1, <3>3 DEF Names
    <3> QED
      BY <3>1, <3>2, <3>3
  <2>2. NamesInv /\ nextOg \in Nat
    BY StreamRouteAssumption DEF OpenInv, TypeInv, UiTyped, Ogs
  <2> QED
    BY <1>1, <2>1, <2>2, NamesStep
<1>11. \A o : (Unserved(o)' <=> Unserved(o)) /\ (Refused(o)' <=> Refused(o))
  BY <1>1, <1>9 DEF Unserved, Refused
<1>12. FreshInv'
  <2>1. ASSUME NEW o \in Ogs, Fresh(o) PROVE Fresh(o)'
    <3>1. line.live # o
      <4>1. Tag(line) # o /\ o # 0
        BY <1>3, <2>1, StreamRouteAssumption DEF Fresh, Ogs
      <4> QED
        BY <1>3, <4>1 DEF Tag, Lines
    <3>2. told'[o] = << >>
      BY <1>8, <2>1, <3>1 DEF Fresh, ToldStep
    <3> QED
      BY <1>1, <1>2, <1>4, <2>1, <3>2 DEF Fresh, Tag
  <2>2. FreshInv /\ \A i, j \in DOMAIN out' :
              out'[i].op = "attach" /\ out'[j].op = "attach" /\ out'[i].og = out'[j].og => i = j
    BY <1>9 DEF OpenInv, FreshInv
  <2> QED
    BY <1>1, <1>11, <2>1, <2>2, FreshStep
<1>13. QueueInv'
  <2>1. \A i \in DOMAIN out' : out'[i].op # "snapshot" => i \in DOMAIN out
    BY <1>9
  <2>2. ASSUME NEW i \in DOMAIN out, \A j \in DOMAIN out : j > i => out[j].op = "snapshot"
        PROVE  \A j \in DOMAIN out' : j > i => out'[j].op = "snapshot"
    BY <1>9, <2>2
  <2> QED
    BY <1>1, <1>9, <1>11, <2>2 DEF OpenInv, QueueInv
<1>14. RouteInv'
  BY <1>1, <1>2 DEF OpenInv, RouteInv
<1>15. StaleInv'
  BY <1>1, <1>2, <1>4 DEF OpenInv, StaleInv, Stale
<1>16. HandInv'
  BY <1>1 DEF HandInv
<1>17. ExitInv'
  <2>1. route'.exited => route'.og # 0 /\ told'[route'.og] # << >>
    BY <1>2, <1>3, <1>8, StreamRouteAssumption DEF Ogs
  <2>2. \A i \in DOMAIN retired' : retired'[i].exited => told'[retired'[i].og] # << >>
    <3>1. \A i \in DOMAIN retired : retired[i].og \in Ogs
      BY StreamRouteAssumption DEF TypeInv, ReaderTyped, IsBinding
    <3>2. \A i \in DOMAIN retired : retired[i].exited => told[retired[i].og] # << >>
      BY DEF OpenInv, ExitInv
    <3> QED
      BY <1>1, <1>8, <3>1, <3>2 DEF ToldStep
  <2>3. ToldStep /\ \A i \in Pos' : At(i)' = At(i)
    BY <1>4, <1>8
  <2> QED
    BY <1>1, <1>4, <2>1, <2>2, <2>3, ExitStep
<1>18. EchoInv'
  <2>1. \A o : Confirmed(o) => Confirmed(o)'
    BY <1>1, <1>2 DEF Confirmed
  <2>2. \A o, k : Ahead(o, k) => Ahead(o, k)'
    BY <1>1, <1>4 DEF Ahead
  <2> QED
    BY <1>1, <1>4, <2>1, <2>2 DEF OpenInv, EchoInv
<1>19. KeptInv'
  <2>1. \A o \in sent : (\E i \in Pos : ExitAt(i, o)) =>
           (line.kind = "exit" /\ line.live = o) \/ (\E i \in Pos' : ExitAt(i, o)')
    BY <1>3, <1>4 DEF ExitAt
  <2>2. \A o \in sent : line.kind = "exit" /\ line.live = o => told'[o] # << >>
    BY <1>3, <1>8
  <2>3. \A o \in sent \cup adopted : told[o] # << >> => told'[o] # << >>
    BY <1>8 DEF ToldStep, TypeInv, DaemonTyped, ReaderTyped
  <2>4. \A o \in sent : (\E i \in Pos' : ExitAt(i, o)') \/ told'[o] # << >> \/ o \in evicted'
                        \/ (o \notin adopted' /\ o # active'.og)
    BY <1>1, <2>1, <2>2, <2>3 DEF OpenInv, KeptInv
  <2>5. \A o \in adopted \ evicted :
           o = route'.og \/ told'[o] # << >> \/ \E i \in DOMAIN retired : retired[i].og = o
    BY <1>2, <2>3 DEF OpenInv, KeptInv
  <2> QED
    BY <1>1, <2>4, <2>5 DEF KeptInv
<1>20. PaintInv' /\ PaintedByOwnRoute'
  <2>1. PaintInv'
    <3>1. (\E i \in Pos : At(i).echo = active.og) =>
             line.echo = active.og \/ (\E i \in Pos' : (At(i).echo = active.og)')
      BY <1>1, <1>3, <1>4
    <3> QED
      BY <1>1, <1>7, <1>11, <3>1 DEF OpenInv, PaintInv
  <2>2. PaintedByOwnRoute'
    BY <1>1, <1>7 DEF OpenInv, PaintedByOwnRoute
  <2> QED
    BY <2>1, <2>2
<1> QED
  BY <1>10, <1>12, <1>13, <1>14, <1>15, <1>16, <1>17, <1>18, <1>19, <1>20 DEF OpenInv

-----------------------------------------------------------------------------
(* The invariant. *)

LEMMA InitKeeps == Init => OpenInv
<1> SUFFICES ASSUME Init PROVE OpenInv
  OBVIOUS
<1>1. PICK s \in Sess :
        /\ active = [epoch |-> 1, id |-> s, og |-> 1, gen |-> 1]
        /\ nextOg = 1 /\ grid = 0 /\ exitShown = 0
        /\ out = <<Attach(s, 1, 1), Snapshot(s)>>
        /\ att = [x \in Sess |-> 0] /\ fwd = {}
        /\ wire = << >> /\ sent = {} /\ pc = "top" /\ rEpoch = 1
        /\ route = NewRoute(s, 1, 1) /\ retired = << >>
        /\ adopted = {1} /\ evicted = {} /\ told = [o \in Ogs |-> << >>]
  BY DEF Init
<1>2. /\ Pos = {} /\ ~ InHand /\ ~ Committing
  BY <1>1 DEF Pos, InHand, Committing
<1>3. /\ DOMAIN out = 1 .. 2 /\ out[1] = Attach(s, 1, 1) /\ out[2] = Snapshot(s)
      /\ DOMAIN wire = {} /\ DOMAIN retired = {} /\ Len(wire) = 0
  BY <1>1
<1>4. /\ \A i \in DOMAIN out : i = 1 \/ i = 2
      /\ 1 \in DOMAIN out /\ \A j \in DOMAIN out : j > 1 => j = 2
      /\ out[2].op = "snapshot" /\ out[1].op = "attach" /\ out[1].og = 1
  BY <1>3 DEF Attach, Snapshot
<1>5. /\ route.id = s /\ route.og = 1 /\ route.gen = 1 /\ ~ route.confirmed /\ ~ route.exited
      /\ s # NoSess
  BY <1>1, StreamRouteAssumption DEF NewRoute
<1>6. \A o \in Ogs : o \in Nat /\ o # 0 /\ told[o] = << >>
  BY <1>1, StreamRouteAssumption DEF Ogs
<1>7. NamesInv
  <2>1. ASSUME NEW o \in Ogs, NEW t \in Sess, NEW g \in Gens, Names(o, t, g)
        PROVE  o = 1 /\ t = s /\ g = 1
    <3>1. \A i \in DOMAIN out : out[i] = Attach(t, o, g) => o = 1 /\ t = s /\ g = 1
      BY <1>3, <1>4 DEF Attach
    <3>2. att[t] # o
      BY <1>1, <1>6
    <3> QED
      BY <1>1, <1>2, <1>3, <1>5, <2>1, <3>1, <3>2 DEF Names
  <2> QED
    BY <1>1, <2>1 DEF NamesInv
<1>8. FreshInv
  <2>1. \A o : ~ Refused(o) /\ (Unserved(o) => o = 1)
    BY <1>3, <1>4 DEF Refused, Unserved
  <2>2. \A o \in Ogs : Fresh(o)
    BY <1>1, <1>2, <1>5, <1>6 DEF Fresh
  <2>3. \A i, j \in DOMAIN out : out[i].op = "attach" /\ out[j].op = "attach" => i = j
    BY <1>4
  <2> QED
    BY <1>1, <2>1, <2>2, <2>3 DEF FreshInv
<1>9. QueueInv
  <2>1. out[1] = Attach(active.id, active.og, active.gen)
    BY <1>1, <1>3
  <2> QED
    BY <1>4, <2>1 DEF QueueInv
<1>10. RouteInv
  BY <1>1, <1>3, <1>5 DEF RouteInv
<1>11. StaleInv /\ HandInv
  BY <1>1, <1>2 DEF StaleInv, HandInv
<1>12. ExitInv
  BY <1>1, <1>2, <1>3, <1>5, <1>6 DEF ExitInv
<1>13. EchoInv /\ KeptInv
  BY <1>1, <1>2, <1>5 DEF EchoInv, KeptInv
<1>14. PaintInv /\ PaintedByOwnRoute
  BY <1>1, <1>4 DEF PaintInv, PaintedByOwnRoute, Unserved
<1> QED
  BY <1>7, <1>8, <1>9, <1>10, <1>11, <1>12, <1>13, <1>14 DEF OpenInv

\* A closed connection: only forwarders still stop.
LEMMA ClosedStep ==
    ASSUME TypeInv, ClosedInv, closed # "open", [Next]_vars
    PROVE  /\ UNCHANGED <<active, grid, exitShown, closed>>
           /\ (\E f \in fwd : AbortTakesHold(f)) \/ UNCHANGED vars
<1>1. CASE UNCHANGED vars
  BY <1>1 DEF vars, uiVars, paintVars
<1>2. CASE Next
  <2>1. \E f \in fwd : AbortTakesHold(f)
    BY <1>2 DEF Next, Reader, Bind, SessionEnds, Restart, Clear, Cleanup, Serve, ForwardFrame,
                ForwardExit, TopSync, ReadLine, PostToken, Dispatch, CloneReceipt, NoteGrid, Commit
  <2> QED
    BY <2>1 DEF AbortTakesHold, uiVars, paintVars
<1> QED
  BY <1>1, <1>2

\* The connection fails closed with a blank viewport.
LEMMA FailStep ==
    ASSUME TypeInv, OpenInv, closed = "open", closed' # "open", [Next]_vars
    PROVE  ClosedInv'
<1>1. \/ ReadLine \/ NoteGrid \/ Dispatch
  BY DEF vars, Next, Reader, Bind, SessionEnds, Restart, Clear, Cleanup, Serve, ForwardFrame,
         ForwardExit, AbortTakesHold, TopSync, PostToken, CloneReceipt, Commit
<1>2. ~ Dispatch
  BY DispatchOutcomes
<1>3. CASE ReadLine
  BY <1>3 DEF ReadLine, FailClosed, ClosedInv
<1>4. CASE NoteGrid
  BY <1>4 DEF NoteGrid, FailClosed, ClosedInv
<1> QED
  BY <1>1, <1>2, <1>3, <1>4

\* Every step of an open connection keeps the types.
LEMMA NextTyped ==
    ASSUME TypeInv, OpenInv, closed = "open", Next
    PROVE  TypeInv'
<1>1. ASSUME NEW s \in Sess, Bind(s) PROVE TypeInv'
  BY <1>1, BindTyped
<1>2. CASE \/ \E f \in fwd : \/ \E k \in {"damage", "grid"} : ForwardFrame(f, k)
                             \/ ForwardExit(f) \/ AbortTakesHold(f)
           \/ \E s \in Sess : SessionEnds(s) \/ Restart(s)
  BY <1>2, DaemonStepTyped
<1>3. CASE Clear \/ Cleanup \/ Serve
  BY <1>3, ClearTyped, CleanupTyped, ServeTyped
<1>4. CASE Reader
  <2>1. CASE TopSync \/ ReadLine \/ PostToken \/ Dispatch
    BY <2>1, TopSyncTyped, ReadLineTyped, PostTokenTyped, DispatchTyped
  <2>2. CASE CloneReceipt \/ NoteGrid \/ Commit
    BY <2>2, ReceiptTyped, CommitTyped DEF OpenInv
  <2> QED
    BY <1>4, <2>1, <2>2 DEF Reader
<1> QED
  BY <1>1, <1>2, <1>3, <1>4 DEF Next

\* Every step that leaves it open keeps the rest.
LEMMA NextKeeps ==
    ASSUME TypeInv, OpenInv, closed' = "open", Next
    PROVE  OpenInv'
<1>1. ASSUME NEW s \in Sess, Bind(s) PROVE OpenInv'
  BY <1>1, BindKeeps
<1>2. CASE \/ \E f \in fwd : AbortTakesHold(f)
           \/ \E s \in Sess : SessionEnds(s) \/ Restart(s)
  BY <1>2, QuietKeeps
<1>3. ASSUME NEW f \in fwd, (\E k \in {"damage", "grid"} : ForwardFrame(f, k)) \/ ForwardExit(f)
      PROVE  OpenInv'
  BY <1>3, ForwardKeeps
<1>4. CASE Clear \/ Cleanup \/ Serve
  BY <1>4, NeutralKeeps, ServeKeeps
<1>5. CASE Reader
  <2>1. CASE Dispatch
    BY <2>1, AcceptKeeps, DropKeeps
  <2>2. CASE TopSync \/ ReadLine \/ PostToken \/ CloneReceipt \/ NoteGrid \/ Commit
    BY <2>2, TopSyncKeeps, ReadLineKeeps, HoldKeeps, CommitKeeps
  <2> QED
    BY <1>5, <2>1, <2>2 DEF Reader
<1> QED
  BY <1>1, <1>2, <1>3, <1>4, <1>5 DEF Next

\* Nothing happens.
LEMMA StutterKeeps ==
    ASSUME Inv, UNCHANGED vars
    PROVE  Inv'
<1>1. UNCHANGED <<active, admission, nextOg, attached, owed, grid, exitShown, closed, out, att, fwd, gen,
                  ended, frames, sent, wire, pc, rEpoch, route, retired, adopted, evicted, told, line, pre,
                  post, proof>>
  BY DEF vars, uiVars, paintVars, daemonVars, localVars, lineVars
<1>2. TypeInv'
  BY <1>1 DEF Inv, TypeInv, UiTyped, DaemonTyped, ReaderTyped, InHand, Committing
<1>3. ClosedInv' <=> ClosedInv
  BY <1>1 DEF ClosedInv
<1>4. ASSUME OpenInv PROVE OpenInv'
  <2>1. Pos' = Pos /\ \A i \in Pos : At(i)' = At(i)
    BY <1>1, StreamStays
  <2>2. NamesInv' /\ FreshInv' /\ QueueInv'
    BY <1>1, <1>4 DEF OpenInv, NamesInv, FreshInv, QueueInv, Names, Fresh, Unserved, Refused, Tag, Pos, At,
                      InHand, Committing
  <2>3. RouteInv' /\ StaleInv' /\ HandInv'
    BY <1>1, <1>4 DEF OpenInv, RouteInv, StaleInv, HandInv, Stale, LocalToken, SharedToken, Accepts,
                      Authorized, Pos, At, InHand, Committing
  <2>4. ExitInv' /\ EchoInv'
    BY <1>1, <1>4 DEF OpenInv, ExitInv, ExitAt, EchoInv, Ahead, Confirmed, Pos, At, InHand, Committing
  <2>5. KeptInv' /\ PaintInv' /\ PaintedByOwnRoute'
    BY <1>1, <1>4 DEF OpenInv, KeptInv, ExitAt, PaintInv, Unserved, Refused, PaintedByOwnRoute, Pos, At,
                      InHand, Committing
  <2> QED
    BY <2>2, <2>3, <2>4, <2>5 DEF OpenInv
<1> QED
  BY <1>1, <1>2, <1>3, <1>4 DEF Inv

LEMMA StepInv == Inv /\ [Next]_vars => Inv'
<1> SUFFICES ASSUME Inv, [Next]_vars PROVE Inv'
  OBVIOUS
<1>1. TypeInv
  BY DEF Inv
<1>2. CASE UNCHANGED vars
  BY <1>2, StutterKeeps
<1>3. CASE Next /\ closed = "open"
  <2>1. OpenInv
    BY <1>3 DEF Inv
  <2>2. TypeInv'
    BY <1>1, <1>3, <2>1, NextTyped
  <2>3. closed' = "open" => OpenInv'
    BY <1>1, <1>3, <2>1, NextKeeps
  <2>4. closed' # "open" => ClosedInv'
    BY <1>1, <1>3, <2>1, FailStep
  <2> QED
    BY <2>2, <2>3, <2>4 DEF Inv
<1>4. CASE Next /\ closed # "open" /\ ~ UNCHANGED vars
  <2>1. ClosedInv
    BY <1>4 DEF Inv
  <2>2. UNCHANGED <<active, grid, exitShown, closed>> /\ \E f \in fwd : AbortTakesHold(f)
    BY <1>1, <1>4, <2>1, ClosedStep
  <2>3. TypeInv'
    BY <1>1, <2>2, DaemonStepTyped
  <2> QED
    BY <1>4, <2>1, <2>2, <2>3 DEF Inv, ClosedInv
<1> QED
  BY <1>2, <1>3, <1>4

LEMMA Invariance == Spec => []Inv
<1>1. Init => Inv
  <2> SUFFICES ASSUME Init PROVE Inv
    OBVIOUS
  <2>1. closed = "open"
    BY DEF Init
  <2> QED
    BY <2>1, InitTyped, InitKeeps DEF Inv
<1> QED
  BY <1>1, StepInv, PTL DEF Spec

-----------------------------------------------------------------------------
(* What the invariant says. *)

\* The type invariant of the renderer's and the daemon's state.
THEOREM RouteTyped == Spec => []TypeOK
<1>1. Inv => TypeOK
  BY PartsTyped DEF Inv
<1> QED
  BY <1>1, Invariance, PTL

\* Whatever the user switches and however the old forwarders' lines and the late
\* Snapshot replies interleave, the grid and the exit on screen were caused by
\* the published binding's own Attach (commit_active_grid, commit_active_exit).
THEOREM OwnRoutePaints == Spec => []PaintedByOwnRoute
<1>1. Inv => PaintedByOwnRoute
  BY DEF Inv, OpenInv, ClosedInv, PaintedByOwnRoute
<1> QED
  BY <1>1, Invariance, PTL

\* The daemon keeps serving the published binding: the Detaches that
\* try_bind_viewport owes are ahead of the Attach, never behind it.
THEOREM BindingStaysServed == Spec => []RouteStaysAttached
<1>1. ASSUME Inv PROVE RouteStaysAttached
  <2>1. CASE closed # "open"
    BY <1>1, <2>1 DEF Inv, ClosedInv, RouteStaysAttached
  <2>2. CASE closed = "open" /\ active.id # NoSess
    <3>1. /\ \A r : r.op = "snapshot" => r # Detach(active.id)
          /\ \A r : r = Attach(active.id, active.og, active.gen) => r.op = "attach" /\ r.og = active.og
      BY DEF Detach, Attach
    <3>2. QueueInv
      BY <1>1, <2>2 DEF Inv, OpenInv
    <3> QED
      BY <2>2, <3>1, <3>2 DEF QueueInv, RouteStaysAttached, Refused
  <2> QED
    BY <2>1, <2>2 DEF RouteStaysAttached
<1> QED
  BY <1>1, Invariance, PTL

\* An exit line is notified exactly once, under the generation that exited, to
\* every binding the reader has adopted, also when a clear or a switch retired
\* the binding first (RetiredExitBindings).
THEOREM ExitsToldOnce == Spec => []ExitToldOnce
<1>1. ASSUME Inv, closed = "open", NEW o \in Ogs
      PROVE  /\ Len(told[o]) <= 1
             /\ told[o] # << >> => o \in sent /\ told[o][1] # 0
             /\ o \in (sent \cap adopted) \ evicted => ExitInFlight(o) \/ told[o] # << >>
  <2>1. ExitInv /\ KeptInv /\ TypeInv
    BY <1>1 DEF Inv, OpenInv
  <2>2. Len(told[o]) <= 1
    <3>1. CASE told[o] = << >>
      BY <3>1
    <3>2. CASE told[o] # << >>
      <4>1. Len(told[o]) = 1
        BY <2>1, <3>2 DEF ExitInv
      <4> QED
        BY <4>1
    <3> QED
      BY <3>1, <3>2
  <2>3. (\E i \in Pos : ExitAt(i, o)) => ExitInFlight(o)
    <3> SUFFICES ASSUME NEW i \in Pos, ExitAt(i, o) PROVE ExitInFlight(o)
      OBVIOUS
    <3>1. CASE i = 0
      <4>1. line.kind = "exit" /\ line.live = o /\ (InHand \/ Committing)
        BY <3>1 DEF ExitAt, At, Pos
      <4>2. pc \in {"post", "dispatch", "commit"}
        BY <1>1, <2>1, <4>1 DEF Inv, OpenInv, HandInv, InHand, Committing
      <4> QED
        BY <4>1, <4>2 DEF ExitInFlight
    <3>2. CASE i # 0
      <4>1. i \in DOMAIN wire
        BY <2>1, <3>2, LinesTyped DEF Pos
      <4> QED
        BY <3>2, <4>1 DEF ExitAt, At, ExitInFlight
    <3> QED
      BY <3>1, <3>2
  <2> QED
    BY <2>1, <2>2, <2>3 DEF ExitInv, KeptInv
<1>2. Inv => ExitToldOnce
  BY <1>1 DEF ExitToldOnce
<1> QED
  BY <1>2, Invariance, PTL

\* A stale line is inert: no line of an old binding is ever taken for a
\* contradiction of the replacement or of a retired binding.
THEOREM StaleLinesInert == Spec => []StaleIsInert
<1>1. Inv => StaleIsInert
  BY DEF Inv, TypeInv, UiTyped, StaleIsInert
<1> QED
  BY <1>1, Invariance, PTL

\* No echo is dropped: with every request served and every line read, the
\* published binding is on screen.
THEOREM EchoIsPainted == Spec => []EchoPaints
<1>1. ASSUME Inv PROVE EchoPaints
  <2> SUFFICES ASSUME closed = "open", active.id # NoSess, out = << >>, wire = << >>, pc = "read"
               PROVE  grid = active.og
    BY DEF EchoPaints
  <2>1. Pos = {} /\ DOMAIN out = {} /\ DOMAIN wire = {}
    BY DEF Pos, InHand, Committing
  <2> QED
    BY <1>1, <2>1 DEF Inv, OpenInv, PaintInv, Unserved, Refused
<1> QED
  BY <1>1, Invariance, PTL
=============================================================================
