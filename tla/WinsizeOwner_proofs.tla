------------------------- MODULE WinsizeOwner_proofs -------------------------
(***************************************************************************)
(* Proofs about WinsizeOwner, for any connections, sessions and bounds: a  *)
(* late reclaim takes away only what its snapshot knew of, a deferred      *)
(* Attach takes ownership only while nothing superseded it, a creation     *)
(* lease is held only for a browser still to view its pane, and the        *)
(* writer's memory of the files is right whenever it believes that it      *)
(* published.                                                              *)
(***************************************************************************)
EXTENDS WinsizeOwner, FiniteSetTheorems, WellFoundedInduction, TLAPS

ClaimSet == [c : Conn \cup {NoConn}, s : Sess \cup {NoSess}, g : Gens]

(* Types in parts. *)
OwnerTyped ==
    /\ override \in {"none", "local", "remote"}
    /\ viewed \in ClaimSet
    /\ leases \subseteq [c : Conn, s : Sess, ttl : 1 .. Lease, g : Gens \ {0}]
    /\ IsFiniteSet(leases)
    /\ pending \in [c : Conn \cup {NoConn}, s : Sess \cup {NoSess}, g : Gens, rec : BOOLEAN]
    /\ (pending.rec => pending.s \in Sess)
    /\ nextGen \in 1 .. MaxGen + 1
    /\ reclaimed \subseteq Sess
    /\ zeroAge \in 0 .. Grace
FileTyped ==
    /\ dirty \in BOOLEAN /\ polling \in BOOLEAN
    /\ disk \in [sessions : SUBSET Sess, owner : {"local", "remote"}]
    /\ published \in [sessions : SUBSET Sess, owner : {"none", "local", "remote"}]
    /\ faults \in 0 .. MaxFaults /\ restarts \in 0 .. MaxRestarts
LinkTyped ==
    /\ conn \in [Conn -> {"new", "up", "cleared", "detached", "gone"}]
    /\ op \in [Conn -> [kind : {"idle", "publish", "resize", "note", "create", "undo"},
                        s : Sess \cup {NoSess}, viewed : BOOLEAN]]
    /\ route \in [Conn -> [Sess -> {"none", "pending", "confirmed"}]]
    /\ token \in [Conn -> [Sess -> [g : Gens, ok : BOOLEAN]]]
HostTyped ==
    /\ adapter \in [Sess -> Gens]
    /\ held \in [Sess -> [exact : BOOLEAN, shown : SUBSET ClaimSet, reserved : SUBSET ClaimSet]]

(* A call that is under way names a session, unless it only has to publish. *)
Named(o) == o.kind \notin {"idle", "publish"} => o.s \in Sess
OpNamed == \A c \in Conn : Named(op[c])

TypeInv == OwnerTyped /\ FileTyped /\ LinkTyped /\ HostTyped /\ OpNamed

(* Generations are issued in order, and at most one Attach is pending: the one *)
(* that holds its token, on a connection whose bridge is open.                 *)
GensBelow ==
    /\ viewed.g < nextGen /\ pending.g < nextGen
    /\ \A l \in leases : l.g < nextGen
    /\ \A c \in Conn, s \in Sess : token[c][s].g < nextGen
PendingOwn ==
    /\ pending.g = 0 => pending = NoPending
    /\ pending.g # 0 =>
         /\ pending.c \in Conn /\ pending.s \in Sess /\ conn[pending.c] \in {"up", "cleared"}
         /\ token[pending.c][pending.s].g = pending.g /\ override # "local"
         /\ viewed.g # pending.g /\ \A l \in leases : l.g # pending.g
TokenOwn ==
    \A c \in Conn, s \in Sess :
        token[c][s].g # 0 /\ token[c][s].g = pending.g =>
            token[c][s].ok /\ pending.c = c /\ pending.s = s
LeaseInv == LeaseAwaitsViewing /\ (override = "local" => leases = {})

AuthorityInv == GensBelow /\ PendingOwn /\ TokenOwn /\ LeaseInv

(* What a snapshot that is still exact knows.  The claims on a pane, seen or   *)
(* hidden by an override or by an absence, are those it knew of or are newer   *)
(* than the generation it stands for; and if the pane lapsed, none of its      *)
(* claims has that generation, except one that stays hidden until it rotates.  *)
Hidden == override = "local" \/ ~ Present
Standing(s) ==
    {x \in {viewed} : x.s = s /\ x.g # 0}
    \cup {Claim(l.c, l.s, l.g) : l \in {k \in leases : k.s = s}}
KnowsClaims(s) ==
    \A x \in Standing(s) \cup Reservations(s) :
        x \in held[s].shown \cup held[s].reserved \/ x.g > adapter[s]
LapsedIsHidden(s) ==
    s \in lapsed => \A x \in Standing(s) : x.g = adapter[s] => s \notin reclaimed /\ Hidden
ExactFor(s) ==
    held[s].exact =>
        /\ adapter[s] # 0 /\ adapter[s] < nextGen
        /\ \A x \in Reservations(s) : x.g # adapter[s]
        /\ KnowsClaims(s) /\ LapsedIsHidden(s)
ExactInv == \A s \in Sess : ExactFor(s)

Inv == TypeInv /\ AuthorityInv /\ ExactInv /\ ReclaimIsCurrent

-----------------------------------------------------------------------------
(* Generations and sets of leases. *)

\* The smaller of two numbers.
LEMMA MinPair ==
    ASSUME NEW a \in Int, NEW b \in Int
    PROVE  Min({a, b}) = IF a <= b THEN a ELSE b
<1>1. CASE a <= b
  <2>1. \E x \in {a, b} : \A y \in {a, b} : x <= y
    BY <1>1
  <2>2. Min({a, b}) \in {a, b} /\ \A y \in {a, b} : Min({a, b}) <= y
    BY <2>1 DEF Min
  <2> QED
    BY <1>1, <2>2
<1>2. CASE ~ (a <= b)
  <2>1. \E x \in {a, b} : \A y \in {a, b} : x <= y
    BY <1>2
  <2>2. Min({a, b}) \in {a, b} /\ \A y \in {a, b} : Min({a, b}) <= y
    BY <2>1 DEF Min
  <2> QED
    BY <1>2, <2>2
<1> QED
  BY <1>1, <1>2

\* What the allocator hands out, and where it stands afterwards.
LEMMA AfterOne ==
    ASSUME nextGen \in 1 .. MaxGen + 1
    PROVE  /\ MaxGen \in Nat /\ nextGen \in Nat
           /\ After(1) \in nextGen .. MaxGen + 1
           /\ ~ Exhausted => nextGen \in Gens \ {0} /\ After(1) = nextGen + 1
           /\ Issued \in Gens /\ (Issued # 0 => Issued = nextGen /\ nextGen < After(1))
<1>1. After(1) = IF nextGen + 1 <= MaxGen + 1 THEN nextGen + 1 ELSE MaxGen + 1
  BY MinPair, WinsizeOwnerAssumption DEF After
<1> QED
  BY <1>1, WinsizeOwnerAssumption DEF Exhausted, Issued, Gens

\* A nonempty set of generations has a largest member.
LEMMA MaxIsLargest ==
    ASSUME NEW S \in SUBSET Gens, S # {}
    PROVE  Max(S) \in S /\ \A y \in S : Max(S) >= y
<1> DEFINE T == {MaxGen - x : x \in S}
<1>1. MaxGen \in Nat
  BY WinsizeOwnerAssumption
<1>2. T \subseteq Nat /\ T # {}
  <2>1. \A x \in S : MaxGen - x \in Nat
    BY <1>1 DEF Gens
  <2> QED
    BY <2>1
<1>3. PICK m \in T : \A y \in T : ~ (<<y, m>> \in OpToRel(<, Nat))
  BY <1>2, NatLessThanWellFounded, WFMin
<1>4. PICK x \in S : m = MaxGen - x
  OBVIOUS
<1>5. \A y \in S : x >= y
  <2> TAKE y \in S
  <2>1. MaxGen - y \in T /\ MaxGen - y \in Nat /\ m \in Nat
    BY <1>2
  <2>2. ~ (MaxGen - y < m)
    BY <1>3, <2>1 DEF OpToRel
  <2> QED
    BY <1>1, <1>4, <2>1, <2>2 DEF Gens
<1> QED
  BY <1>5 DEF Max

\* The image of a finite set is finite.
LEMMA ImageFinite ==
    ASSUME NEW S, NEW f, IsFiniteSet(S)
    PROVE  IsFiniteSet({f[x] : x \in S})
<1> DEFINE T == {f[x] : x \in S}
           h == [x \in S |-> f[x]]
<1>1. h \in Surjection(S, T)
  BY DEF Surjection
<1> HIDE DEF h
<1> QED
  BY <1>1, FS_Surjection

\* A new slot after an absence gives every claim it uncovers a new generation.
LEMMA RefreshFacts ==
    ASSUME OwnerTyped, Refresh
    PROVE  /\ nextGen' \in nextGen .. MaxGen + 1
           /\ viewed'.c = viewed.c /\ viewed'.s = viewed.s /\ viewed' \in ClaimSet
           /\ viewed.s \in Sess \ reclaimed => viewed'.g = 0 \/ (nextGen <= viewed'.g /\ viewed'.g < nextGen')
           /\ viewed.s \notin Sess \ reclaimed => viewed' = viewed
           /\ leases' \subseteq [c : Conn, s : Sess, ttl : 1 .. Lease, g : Gens \ {0}]
           /\ IsFiniteSet(leases')
           /\ \A l \in leases' : \/ l \in leases /\ l.s \in reclaimed
                                 \/ /\ l.s \notin reclaimed /\ nextGen <= l.g /\ l.g < nextGen'
                                    /\ \E k \in leases : l.c = k.c /\ l.s = k.s
<1> DEFINE v    == viewed.s # NoSess /\ viewed.s \notin reclaimed
           base == IF v THEN After(1) ELSE nextGen
           live == {l \in leases : l.s \notin reclaimed}
           New(l) == base + Cardinality({k \in live : k.g < l.g})
           n == Cardinality(live)
<1>1. /\ viewed' = IF v THEN [viewed EXCEPT !.g = Issued] ELSE viewed
      /\ leases' = IF live # {} /\ base + n > MaxGen + 1 THEN {}
                   ELSE (leases \ live) \cup {[l EXCEPT !.g = New(l)] : l \in live}
      /\ nextGen' = Min({base + n, MaxGen + 1})
  BY DEF Refresh
<1>2. nextGen \in 1 .. MaxGen + 1 /\ MaxGen \in Nat /\ nextGen \in Nat
  BY WinsizeOwnerAssumption DEF OwnerTyped
<1>3. base \in nextGen .. MaxGen + 1 /\ base \in Nat
  BY <1>2, AfterOne
<1>4. IsFiniteSet(live) /\ n \in Nat
  BY FS_Subset, FS_CardinalityType DEF OwnerTyped
<1>5. /\ nextGen' = IF base + n <= MaxGen + 1 THEN base + n ELSE MaxGen + 1
      /\ nextGen' \in base .. MaxGen + 1
  <2>1. base + n \in Int /\ MaxGen + 1 \in Int
    BY <1>2, <1>3, <1>4
  <2>2. nextGen' = IF base + n <= MaxGen + 1 THEN base + n ELSE MaxGen + 1
    BY <1>1, <2>1, MinPair
  <2> QED
    BY <1>2, <1>3, <1>4, <2>2
<1>6. nextGen' \in nextGen .. MaxGen + 1
  BY <1>2, <1>3, <1>5
<1>7. /\ viewed'.c = viewed.c /\ viewed'.s = viewed.s /\ viewed' \in ClaimSet
      /\ v => viewed'.g = Issued
      /\ ~ v => viewed' = viewed
  BY <1>1, <1>2, AfterOne DEF OwnerTyped, ClaimSet
<1>8. v => viewed'.g = 0 \/ (nextGen <= viewed'.g /\ viewed'.g < nextGen')
  <2> HAVE v
  <2>1. viewed'.g = Issued /\ base = After(1)
    BY <1>7
  <2> HIDE DEF base, live, n
  <2>2. Issued # 0 => Issued = nextGen /\ nextGen < base
    BY <1>2, <2>1, AfterOne
  <2> QED
    BY <1>2, <1>3, <1>5, <2>1, <2>2
<1>9. viewed.s \in Sess \ reclaimed <=> v
  BY WinsizeOwnerAssumption DEF OwnerTyped, ClaimSet
<1>10. \A l \in live : New(l) \in base .. (base + n - 1)
  <2> TAKE l \in live
  <2> DEFINE U == {k \in live : k.g < l.g}
  <2>1. l \notin U
    <3>1. l.g \in Nat
      BY DEF OwnerTyped, Gens
    <3> QED
      BY <3>1
  <2>2. U \subseteq live \ {l} /\ IsFiniteSet(live \ {l}) /\ Cardinality(live \ {l}) = n - 1
    BY <1>4, <2>1, FS_RemoveElement
  <2> HIDE DEF U, live
  <2>3. Cardinality(U) \in Nat /\ Cardinality(U) <= n - 1
    BY <2>2, FS_Subset, FS_CardinalityType
  <2>4. New(l) = base + Cardinality(U)
    BY DEF U
  <2> QED
    BY <1>3, <1>4, <2>3, <2>4
<1>11. CASE live # {} /\ base + n > MaxGen + 1
  <2>1. leases' = {}
    BY <1>1, <1>11
  <2> QED
    BY <1>6, <1>7, <1>8, <1>9, <2>1, FS_EmptySet
<1>12. CASE ~ (live # {} /\ base + n > MaxGen + 1)
  <2> DEFINE new == {[l EXCEPT !.g = New(l)] : l \in live}
  <2>1. leases' = (leases \ live) \cup new
    BY <1>1, <1>12
  <2>2. IsFiniteSet(new)
    <3> DEFINE f == [l \in live |-> [l EXCEPT !.g = New(l)]]
    <3>1. {f[l] : l \in live} = new
      OBVIOUS
    <3> HIDE DEF f, live, new
    <3> QED
      BY <1>4, <3>1, ImageFinite
  <2>3. IsFiniteSet(leases')
    BY <2>1, <2>2, FS_Union, FS_Subset DEF OwnerTyped
  <2>4. \A l \in new : /\ l \in [c : Conn, s : Sess, ttl : 1 .. Lease, g : Gens \ {0}]
                       /\ l.s \notin reclaimed /\ nextGen <= l.g /\ l.g < nextGen'
                       /\ \E k \in leases : l.c = k.c /\ l.s = k.s
    <3> SUFFICES ASSUME NEW k \in live
                 PROVE  /\ [k EXCEPT !.g = New(k)] \in [c : Conn, s : Sess, ttl : 1 .. Lease, g : Gens \ {0}]
                        /\ [k EXCEPT !.g = New(k)].s = k.s /\ [k EXCEPT !.g = New(k)].c = k.c
                        /\ [k EXCEPT !.g = New(k)].g = New(k)
                        /\ nextGen <= New(k) /\ New(k) < nextGen'
      <4>2. \A k \in live : k \in leases /\ k.s \notin reclaimed
        OBVIOUS
      <4> HIDE DEF live, New
      <4> QED
        BY <4>2
    <3>1. live # {} /\ k \in leases
      OBVIOUS
    <3>2. ~ (base + n > MaxGen + 1)
      BY <1>12, <3>1
    <3>3. New(k) \in base .. (base + n - 1)
      BY <1>10
    <3>4. k \in [c : Conn, s : Sess, ttl : 1 .. Lease, g : Gens \ {0}]
      BY <3>1 DEF OwnerTyped
    <3> HIDE DEF base, n, New, live
    <3>5. New(k) \in Gens \ {0} /\ nextGen <= New(k) /\ New(k) < nextGen'
      BY <1>2, <1>3, <1>4, <1>5, <3>2, <3>3 DEF Gens
    <3> QED
      BY <3>4, <3>5
  <2>5. \A l \in leases \ live : l \in leases /\ l.s \in reclaimed
    OBVIOUS
  <2> HIDE DEF new, live
  <2>6. leases' \subseteq [c : Conn, s : Sess, ttl : 1 .. Lease, g : Gens \ {0}]
    BY <2>1, <2>4 DEF OwnerTyped
  <2>7. \A l \in leases' : \/ l \in leases /\ l.s \in reclaimed
                           \/ /\ l.s \notin reclaimed /\ nextGen <= l.g /\ l.g < nextGen'
                              /\ \E k \in leases : l.c = k.c /\ l.s = k.s
    BY <2>1, <2>4, <2>5
  <2> QED
    BY <1>6, <1>7, <1>8, <1>9, <2>3, <2>6, <2>7
<1> QED
  BY <1>11, <1>12

-----------------------------------------------------------------------------
(* Types. *)

\* What a pending Attach gives back is a session.
LEMMA RestoredTyped == OwnerTyped => Restored \subseteq Sess /\ reclaimed \subseteq Restored
BY DEF OwnerTyped, Restored

\* The set of claims on a pane.
LEMMA ClaimsTyped ==
    ASSUME OwnerTyped, NEW s \in Sess
    PROVE  /\ Standing(s) \subseteq ClaimSet /\ Reservations(s) \subseteq ClaimSet
           /\ Claims(s) = IF Hidden \/ s \in reclaimed THEN {} ELSE Standing(s)
<1>1. \A l \in leases : l.c \in Conn /\ l.s \in Sess /\ l.g \in Gens
  BY DEF OwnerTyped
<1>2. pending.c \in Conn \cup {NoConn} /\ pending.s \in Sess \cup {NoSess} /\ pending.g \in Gens
  BY DEF OwnerTyped
<1>3. Standing(s) \subseteq ClaimSet
  BY <1>1 DEF Standing, OwnerTyped, Claim, ClaimSet
<1>4. Reservations(s) \subseteq ClaimSet
  BY <1>2 DEF Reservations, Claim, ClaimSet
<1> QED
  BY <1>3, <1>4 DEF Claims, Standing, Hidden

\* The owner state after a step of a connection.
LEMMA ConnOwnerTyped ==
    ASSUME TypeInv, NEW c \in Conn, ConnStep(c)
    PROVE  OwnerTyped'
<1>1. OwnerTyped /\ LinkTyped /\ OpNamed
  BY DEF TypeInv
<1>2. Restored \subseteq Sess
  BY <1>1, RestoredTyped
<1>3. /\ nextGen \in 1 .. MaxGen + 1 /\ MaxGen \in Nat /\ nextGen \in Nat
      /\ After(1) \in 1 .. MaxGen + 1
      /\ (~ Exhausted => nextGen \in Gens \ {0} /\ After(1) = nextGen + 1)
      /\ Issued \in Gens
  BY <1>1, AfterOne DEF OwnerTyped
<1>4. NoPending \in [c : Conn \cup {NoConn}, s : Sess \cup {NoSess}, g : Gens, rec : BOOLEAN]
      /\ ~ NoPending.rec
  BY <1>3 DEF NoPending, Gens
<1>5. \A L \in SUBSET leases : IsFiniteSet(L)
  BY <1>1, FS_Subset DEF OwnerTyped
<1>6. CASE UNCHANGED ownerVars
  BY <1>1, <1>6 DEF ownerVars, OwnerTyped
<1>7. CASE Connect(c)
  <2>1. zeroAge' = 0 /\ UNCHANGED <<override, pending, reclaimed>>
    BY <1>7 DEF Connect
  <2>2. CASE Refresh
    <3>1. nextGen' \in 1 .. MaxGen + 1
      BY <1>1, <1>3, <2>2, RefreshFacts
    <3> QED
      BY <1>1, <2>1, <2>2, <3>1, RefreshFacts, WinsizeOwnerAssumption DEF OwnerTyped
  <2>3. CASE UNCHANGED <<viewed, leases, nextGen>>
    BY <1>1, <2>1, <2>3, WinsizeOwnerAssumption DEF OwnerTyped
  <2> QED
    BY <1>7, <2>2, <2>3 DEF Connect
<1>8. CASE \E v \in {"local", "remote"} : SetSelected(c, v)
  <2>1. PICK v \in {"local", "remote"} : SetSelected(c, v)
    BY <1>8
  <2>2. /\ override' \in {"none", "local", "remote"} /\ zeroAge' = zeroAge
        /\ pending' \in {pending, NoPending} /\ leases' \in {leases, {}}
        /\ reclaimed' \in {{}, Restored, reclaimed}
        /\ \/ viewed' = [viewed EXCEPT !.g = Issued] /\ nextGen' = After(1)
           \/ UNCHANGED <<viewed, nextGen>>
    BY <2>1 DEF SetSelected
  <2>3. viewed' \in ClaimSet /\ nextGen' \in 1 .. MaxGen + 1
    BY <1>1, <1>3, <2>2 DEF OwnerTyped, ClaimSet
  <2>4. reclaimed' \subseteq Sess
    BY <1>1, <1>2, <2>2 DEF OwnerTyped
  <2>5. leases' \subseteq leases /\ IsFiniteSet(leases')
    BY <1>5, <2>2
  <2>6. pending' \in [c : Conn \cup {NoConn}, s : Sess \cup {NoSess}, g : Gens, rec : BOOLEAN]
        /\ (pending'.rec => pending'.s \in Sess)
    BY <1>1, <1>4, <2>2 DEF OwnerTyped
  <2> QED
    BY <1>1, <2>2, <2>3, <2>4, <2>5, <2>6 DEF OwnerTyped
<1>9. CASE \E s \in Sess : AttachViewed(c, s)
  <2>1. PICK s \in Sess : AttachViewed(c, s)
    BY <1>9
  <2>2. /\ ~ Exhausted /\ nextGen' = After(1)
        /\ UNCHANGED <<override, viewed, leases, zeroAge>>
        /\ \/ pending' = NoPending /\ reclaimed' = Restored
           \/ /\ pending' = [c |-> c, s |-> s, g |-> nextGen, rec |-> s \in Restored]
              /\ reclaimed' = Restored \ {s}
    BY <2>1 DEF AttachViewed
  <2>3. pending' \in [c : Conn \cup {NoConn}, s : Sess \cup {NoSess}, g : Gens, rec : BOOLEAN]
        /\ (pending'.rec => pending'.s \in Sess)
    <3> DEFINE P == [c : Conn \cup {NoConn}, s : Sess \cup {NoSess}, g : Gens, rec : BOOLEAN]
    <3>1. \A b \in BOOLEAN : [c |-> c, s |-> s, g |-> nextGen, rec |-> b] \in P
      BY <1>3, <2>2
    <3>2. (s \in Restored) \in BOOLEAN
      OBVIOUS
    <3>3. [c |-> c, s |-> s, g |-> nextGen, rec |-> s \in Restored] \in P
      BY <3>1, <3>2, Zenon
    <3> QED
      BY <1>4, <2>2, <3>3
  <2>4. reclaimed' \subseteq Sess /\ nextGen' \in 1 .. MaxGen + 1
    BY <1>2, <1>3, <2>2
  <2> QED
    BY <1>1, <2>2, <2>3, <2>4 DEF OwnerTyped
<1>10. CASE \E S \in SUBSET Sess : Cancel(c, S) /\ UNCHANGED <<override, viewed, leases, nextGen, zeroAge>>
  <2>1. /\ UNCHANGED <<override, viewed, leases, nextGen, zeroAge>>
        /\ pending' \in {pending, NoPending} /\ reclaimed' \in {reclaimed, Restored}
    BY <1>10 DEF Cancel
  <2> QED
    BY <1>1, <1>2, <1>4, <2>1 DEF OwnerTyped
<1>11. CASE \E s \in Sess : Grid(c, s)
  <2>1. PICK s \in Sess : Grid(c, s)
    BY <1>11
  <2>2. /\ UNCHANGED <<override, nextGen, zeroAge>>
        /\ pending' \in {pending, NoPending} /\ reclaimed' \in {reclaimed, Restored, reclaimed \ {s}}
        /\ viewed' \in {viewed, Claim(c, s, token[c][s].g)}
        /\ leases' \subseteq leases
    BY <2>1 DEF Grid, WithoutLease
  <2>3. viewed' \in ClaimSet
    BY <1>1, <2>2 DEF OwnerTyped, LinkTyped, Claim, ClaimSet
  <2>4. IsFiniteSet(leases')
    BY <1>5, <2>2
  <2> QED
    BY <1>1, <1>2, <1>4, <2>2, <2>3, <2>4 DEF OwnerTyped
<1>12. CASE ResizeNote(c)
  <2>1. op[c].kind = "note"
    BY <1>12 DEF ResizeNote
  <2>2. op[c].s \in Sess
    BY <1>1, <2>1 DEF OpNamed, Named
  <2>3. /\ UNCHANGED <<override, zeroAge>> /\ pending' = NoPending /\ leases' \subseteq leases
        /\ reclaimed' \subseteq Restored
        /\ \/ ~ Exhausted /\ viewed' = Claim(c, op[c].s, nextGen) /\ nextGen' = nextGen + 1
           \/ viewed' \in {viewed, [viewed EXCEPT !.g = 0]} /\ nextGen' = nextGen
    BY <1>12 DEF ResizeNote, WithoutLease
  <2>4. viewed' \in ClaimSet /\ nextGen' \in 1 .. MaxGen + 1
    BY <1>1, <1>3, <2>2, <2>3 DEF OwnerTyped, Claim, ClaimSet, Gens
  <2>5. IsFiniteSet(leases')
    BY <1>5, <2>3
  <2> QED
    BY <1>1, <1>2, <1>4, <2>3, <2>4, <2>5 DEF OwnerTyped
<1>13. CASE \E s \in Sess : CreateReserve(c, s)
  <2>1. PICK s \in Sess : CreateReserve(c, s)
    BY <1>13
  <2> DEFINE l == [c |-> c, s |-> s, ttl |-> Lease, g |-> nextGen]
  <2>2. CASE Reservable(c, s)
    <3>1. /\ leases' = leases \cup {l} /\ reclaimed' = reclaimed \ {s} /\ nextGen' = After(1)
          /\ UNCHANGED <<override, viewed, pending, zeroAge>>
      BY <2>1, <2>2 DEF CreateReserve
    <3>2. ~ Exhausted
      BY <2>2 DEF Reservable
    <3>3. l \in [c : Conn, s : Sess, ttl : 1 .. Lease, g : Gens \ {0}]
      BY <1>3, <3>2, WinsizeOwnerAssumption
    <3>4. IsFiniteSet(leases')
      BY <1>1, <3>1, FS_AddElement DEF OwnerTyped
    <3> QED
      BY <1>1, <1>3, <3>1, <3>3, <3>4 DEF OwnerTyped
  <2>3. CASE ~ Reservable(c, s)
    BY <1>1, <2>1, <2>3 DEF CreateReserve, OwnerTyped
  <2> QED
    BY <2>2, <2>3
<1>14. CASE CreateRollback(c) \/ CloseLeases(c)
  <2>1. leases' \subseteq leases /\ UNCHANGED <<override, viewed, pending, nextGen, reclaimed, zeroAge>>
    BY <1>14 DEF CreateRollback, CloseLeases, WithoutLease
  <2>2. IsFiniteSet(leases')
    BY <1>5, <2>1
  <2> QED
    BY <1>1, <2>1, <2>2 DEF OwnerTyped
<1>15. CASE (\E s \in Sess : Detach(c, s)) \/ CloseBridge(c)
  <2>1. \A s \in Sess : {s} \in SUBSET Sess
    OBVIOUS
  <2> QED
    BY <1>10, <1>15, <2>1 DEF Detach, CloseBridge
<1>16. CASE \/ \E s \in Sess : AttachPlain(c, s) \/ \E v \in BOOLEAN : ResizeCheck(c, s, v)
            \/ EagerPublish(c) \/ ResizeQueue(c) \/ CreateCommit(c) \/ CloseSlot(c)
  <2>1. UNCHANGED ownerVars
    BY <1>16 DEF AttachPlain, ResizeCheck, EagerPublish, ResizeQueue, CreateCommit, CloseSlot
  <2> QED
    BY <1>6, <2>1
<1> QED
  BY <1>7, <1>8, <1>9, <1>11, <1>12, <1>13, <1>14, <1>15, <1>16 DEF ConnStep

\* The owner state after any step.
LEMMA StepOwnerTyped == TypeInv /\ [Next]_vars => OwnerTyped'
<1> SUFFICES ASSUME TypeInv, [Next]_vars PROVE OwnerTyped'
  OBVIOUS
<1>1. OwnerTyped
  BY DEF TypeInv
<1>2. NoPending \in [c : Conn \cup {NoConn}, s : Sess \cup {NoSess}, g : Gens, rec : BOOLEAN]
      /\ ~ NoPending.rec
  BY WinsizeOwnerAssumption DEF NoPending, Gens
<1>3. CASE \E c \in Conn : ConnStep(c)
  BY <1>3, ConnOwnerTyped
<1>4. CASE UNCHANGED ownerVars
  BY <1>1, <1>4 DEF ownerVars, OwnerTyped
<1>5. CASE \E s \in Sess : HostReclaim(s)
  <2>1. PICK s \in Sess : HostReclaim(s)
    BY <1>5
  <2>2. /\ UNCHANGED <<override, viewed, nextGen, zeroAge>> /\ pending' \in {pending, NoPending}
        /\ reclaimed' \in {reclaimed, reclaimed \cup {s}} /\ leases' \subseteq leases
    BY <2>1 DEF HostReclaim
  <2>3. IsFiniteSet(leases')
    BY <1>1, <2>2, FS_Subset DEF OwnerTyped
  <2> QED
    BY <1>1, <1>2, <2>2, <2>3 DEF OwnerTyped
<1>6. CASE Tick
  <2> DEFINE K == {k \in leases : k.ttl > 1}
             f == [l \in K |-> [l EXCEPT !.ttl = @ - 1]]
  <2>1. /\ UNCHANGED <<override, viewed, pending, nextGen, reclaimed>>
        /\ leases' = {[l EXCEPT !.ttl = @ - 1] : l \in K}
        /\ zeroAge' = IF Serving = {} THEN Min({zeroAge + 1, Grace}) ELSE 0
    BY <1>6 DEF Tick
  <2>2. leases' = {f[l] : l \in K}
    BY <2>1
  <2>3. IsFiniteSet(K)
    BY <1>1, FS_Subset DEF OwnerTyped
  <2>4. IsFiniteSet(leases')
    <3> HIDE DEF K, f
    <3> QED
      BY <2>2, <2>3, ImageFinite
  <2>5. leases' \subseteq [c : Conn, s : Sess, ttl : 1 .. Lease, g : Gens \ {0}]
    <3>1. \A l \in K : [l EXCEPT !.ttl = @ - 1] \in [c : Conn, s : Sess, ttl : 1 .. Lease, g : Gens \ {0}]
      BY <1>1, WinsizeOwnerAssumption DEF OwnerTyped
    <3> QED
      BY <2>1, <3>1
  <2>6. zeroAge' \in 0 .. Grace
    <3>1. zeroAge + 1 \in Int /\ Grace \in Int /\ zeroAge \in 0 .. Grace
      BY <1>1, WinsizeOwnerAssumption DEF OwnerTyped
    <3>2. Min({zeroAge + 1, Grace}) = IF zeroAge + 1 <= Grace THEN zeroAge + 1 ELSE Grace
      BY <3>1, MinPair
    <3> QED
      BY <2>1, <3>1, <3>2
  <2> QED
    BY <1>1, <2>1, <2>4, <2>5, <2>6 DEF OwnerTyped
<1>7. CASE Restart
  <2>1. /\ override' = "none" /\ viewed' = NoView /\ leases' = {} /\ pending' = NoPending
        /\ nextGen' = 1 /\ reclaimed' = {} /\ zeroAge' = Grace
    BY <1>7 DEF Restart
  <2>2. NoView \in ClaimSet
    BY WinsizeOwnerAssumption DEF NoView, Claim, ClaimSet, Gens
  <2> QED
    BY <1>2, <2>1, <2>2, FS_EmptySet, WinsizeOwnerAssumption DEF OwnerTyped
<1> QED
  BY <1>3, <1>4, <1>5, <1>6, <1>7 DEF Next, vars, PollCheck, PollPublish, HostSnapshot

\* What a step can do to the files.
LEMMA FileSteps ==
    ASSUME [Next]_vars
    PROVE  \/ UNCHANGED fileVars
           \/ WriteBoth
           \/ WriteFails /\ dirty' = TRUE /\ published' \in {published, Unpublished}
           \/ /\ faults < MaxFaults /\ faults' = faults + 1 /\ dirty' = FALSE
              /\ published' = Unpublished /\ UNCHANGED disk
<1>1. ASSUME NEW changed, Publication(changed)
      PROVE  \/ UNCHANGED fileVars
             \/ WriteBoth
             \/ WriteFails /\ dirty' = TRUE /\ published' = published
  BY <1>1 DEF Publication
<1>2. CASE \E c \in Conn : \/ EagerPublish(c) \/ CreateRollback(c) \/ CloseLeases(c)
                           \/ \E s \in Sess : CreateReserve(c, s)
  BY <1>1, <1>2 DEF EagerPublish, CreateRollback, CloseLeases, CreateReserve
<1>3. CASE PollPublish
  BY <1>1, <1>3 DEF PollPublish
<1>4. CASE Restart
  BY <1>4 DEF Restart
<1>5. CASE UNCHANGED fileVars
  BY <1>5
<1>6. ASSUME NEW c \in Conn, ConnStep(c)
      PROVE  \/ UNCHANGED fileVars \/ EagerPublish(c) \/ CreateRollback(c) \/ CloseLeases(c)
             \/ \E s \in Sess : CreateReserve(c, s)
  <2>1. CASE Connect(c) \/ \E v \in {"local", "remote"} : SetSelected(c, v)
    BY <2>1 DEF Connect, SetSelected
  <2>2. CASE \E s \in Sess : \/ AttachViewed(c, s) \/ AttachPlain(c, s) \/ Detach(c, s)
                            \/ Grid(c, s) \/ \E v \in BOOLEAN : ResizeCheck(c, s, v)
    BY <2>2 DEF AttachViewed, AttachPlain, Detach, Grid, ResizeCheck
  <2>3. CASE ResizeQueue(c) \/ ResizeNote(c) \/ CreateCommit(c) \/ CloseBridge(c) \/ CloseSlot(c)
    BY <2>3 DEF ResizeQueue, ResizeNote, CreateCommit, CloseBridge, CloseSlot
  <2> QED
    BY <1>6, <2>1, <2>2, <2>3 DEF ConnStep
<1>7. CASE UNCHANGED vars \/ PollCheck \/ HostSnapshot \/ Tick \/ \E s \in Sess : HostReclaim(s)
  BY <1>7 DEF vars, PollCheck, HostSnapshot, Tick, HostReclaim
<1> QED
  BY <1>2, <1>3, <1>4, <1>5, <1>6, <1>7 DEF Next

\* What a step can do to the poll and to the count of restarts.
LEMMA PollSteps ==
    ASSUME [Next]_vars
    PROVE  \/ UNCHANGED <<polling, restarts>>
           \/ PollCheck \/ PollPublish
           \/ Restart
<1>1. ASSUME NEW c \in Conn, ConnStep(c)
      PROVE  UNCHANGED <<polling, restarts>>
  <2>1. CASE Connect(c) \/ \E v \in {"local", "remote"} : SetSelected(c, v)
    BY <2>1 DEF Connect, SetSelected
  <2>2. CASE \E s \in Sess : \/ AttachViewed(c, s) \/ AttachPlain(c, s) \/ Detach(c, s)
                            \/ Grid(c, s) \/ \E v \in BOOLEAN : ResizeCheck(c, s, v)
                            \/ CreateReserve(c, s)
    BY <2>2 DEF AttachViewed, AttachPlain, Detach, Grid, ResizeCheck, CreateReserve
  <2>3. CASE \/ EagerPublish(c) \/ ResizeQueue(c) \/ ResizeNote(c) \/ CreateCommit(c)
             \/ CreateRollback(c) \/ CloseLeases(c) \/ CloseBridge(c) \/ CloseSlot(c)
    BY <2>3 DEF EagerPublish, ResizeQueue, ResizeNote, CreateCommit, CreateRollback, CloseLeases,
                CloseBridge, CloseSlot
  <2> QED
    BY <1>1, <2>1, <2>2, <2>3 DEF ConnStep
<1>2. CASE UNCHANGED vars \/ HostSnapshot \/ Tick \/ \E s \in Sess : HostReclaim(s)
  BY <1>2 DEF vars, HostSnapshot, Tick, HostReclaim
<1> QED
  BY <1>1, <1>2 DEF Next

\* Without a publication the files and the writer's memory stay; a publication
\* and the launch leave them typed.
LEMMA StepFileTyped == TypeInv /\ [Next]_vars => FileTyped'
<1> SUFFICES ASSUME TypeInv, [Next]_vars PROVE FileTyped'
  OBVIOUS
<1>1. FileTyped
  BY DEF TypeInv
<1>2. Files(Owned', Effective') \in [sessions : SUBSET Sess, owner : {"local", "remote"}]
  BY DEF Files, Owned, Effective
<1>3. polling' \in BOOLEAN
  <2>1. CASE UNCHANGED <<polling, restarts>>
    <3>1. polling' = polling
      BY <2>1
    <3>2. polling \in BOOLEAN
      BY <1>1 DEF FileTyped
    <3> QED
      BY <3>1, <3>2, Zenon
  <2>2. CASE PollCheck
    BY <2>2 DEF PollCheck
  <2>3. CASE PollPublish
    BY <2>3 DEF PollPublish
  <2>4. CASE Restart
    BY <2>4 DEF Restart
  <2> QED
    BY <2>1, <2>2, <2>3, <2>4, PollSteps
<1>4. restarts' \in 0 .. MaxRestarts
  <2>1. restarts \in 0 .. MaxRestarts /\ MaxRestarts \in Nat
    BY <1>1, WinsizeOwnerAssumption DEF FileTyped
  <2>2. CASE restarts' = restarts
    BY <2>1, <2>2
  <2>3. CASE Restart
    BY <2>1, <2>3 DEF Restart
  <2>4. PollCheck => restarts' = restarts
    BY DEF PollCheck
  <2>5. PollPublish => restarts' = restarts
    BY DEF PollPublish
  <2> QED
    BY <2>2, <2>3, <2>4, <2>5, PollSteps
<1>5. CASE UNCHANGED fileVars
  BY <1>1, <1>3, <1>4, <1>5 DEF FileTyped, fileVars
<1>6. CASE WriteBoth
  BY <1>1, <1>2, <1>3, <1>4, <1>6 DEF FileTyped, WriteBoth
<1>7. CASE WriteFails /\ dirty' = TRUE /\ published' \in {published, Unpublished}
  <2>1. \E S \in {disk.sessions, Owned'} : disk' = [disk EXCEPT !.sessions = S]
    BY <1>7 DEF WriteFails
  <2>2. disk' \in [sessions : SUBSET Sess, owner : {"local", "remote"}]
    BY <1>1, <2>1 DEF FileTyped, Owned
  <2>3. published' \in [sessions : SUBSET Sess, owner : {"none", "local", "remote"}]
    BY <1>1, <1>7 DEF FileTyped, Unpublished, Files
  <2>4. faults' \in 0 .. MaxFaults
    BY <1>1, <1>7, WinsizeOwnerAssumption DEF FileTyped, WriteFails
  <2>5. dirty' \in BOOLEAN
    BY <1>7
  <2> QED
    BY <1>3, <1>4, <2>2, <2>3, <2>4, <2>5 DEF FileTyped
<1>8. CASE faults < MaxFaults /\ faults' = faults + 1 /\ dirty' = FALSE
           /\ published' = Unpublished /\ UNCHANGED disk
  <2>1. published' \in [sessions : SUBSET Sess, owner : {"none", "local", "remote"}]
    BY <1>8 DEF Unpublished, Files
  <2>2. faults' \in 0 .. MaxFaults
    BY <1>1, <1>8, WinsizeOwnerAssumption DEF FileTyped
  <2>3. dirty' \in BOOLEAN
    BY <1>8
  <2> QED
    BY <1>1, <1>3, <1>4, <1>8, <2>1, <2>2, <2>3 DEF FileTyped
<1> QED
  BY <1>5, <1>6, <1>7, <1>8, FileSteps

TokenSet == [g : Gens, ok : BOOLEAN]

\* A token that was superseded keeps its generation.
LEMMA SupersededFacts ==
    ASSUME LinkTyped, NEW S
    PROVE  /\ Superseded(S) \in [Conn -> [Sess -> TokenSet]]
           /\ \A c \in Conn, s \in Sess :
                /\ Superseded(S)[c][s].g = token[c][s].g
                /\ s \notin S => Superseded(S)[c][s] = token[c][s]
<1>1. \A c \in Conn, s \in Sess : token[c][s] \in TokenSet
  BY DEF LinkTyped, TokenSet
<1>2. \A c \in Conn, s \in Sess :
        /\ [token[c][s] EXCEPT !.ok = FALSE] \in TokenSet
        /\ [token[c][s] EXCEPT !.ok = FALSE].g = token[c][s].g
  BY <1>1 DEF TokenSet
<1>3. \A c \in Conn, s \in Sess :
        Superseded(S)[c][s] = IF s \in S THEN [token[c][s] EXCEPT !.ok = FALSE] ELSE token[c][s]
  BY DEF Superseded
<1> QED
  BY <1>1, <1>2, <1>3 DEF Superseded

\* A fresh token is good, and no token has no generation.
LEMMA TokenFacts ==
    /\ NoToken \in TokenSet /\ NoToken.g = 0
    /\ \A g \in Gens : Token(g) \in TokenSet /\ Token(g).g = g /\ (g # 0 => Token(g).ok)
<1>1. \A g \in Gens : Token(g).g = g /\ (g # 0 => Token(g).ok)
  BY DEF Token
<1>2. \A g \in Gens : Token(g) \in TokenSet
  BY DEF Token, TokenSet
<1>3. 0 \in Gens
  BY WinsizeOwnerAssumption DEF Gens
<1> QED
  BY <1>1, <1>2, <1>3 DEF NoToken

\* The connections, their calls, routes and tokens after a step of a connection.
LEMMA ConnLinkTyped ==
    ASSUME TypeInv, NEW c \in Conn, ConnStep(c)
    PROVE  LinkTyped' /\ OpNamed'
<1> DEFINE Kinds == {"idle", "publish", "resize", "note", "create", "undo"}
           OpSet == [kind : Kinds, s : Sess \cup {NoSess}, viewed : BOOLEAN]
           States == {"new", "up", "cleared", "detached", "gone"}
           Routes == {"none", "pending", "confirmed"}
<1>1. /\ conn \in [Conn -> States] /\ op \in [Conn -> OpSet] /\ route \in [Conn -> [Sess -> Routes]]
      /\ token \in [Conn -> [Sess -> TokenSet]] /\ OwnerTyped /\ OpNamed /\ LinkTyped
  BY DEF TypeInv, LinkTyped, TokenSet
<1>2. conn' \in [Conn -> States]
  <2>1. conn' = conn \/ \E x \in States : conn' = [conn EXCEPT ![c] = x]
    <3>1. CASE Connect(c) \/ CloseBridge(c) \/ CloseLeases(c) \/ CloseSlot(c)
      BY <3>1 DEF Connect, CloseBridge, CloseLeases, CloseSlot
    <3>2. CASE \/ \E v \in {"local", "remote"} : SetSelected(c, v)
               \/ \E s \in Sess : AttachViewed(c, s) \/ AttachPlain(c, s) \/ Detach(c, s)
      BY <3>2 DEF SetSelected, AttachViewed, AttachPlain, Detach
    <3>3. CASE \E s \in Sess : Grid(c, s) \/ CreateReserve(c, s) \/ \E v \in BOOLEAN : ResizeCheck(c, s, v)
      BY <3>3 DEF Grid, CreateReserve, ResizeCheck
    <3>4. CASE EagerPublish(c) \/ ResizeQueue(c) \/ ResizeNote(c) \/ CreateCommit(c) \/ CreateRollback(c)
      BY <3>4 DEF EagerPublish, ResizeQueue, ResizeNote, CreateCommit, CreateRollback
    <3> QED
      BY <3>1, <3>2, <3>3, <3>4 DEF ConnStep
  <2> QED
    BY <1>1, <2>1
<1>3. op' = op \/ \E o \in OpSet : op' = [op EXCEPT ![c] = o] /\ Named(o)
  <2>1. Idle \in OpSet /\ Named(Idle)
    BY DEF Idle, Named
  <2>3. CASE \E s \in Sess : CreateReserve(c, s)
    <3>1. PICK s \in Sess : CreateReserve(c, s)
      BY <2>3
    <3>2. \E o \in {Idle, Op("undo", s, FALSE), Op("create", s, FALSE)} : op' = [op EXCEPT ![c] = o]
      BY <3>1 DEF CreateReserve
    <3>3. \A o \in {Idle, Op("undo", s, FALSE), Op("create", s, FALSE)} :
            o \in OpSet /\ Named(o)
      <4>1. Op("undo", s, FALSE) \in OpSet /\ Named(Op("undo", s, FALSE))
        BY DEF Op, Named
      <4>2. Op("create", s, FALSE) \in OpSet /\ Named(Op("create", s, FALSE))
        BY DEF Op, Named
      <4> HIDE DEF OpSet
      <4> QED
        BY <2>1, <4>1, <4>2
    <3> HIDE DEF OpSet
    <3> QED
      BY <3>2, <3>3
  <2>4. CASE \E s \in Sess, v \in BOOLEAN : ResizeCheck(c, s, v)
    <3>1. PICK s \in Sess, v \in BOOLEAN : ResizeCheck(c, s, v)
      BY <2>4
    <3>2. op' = [op EXCEPT ![c] = Op("resize", s, v)]
      BY <3>1 DEF ResizeCheck
    <3>3. Op("resize", s, v) \in OpSet /\ Named(Op("resize", s, v))
      BY DEF Op, Named
    <3> QED
      BY <3>2, <3>3
  <2>5. CASE ResizeQueue(c)
    <3>1. op[c].kind = "resize"
      BY <2>5 DEF ResizeQueue
    <3>2. op[c].s \in Sess
      BY <1>1, <3>1 DEF OpNamed, Named
    <3>3. \E o \in {Idle, Op("note", op[c].s, TRUE)} : op' = [op EXCEPT ![c] = o]
      BY <1>1, <2>5 DEF ResizeQueue
    <3>4. \A o \in {Idle, Op("note", op[c].s, TRUE)} : o \in OpSet /\ Named(o)
      <4>1. Op("note", op[c].s, TRUE) \in OpSet /\ Named(Op("note", op[c].s, TRUE))
        BY <3>2 DEF Op, Named
      <4> HIDE DEF OpSet
      <4> QED
        BY <2>1, <3>2, <4>1
    <3> HIDE DEF OpSet
    <3> QED
      BY <3>3, <3>4
  <2>6. CASE EagerPublish(c) \/ ResizeNote(c) \/ CreateCommit(c) \/ CreateRollback(c)
    BY <2>1, <2>6 DEF EagerPublish, ResizeNote, CreateCommit, CreateRollback
  <2>7. CASE Connect(c) \/ CloseBridge(c) \/ CloseLeases(c) \/ CloseSlot(c)
    BY <2>7 DEF Connect, CloseBridge, CloseLeases, CloseSlot
  <2>8. CASE \E s \in Sess : AttachViewed(c, s) \/ AttachPlain(c, s) \/ Detach(c, s) \/ Grid(c, s)
    BY <2>8 DEF AttachViewed, AttachPlain, Detach, Grid
  <2>9. CASE \E v \in {"local", "remote"} : SetSelected(c, v)
    <3>1. op' = [op EXCEPT ![c] = Op("publish", NoSess, FALSE)]
      BY <2>9 DEF SetSelected
    <3>2. Op("publish", NoSess, FALSE) \in OpSet /\ Named(Op("publish", NoSess, FALSE))
      BY DEF Op, Named
    <3> QED
      BY <3>1, <3>2
  <2> QED
    BY <2>3, <2>4, <2>5, <2>6, <2>7, <2>8, <2>9 DEF ConnStep
<1>4. op' \in [Conn -> OpSet]
  BY <1>1, <1>3
<1>5. OpNamed'
  BY <1>1, <1>3 DEF OpNamed
<1>6. route' \in [Conn -> [Sess -> Routes]]
  <2>1. CASE \E s \in Sess : AttachViewed(c, s) \/ AttachPlain(c, s) \/ Grid(c, s)
    <3>1. \E s \in Sess, x \in Routes : route' = [route EXCEPT ![c][s] = x]
      BY <2>1 DEF AttachViewed, AttachPlain, Grid
    <3> QED
      BY <1>1, <3>1
  <2>2. CASE \E S \in SUBSET Sess : Cancel(c, S)
    <3>1. PICK S \in SUBSET Sess : route' = [route EXCEPT ![c] = [s \in Sess |-> IF s \in S THEN "none" ELSE @[s]]]
      BY <2>2 DEF Cancel
    <3>2. [s \in Sess |-> IF s \in S THEN "none" ELSE route[c][s]] \in [Sess -> Routes]
      BY <1>1
    <3> QED
      BY <1>1, <3>1, <3>2
  <2>3. CASE (\E s \in Sess : Detach(c, s)) \/ CloseBridge(c)
    <3>1. \A s \in Sess : {s} \in SUBSET Sess
      OBVIOUS
    <3> QED
      BY <2>2, <2>3, <3>1 DEF Detach, CloseBridge
  <2>4. CASE route' = route
    BY <1>1, <2>4
  <2>5. CASE Connect(c) \/ CloseLeases(c) \/ CloseSlot(c) \/ ResizeQueue(c) \/ ResizeNote(c)
             \/ EagerPublish(c) \/ CreateCommit(c) \/ CreateRollback(c)
    <3>1. route' = route
      BY <2>5 DEF Connect, CloseLeases, CloseSlot, ResizeQueue, ResizeNote, EagerPublish,
                  CreateCommit, CreateRollback, linkVars
    <3> QED
      BY <2>4, <3>1
  <2>6. CASE \/ \E v \in {"local", "remote"} : SetSelected(c, v)
             \/ \E s \in Sess : CreateReserve(c, s) \/ \E v \in BOOLEAN : ResizeCheck(c, s, v)
    <3>1. route' = route
      BY <2>6 DEF SetSelected, CreateReserve, ResizeCheck, linkVars
    <3> QED
      BY <2>4, <3>1
  <2> QED
    BY <2>1, <2>3, <2>5, <2>6 DEF ConnStep
<1>7. token' \in [Conn -> [Sess -> TokenSet]]
  <2>1. CASE \E s \in Sess : AttachViewed(c, s)
    <3>1. PICK s \in Sess : AttachViewed(c, s)
      BY <2>1
    <3>2. nextGen \in Gens /\ Superseded(Sess) \in [Conn -> [Sess -> TokenSet]]
      BY <1>1, <3>1, AfterOne, SupersededFacts DEF OwnerTyped, AttachViewed
    <3>3. Token(nextGen) \in TokenSet
      BY <3>2, TokenFacts
    <3>4. token' = Superseded(Sess) \/ token' = [Superseded(Sess) EXCEPT ![c][s] = Token(nextGen)]
      BY <3>1 DEF AttachViewed
    <3> QED
      BY <3>2, <3>3, <3>4
  <2>2. CASE \E S \in SUBSET Sess : Cancel(c, S)
    <3>1. PICK S \in SUBSET Sess : token' = [token EXCEPT ![c] = [s \in Sess |-> IF s \in S THEN NoToken ELSE @[s]]]
      BY <2>2 DEF Cancel
    <3>2. [s \in Sess |-> IF s \in S THEN NoToken ELSE token[c][s]] \in [Sess -> TokenSet]
      BY <1>1, TokenFacts
    <3> QED
      BY <1>1, <3>1, <3>2
  <2>3. CASE (\E s \in Sess : Detach(c, s)) \/ CloseBridge(c)
    <3>1. \A s \in Sess : {s} \in SUBSET Sess
      OBVIOUS
    <3> QED
      BY <2>2, <2>3, <3>1 DEF Detach, CloseBridge
  <2>4. CASE token' = token
    BY <1>1, <2>4
  <2>5. CASE Connect(c) \/ CloseLeases(c) \/ CloseSlot(c) \/ ResizeQueue(c)
             \/ EagerPublish(c) \/ CreateCommit(c) \/ CreateRollback(c)
    <3>1. token' = token
      BY <2>5 DEF Connect, CloseLeases, CloseSlot, ResizeQueue, EagerPublish, CreateCommit,
                  CreateRollback, linkVars
    <3> QED
      BY <2>4, <3>1
  <2>6. CASE \E s \in Sess : AttachPlain(c, s) \/ CreateReserve(c, s) \/ \E v \in BOOLEAN : ResizeCheck(c, s, v)
    <3>1. token' = token
      BY <2>6 DEF CreateReserve, ResizeCheck, AttachPlain, linkVars
    <3> QED
      BY <2>4, <3>1
  <2>7. CASE ResizeNote(c) \/ \E v \in {"local", "remote"} : SetSelected(c, v)
    <3>1. token' = token \/ token' = Superseded(Sess)
      BY <2>7 DEF ResizeNote, SetSelected
    <3> QED
      BY <1>1, <3>1, SupersededFacts
  <2>8. CASE \E s \in Sess : Grid(c, s)
    <3>1. \E s \in Sess : token' = [token EXCEPT ![c][s] = NoToken]
      BY <2>8 DEF Grid
    <3> QED
      BY <1>1, <3>1, TokenFacts
  <2> QED
    BY <2>1, <2>3, <2>5, <2>6, <2>7, <2>8 DEF ConnStep
<1> QED
  BY <1>2, <1>4, <1>5, <1>6, <1>7 DEF LinkTyped, TokenSet

\* ... and after any step.
LEMMA StepLinkTyped == TypeInv /\ [Next]_vars => LinkTyped' /\ OpNamed'
<1> SUFFICES ASSUME TypeInv, [Next]_vars PROVE LinkTyped' /\ OpNamed'
  OBVIOUS
<1>1. LinkTyped /\ OpNamed
  BY DEF TypeInv
<1>2. CASE \E c \in Conn : ConnStep(c)
  BY <1>2, ConnLinkTyped
<1>3. CASE UNCHANGED <<conn, op, linkVars>>
  BY <1>1, <1>3 DEF linkVars, LinkTyped, OpNamed
<1>4. CASE \E s \in Sess : HostReclaim(s)
  <2>1. PICK s \in Sess : HostReclaim(s)
    BY <1>4
  <2>2. UNCHANGED <<conn, op, route>> /\ (token' = token \/ token' = Superseded({s}))
    BY <2>1 DEF HostReclaim
  <2>3. token' \in [Conn -> [Sess -> TokenSet]]
    BY <1>1, <2>2, SupersededFacts DEF LinkTyped, TokenSet
  <2> QED
    BY <1>1, <2>2, <2>3 DEF LinkTyped, OpNamed, TokenSet
<1>5. CASE Restart
  <2>1. /\ conn' = [c \in Conn |-> IF conn[c] = "new" THEN "new" ELSE "gone"]
        /\ op' = [c \in Conn |-> Idle]
        /\ route' = [c \in Conn |-> [s \in Sess |-> "none"]]
        /\ token' = [c \in Conn |-> [s \in Sess |-> NoToken]]
    BY <1>5 DEF Restart
  <2>2. token' \in [Conn -> [Sess -> TokenSet]]
    BY <2>1, TokenFacts
  <2>3. OpNamed'
    BY <2>1 DEF OpNamed, Named, Idle
  <2> QED
    BY <2>1, <2>2, <2>3 DEF LinkTyped, TokenSet, Idle
<1> QED
  BY <1>2, <1>3, <1>4, <1>5 DEF Next, vars, PollCheck, PollPublish, HostSnapshot, Tick, linkVars

\* Only the host and a launch touch what the host and the adapter hold.
LEMMA HostSteps ==
    ASSUME [Next]_vars
    PROVE  \/ UNCHANGED hostVars
           \/ HostSnapshot
           \/ \E s \in Sess : HostReclaim(s)
           \/ Restart
<1>1. ASSUME NEW c \in Conn, ConnStep(c)
      PROVE  UNCHANGED hostVars
  <2>1. CASE Connect(c) \/ \E v \in {"local", "remote"} : SetSelected(c, v)
    BY <2>1 DEF Connect, SetSelected
  <2>2. CASE \E s \in Sess : \/ AttachViewed(c, s) \/ AttachPlain(c, s) \/ Detach(c, s)
                            \/ Grid(c, s) \/ \E v \in BOOLEAN : ResizeCheck(c, s, v)
                            \/ CreateReserve(c, s)
    BY <2>2 DEF AttachViewed, AttachPlain, Detach, Grid, ResizeCheck, CreateReserve
  <2>3. CASE \/ EagerPublish(c) \/ ResizeQueue(c) \/ ResizeNote(c) \/ CreateCommit(c)
             \/ CreateRollback(c) \/ CloseLeases(c) \/ CloseBridge(c) \/ CloseSlot(c)
    BY <2>3 DEF EagerPublish, ResizeQueue, ResizeNote, CreateCommit, CreateRollback, CloseLeases,
                CloseBridge, CloseSlot
  <2> QED
    BY <1>1, <2>1, <2>2, <2>3 DEF ConnStep
<1>2. CASE UNCHANGED vars \/ PollCheck \/ PollPublish \/ Tick
  BY <1>2 DEF vars, PollCheck, PollPublish, Tick
<1> QED
  BY <1>1, <1>2 DEF Next

\* What the host and the adapter hold after any step.
LEMMA StepHostTyped == TypeInv /\ [Next]_vars => HostTyped'
<1> SUFFICES ASSUME TypeInv, [Next]_vars PROVE HostTyped'
  OBVIOUS
<1> DEFINE HeldSet == [exact : BOOLEAN, shown : SUBSET ClaimSet, reserved : SUBSET ClaimSet]
<1>1. adapter \in [Sess -> Gens] /\ held \in [Sess -> HeldSet] /\ OwnerTyped
  BY DEF TypeInv, HostTyped
<1>2. 0 \in Gens
  BY WinsizeOwnerAssumption DEF Gens
<1>3. Reconciled \in [Sess -> Gens]
  <2>1. ASSUME NEW s \in Owned PROVE Authority(s) \in Gens
    <3>1. s \in Sess /\ Claims(s) # {} /\ Claims(s) \subseteq ClaimSet
      BY <1>1, ClaimsTyped DEF Owned
    <3>2. {x.g : x \in Claims(s)} \in SUBSET Gens /\ {x.g : x \in Claims(s)} # {}
      BY <3>1 DEF ClaimSet
    <3> QED
      BY <3>2, MaxIsLargest DEF Authority
  <2> QED
    BY <1>2, <2>1 DEF Reconciled
<1>4. CASE UNCHANGED <<adapter, held>>
  BY <1>1, <1>4 DEF HostTyped
<1>5. CASE HostSnapshot
  <2>1. adapter' = Reconciled
    BY <1>5 DEF HostSnapshot
  <2>2. \A s \in Sess : Claims(s) \subseteq ClaimSet /\ Reservations(s) \subseteq ClaimSet
    BY <1>1, ClaimsTyped
  <2>3. \A s \in Sess : [exact |-> TRUE, shown |-> Claims(s), reserved |-> Reservations(s)] \in HeldSet
    BY <2>2
  <2>4. NotHeld \in HeldSet
    BY DEF NotHeld
  <2> HIDE DEF HeldSet
  <2>5. held' \in [Sess -> HeldSet]
    BY <1>5, <2>3, <2>4 DEF HostSnapshot
  <2> QED
    BY <1>3, <2>1, <2>5 DEF HostTyped, HeldSet
<1>6. CASE \E s \in Sess : HostReclaim(s)
  <2>1. PICK s \in Sess : HostReclaim(s)
    BY <1>6
  <2>2. adapter' = Reconciled \/ adapter' = [Reconciled EXCEPT ![s] = 0]
    BY <2>1 DEF HostReclaim
  <2>3. adapter' \in [Sess -> Gens]
    BY <1>2, <1>3, <2>2
  <2>4. \A t \in Sess : StillExact[t] \in BOOLEAN
    BY DEF StillExact
  <2>5. \A t \in Sess : [held[t] EXCEPT !.exact = StillExact[t]] \in HeldSet
    BY <1>1, <2>4
  <2>6. NotHeld \in HeldSet
    BY DEF NotHeld
  <2>7. held' = [t \in Sess |-> IF t = s THEN NotHeld ELSE [held[t] EXCEPT !.exact = StillExact[t]]]
    BY <2>1 DEF HostReclaim
  <2> HIDE DEF HeldSet
  <2>8. held' \in [Sess -> HeldSet]
    BY <2>5, <2>6, <2>7
  <2> QED
    BY <2>3, <2>8 DEF HostTyped, HeldSet
<1>7. CASE Restart
  <2>1. \A s \in Sess : [held[s] EXCEPT !.exact = FALSE] \in HeldSet
    BY <1>1
  <2>2. adapter' = [s \in Sess |-> 0] /\ held' = [s \in Sess |-> [held[s] EXCEPT !.exact = FALSE]]
    BY <1>7 DEF Restart
  <2> HIDE DEF HeldSet
  <2>3. adapter' \in [Sess -> Gens] /\ held' \in [Sess -> HeldSet]
    BY <1>2, <2>1, <2>2
  <2> QED
    BY <2>3 DEF HostTyped, HeldSet
<1> QED
  BY <1>4, <1>5, <1>6, <1>7, HostSteps DEF hostVars

\* Every step keeps the types.
LEMMA StepTyped == TypeInv /\ [Next]_vars => TypeInv'
BY StepOwnerTyped, StepFileTyped, StepLinkTyped, StepHostTyped DEF TypeInv

\* A launch.
LEMMA InitTyped == Init => TypeInv
<1> SUFFICES ASSUME Init PROVE TypeInv
  OBVIOUS
<1>1. 0 \in Gens
  BY WinsizeOwnerAssumption DEF Gens
<1>2. OwnerTyped
  BY <1>1, FS_EmptySet, WinsizeOwnerAssumption
     DEF Init, OwnerTyped, NoView, NoPending, Claim, ClaimSet, Gens
<1>3. FileTyped
  <2>1. dirty \in BOOLEAN /\ polling \in BOOLEAN
    BY DEF Init
  <2>2. disk \in [sessions : SUBSET Sess, owner : {"local", "remote"}]
    BY DEF Init, Files
  <2>3. published \in [sessions : SUBSET Sess, owner : {"none", "local", "remote"}]
    BY DEF Init, Unpublished, Files
  <2>4. faults \in 0 .. MaxFaults /\ restarts \in 0 .. MaxRestarts
    BY WinsizeOwnerAssumption DEF Init
  <2> QED
    BY <2>1, <2>2, <2>3, <2>4 DEF FileTyped
<1>4. LinkTyped
  <2>1. token \in [Conn -> [Sess -> TokenSet]]
    BY TokenFacts DEF Init
  <2>2. op \in [Conn -> [kind : {"idle", "publish", "resize", "note", "create", "undo"},
                         s : Sess \cup {NoSess}, viewed : BOOLEAN]]
    BY DEF Init, Idle
  <2> QED
    BY <2>1, <2>2 DEF Init, LinkTyped, TokenSet
<1>5. HostTyped
  BY <1>1 DEF Init, HostTyped, NotHeld
<1>6. OpNamed
  BY DEF Init, OpNamed, Named, Idle
<1> QED
  BY <1>2, <1>3, <1>4, <1>5, <1>6 DEF TypeInv

\* The parts make the type invariant.
LEMMA PartsTyped == TypeInv => TypeOK
<1> SUFFICES ASSUME TypeInv PROVE TypeOK
  OBVIOUS
<1>1. \A s \in Sess : held[s].exact \in BOOLEAN
  BY DEF TypeInv, HostTyped
<1> QED
  BY <1>1 DEF TypeInv, OwnerTyped, FileTyped, LinkTyped, HostTyped, ClaimSet, TypeOK

\* The owner state, the files, the connections and what the host holds keep
\* their types: generations never wrap, whatever rotates them.
THEOREM OwnerTypeCorrect == Spec => []TypeOK
BY InitTyped, StepTyped, PartsTyped, PTL DEF Spec

-----------------------------------------------------------------------------
(* The files. *)

\* Whenever the writer believes that it published, both files hold what it
\* remembers: every failed write leaves it dirty until one succeeds.
THEOREM CleanFilesAreCurrent == Spec => []CleanMeansOnDisk
<1>1. Init => CleanMeansOnDisk
  BY DEF Init, CleanMeansOnDisk, Unpublished, Files
<1>2. CleanMeansOnDisk /\ [Next]_vars => CleanMeansOnDisk'
  <2> SUFFICES ASSUME CleanMeansOnDisk, [Next]_vars PROVE CleanMeansOnDisk'
    OBVIOUS
  <2>1. CASE UNCHANGED fileVars
    BY <2>1 DEF fileVars, CleanMeansOnDisk
  <2>2. CASE WriteBoth
    BY <2>2 DEF WriteBoth, CleanMeansOnDisk
  <2>3. CASE dirty' = TRUE
    BY <2>3 DEF CleanMeansOnDisk
  <2>4. CASE published' = Unpublished
    BY <2>4 DEF CleanMeansOnDisk, Unpublished, Files
  <2> QED
    BY <2>1, <2>2, <2>3, <2>4, FileSteps
<1> QED
  BY <1>1, <1>2, PTL DEF Spec

-----------------------------------------------------------------------------
(* How claims change.  A claim is kept, dropped, given a generation that the   *)
(* step issues, or it is the one of the pending Attach.  A claim that was      *)
(* hidden stays hidden or gets such a generation.                              *)

Evolves ==
    /\ nextGen <= nextGen'
    /\ \/ viewed' = viewed \/ viewed'.g = 0
       \/ nextGen <= viewed'.g /\ viewed'.g < nextGen'
       \/ pending.g # 0 /\ viewed' = Claim(pending.c, pending.s, pending.g) /\ pending' = NoPending
    /\ \A l \in leases' : \/ \E k \in leases : l.c = k.c /\ l.s = k.s /\ l.g = k.g
                          \/ nextGen <= l.g /\ l.g < nextGen'
    /\ \/ pending' = NoPending \/ pending' = pending
       \/ nextGen <= pending'.g /\ pending'.g < nextGen'
    /\ \A c \in Conn, s \in Sess : \/ token'[c][s].g \in {0, token[c][s].g}
                                   \/ nextGen <= token'[c][s].g /\ token'[c][s].g < nextGen'
Uncovers ==
    \A s \in Sess \ reclaimed : Hidden =>
        (s \notin reclaimed' /\ Hidden') \/ \A x \in Standing(s)' : x.g >= nextGen

\* An Attach is pending only where claims are seen.
LEMMA HiddenMeans ==
    ASSUME TypeInv, PendingOwn, Hidden
    PROVE  pending = NoPending /\ Restored = reclaimed
<1>1. pending.g # 0 => pending.c \in Serving
  BY DEF PendingOwn, Serving
<1>2. pending.g = 0
  BY <1>1 DEF PendingOwn, Hidden, Present
<1>3. pending = NoPending
  BY <1>2 DEF PendingOwn
<1> QED
  BY <1>3 DEF Restored, NoPending

\* A step that issues nothing and uncovers nothing.
LEMMA Quiet ==
    ASSUME TypeInv, PendingOwn, UNCHANGED <<override, viewed, nextGen>>, leases' \subseteq leases,
           pending' = NoPending \/ pending' = pending,
           reclaimed' \subseteq Restored,
           \A c \in Conn, s \in Sess : token'[c][s].g \in {0, token[c][s].g},
           ~ Present => ~ Present'
    PROVE  Evolves /\ Uncovers
<1>1. nextGen \in Nat
  BY WinsizeOwnerAssumption DEF TypeInv, OwnerTyped
<1>2. Evolves
  BY <1>1 DEF Evolves
<1>3. Uncovers
  BY HiddenMeans DEF Uncovers, Hidden
<1> QED
  BY <1>2, <1>3

\* Whether a browser is present depends on the slots and on the grace.
LEMMA PresentKept == UNCHANGED <<conn, zeroAge>> => (Present' <=> Present)
BY DEF Present, Serving

\* A connection that is up, or going down, is served.
LEMMA UpMeansPresent ==
    ASSUME NEW c \in Conn, conn[c] \in {"up", "detached", "cleared"}
    PROVE  Present
BY DEF Present, Serving

\* How a step of a connection changes the claims.
LEMMA ConnEvolves ==
    ASSUME TypeInv, AuthorityInv, NEW c \in Conn, ConnStep(c)
    PROVE  Evolves /\ Uncovers
<1>1. OwnerTyped /\ LinkTyped /\ OpNamed /\ PendingOwn /\ LeaseInv /\ GensBelow /\ TokenOwn
  BY DEF TypeInv, AuthorityInv
<1>2. nextGen \in 1 .. MaxGen + 1 /\ nextGen \in Nat
  BY <1>1, WinsizeOwnerAssumption DEF OwnerTyped
<1>3. \A d \in Conn, s \in Sess : token[d][s].g \in Nat /\ token[d][s] \in TokenSet
  BY <1>1 DEF LinkTyped, TokenSet, Gens
<1>4. \A S : \A d \in Conn, s \in Sess : Superseded(S)[d][s].g = token[d][s].g
  BY <1>1, SupersededFacts
<1>5. CASE UNCHANGED <<ownerVars, conn, token>>
  <2>1. reclaimed \subseteq Restored
    BY <1>1, RestoredTyped
  <2> QED
    BY <1>1, <1>5, <2>1, Quiet, PresentKept DEF ownerVars
<1>6. CASE Connect(c)
  <2>1. UNCHANGED <<override, pending, reclaimed, token>> /\ zeroAge' = 0
    BY <1>6 DEF Connect, linkVars
  <2>2. CASE ~ Present /\ override # "local"
    <3>1. Refresh
      BY <1>6, <2>2 DEF Connect
    <3>2. nextGen <= nextGen'
      BY <1>1, <1>2, <3>1, RefreshFacts
    <3>3. viewed' = viewed \/ viewed'.g = 0 \/ (nextGen <= viewed'.g /\ viewed'.g < nextGen')
      <4>1. CASE viewed.s \in Sess \ reclaimed
        BY <1>1, <3>1, <4>1, RefreshFacts
      <4>2. CASE viewed.s \notin Sess \ reclaimed
        <5>1. viewed' = viewed
          BY <1>1, <3>1, <4>2, RefreshFacts
        <5> QED
          BY <5>1, Zenon
      <4> QED
        BY <4>1, <4>2
    <3>4. \A l \in leases' : \/ \E k \in leases : l.c = k.c /\ l.s = k.s /\ l.g = k.g
                             \/ nextGen <= l.g /\ l.g < nextGen'
      BY <1>1, <3>1, RefreshFacts
    <3>5. Evolves
      BY <2>1, <3>2, <3>3, <3>4 DEF Evolves
    <3>6. ASSUME NEW s \in Sess \ reclaimed, NEW x \in Standing(s)'
          PROVE  x.g >= nextGen
      <4>1. CASE x = viewed' /\ x.s = s /\ x.g # 0
        BY <1>1, <3>1, <3>6, <4>1, RefreshFacts
      <4>2. CASE \E l \in leases' : l.s = s /\ x = Claim(l.c, l.s, l.g)
        <5>1. PICK l \in leases' : l.s = s /\ x = Claim(l.c, l.s, l.g)
          BY <4>2
        <5>2. nextGen <= l.g
          BY <1>1, <3>1, <3>6, <5>1, RefreshFacts
        <5> QED
          BY <1>2, <5>1, <5>2 DEF Claim
      <4> QED
        BY <3>6, <4>1, <4>2 DEF Standing
    <3> QED
      BY <3>5, <3>6 DEF Uncovers
  <2>3. CASE ~ (~ Present /\ override # "local")
    <3>1. UNCHANGED <<viewed, leases, nextGen>>
      BY <1>6, <2>3 DEF Connect
    <3>2. Evolves
      BY <1>2, <2>1, <3>1 DEF Evolves
    <3>3. Uncovers
      BY <2>1, <2>3 DEF Uncovers, Hidden
    <3> QED
      BY <3>2, <3>3
  <2> QED
    BY <2>2, <2>3
<1>7. CASE \E v \in {"local", "remote"} : SetSelected(c, v)
  <2>1. PICK v \in {"local", "remote"} : SetSelected(c, v)
    BY <1>7
  <2>2. /\ pending' \in {pending, NoPending} /\ leases' \in {leases, {}} /\ override' = v
        /\ \/ viewed' = [viewed EXCEPT !.g = Issued] /\ nextGen' = After(1)
           \/ UNCHANGED <<viewed, nextGen>>
        /\ token' = token \/ token' = Superseded(Sess)
    BY <2>1 DEF SetSelected
  <2>3. nextGen <= nextGen' /\ (viewed' = viewed \/ viewed'.g = 0 \/ (nextGen <= viewed'.g /\ viewed'.g < nextGen'))
    <3>1. CASE viewed' = [viewed EXCEPT !.g = Issued] /\ nextGen' = After(1)
      <4>1. viewed'.g = Issued
        BY <1>1, <3>1 DEF OwnerTyped, ClaimSet
      <4> QED
        BY <1>2, <3>1, <4>1, AfterOne
    <3>2. CASE UNCHANGED <<viewed, nextGen>>
      <4>1. viewed' = viewed
        BY <3>2
      <4>2. nextGen <= nextGen'
        BY <1>2, <3>2
      <4> QED
        BY <4>1, <4>2, Zenon
    <3> QED
      BY <2>2, <3>1, <3>2
  <2>4. Evolves
    BY <1>4, <2>2, <2>3 DEF Evolves
  <2>5. Uncovers
    <3> SUFFICES ASSUME NEW s \in Sess \ reclaimed, Hidden
                 PROVE  (s \notin reclaimed' /\ Hidden') \/ \A x \in Standing(s)' : x.g >= nextGen
      BY DEF Uncovers
    <3>1. Present
      BY <2>1, UpMeansPresent DEF SetSelected, Ready
    <3>2. override = "local" /\ leases = {} /\ Restored = reclaimed
      BY <1>1, <3>1, HiddenMeans DEF Hidden, LeaseInv
    <3>3. CASE v = "local"
      BY <2>1, <3>2, <3>3 DEF SetSelected, Hidden
    <3>4. CASE v = "remote"
      <4>1. viewed.s # NoSess => viewed' = [viewed EXCEPT !.g = Issued]
        BY <2>1, <3>2, <3>4 DEF SetSelected
      <4>2. leases' = {} /\ viewed'.s = viewed.s
        BY <1>1, <2>2, <3>2 DEF OwnerTyped, ClaimSet
      <4>3. s # NoSess
        BY WinsizeOwnerAssumption
      <4>4. viewed'.s = s => viewed'.g = Issued
        BY <1>1, <4>1, <4>2, <4>3 DEF OwnerTyped, ClaimSet
      <4>5. \A x \in Standing(s)' : x = viewed' /\ x.s = s /\ x.g # 0
        BY <4>2 DEF Standing
      <4> QED
        BY <1>2, <4>4, <4>5, AfterOne
    <3> QED
      BY <3>3, <3>4
  <2> QED
    BY <2>4, <2>5
<1>8. CASE \E s \in Sess : AttachViewed(c, s)
  <2>1. PICK s \in Sess : AttachViewed(c, s)
    BY <1>8
  <2>2. /\ ~ Exhausted /\ nextGen' = After(1) /\ reclaimed' \subseteq Restored
        /\ UNCHANGED <<override, viewed, leases, zeroAge, conn>>
        /\ pending' = NoPending \/ pending' = [c |-> c, s |-> s, g |-> nextGen, rec |-> s \in Restored]
        /\ token' = Superseded(Sess) \/ token' = [Superseded(Sess) EXCEPT ![c][s] = Token(nextGen)]
    BY <2>1 DEF AttachViewed
  <2>3. nextGen' = nextGen + 1 /\ nextGen \in Gens
    BY <1>2, <2>2, AfterOne
  <2>4. \A d \in Conn, t \in Sess : \/ token'[d][t].g = token[d][t].g
                                    \/ token'[d][t].g = nextGen
    BY <1>1, <1>4, <2>2, <2>3, TokenFacts, SupersededFacts
  <2>5. pending' = NoPending \/ pending'.g = nextGen
    BY <2>2
  <2>6. Evolves
    BY <1>2, <2>2, <2>3, <2>4, <2>5 DEF Evolves
  <2>7. Uncovers
    BY <1>1, <2>2, HiddenMeans, PresentKept DEF Uncovers, Hidden
  <2> QED
    BY <2>6, <2>7
<1>9. CASE \E S \in SUBSET Sess : Cancel(c, S) /\ UNCHANGED <<override, viewed, leases, nextGen>> /\ Present
  <2>1. PICK S \in SUBSET Sess : Cancel(c, S) /\ UNCHANGED <<override, viewed, leases, nextGen>> /\ Present
    BY <1>9
  <2>2. /\ pending' = NoPending \/ pending' = pending
        /\ reclaimed' = Restored \/ reclaimed' = reclaimed
        /\ token' = [token EXCEPT ![c] = [s \in Sess |-> IF s \in S THEN NoToken ELSE @[s]]]
    BY <2>1 DEF Cancel
  <2>3. \A d \in Conn, s \in Sess : token'[d][s].g \in {0, token[d][s].g}
    BY <1>1, <2>2, TokenFacts DEF LinkTyped
  <2>4. reclaimed' \subseteq Restored
    BY <1>1, <2>2, RestoredTyped
  <2> QED
    BY <1>1, <2>1, <2>2, <2>3, <2>4, Quiet
<1>10. CASE (\E s \in Sess : Detach(c, s)) \/ CloseBridge(c)
  <2>1. \A s \in Sess : {s} \in SUBSET Sess
    OBVIOUS
  <2>2. Present
    BY <1>10, UpMeansPresent DEF Detach, CloseBridge, Ready
  <2> QED
    BY <1>9, <1>10, <2>1, <2>2 DEF Detach, CloseBridge
<1>11. CASE \E s \in Sess : Grid(c, s)
  <2>1. PICK s \in Sess : Grid(c, s)
    BY <1>11
  <2>2. /\ UNCHANGED <<override, nextGen, zeroAge, conn>>
        /\ pending' = NoPending \/ pending' = pending
        /\ reclaimed' \subseteq Restored
        /\ leases' \subseteq leases
        /\ token' = [token EXCEPT ![c][s] = NoToken]
        /\ \/ viewed' = viewed
           \/ token[c][s].g # 0 /\ token[c][s].g = pending.g /\ viewed' = Claim(c, s, token[c][s].g)
              /\ pending' = NoPending
    BY <1>1, <2>1, RestoredTyped DEF Grid, WithoutLease
  <2>3. \A d \in Conn, t \in Sess : token'[d][t].g \in {0, token[d][t].g}
    BY <1>1, <2>2, TokenFacts DEF LinkTyped
  <2>4. \/ viewed' = viewed
        \/ pending.g # 0 /\ viewed' = Claim(pending.c, pending.s, pending.g) /\ pending' = NoPending
    BY <1>1, <2>2 DEF TokenOwn
  <2>5. Evolves
    BY <1>2, <2>2, <2>3, <2>4 DEF Evolves
  <2>6. Present
    BY <2>1, UpMeansPresent DEF Grid
  <2>7. Uncovers
    BY <1>1, <2>2, <2>6, HiddenMeans DEF Uncovers, Hidden
  <2> QED
    BY <2>5, <2>7
<1>12. CASE ResizeNote(c)
  <2>1. /\ UNCHANGED <<override, zeroAge, conn>> /\ pending' = NoPending /\ leases' \subseteq leases
        /\ reclaimed' \subseteq Restored /\ token' = Superseded(Sess)
        /\ \/ viewed' = Claim(c, op[c].s, nextGen) /\ nextGen' = nextGen + 1
           \/ viewed' \in {viewed, [viewed EXCEPT !.g = 0]} /\ nextGen' = nextGen
    BY <1>12 DEF ResizeNote, WithoutLease
  <2>2. \/ viewed' = viewed \/ viewed'.g = 0
        \/ nextGen <= viewed'.g /\ viewed'.g < nextGen'
    BY <1>1, <1>2, <2>1 DEF Claim, OwnerTyped, ClaimSet
  <2>3. Evolves
    BY <1>2, <1>4, <2>1, <2>2 DEF Evolves
  <2>4. Uncovers
    BY <1>1, <2>1, HiddenMeans, PresentKept DEF Uncovers, Hidden
  <2> QED
    BY <2>3, <2>4
<1>13. CASE \E s \in Sess : CreateReserve(c, s)
  <2>1. PICK s \in Sess : CreateReserve(c, s)
    BY <1>13
  <2>2. UNCHANGED <<override, viewed, pending, zeroAge, conn, token>>
    BY <2>1 DEF CreateReserve, linkVars
  <2>3. CASE Reservable(c, s)
    <3>1. /\ leases' = leases \cup {[c |-> c, s |-> s, ttl |-> Lease, g |-> nextGen]}
          /\ reclaimed' = reclaimed \ {s} /\ nextGen' = After(1)
      BY <2>1, <2>3 DEF CreateReserve
    <3>2. nextGen' = nextGen + 1
      BY <1>2, <2>3, <3>1, AfterOne DEF Reservable
    <3>3. Evolves
      BY <1>2, <2>2, <3>1, <3>2 DEF Evolves
    <3>4. Uncovers
      BY <2>2, <3>1, PresentKept DEF Uncovers, Hidden
    <3> QED
      BY <3>3, <3>4
  <2>4. CASE ~ Reservable(c, s)
    <3>1. UNCHANGED <<ownerVars, conn, token>>
      BY <2>1, <2>2, <2>4 DEF CreateReserve, ownerVars
    <3> QED
      BY <1>5, <3>1
  <2> QED
    BY <2>3, <2>4
<1>14. CASE CreateRollback(c)
  <2>1. leases' \subseteq leases
        /\ UNCHANGED <<override, viewed, pending, nextGen, reclaimed, zeroAge, conn, token>>
    BY <1>14 DEF CreateRollback, WithoutLease, linkVars
  <2>2. reclaimed' \subseteq Restored
    BY <1>1, <2>1, RestoredTyped
  <2> QED
    BY <1>1, <2>1, <2>2, Quiet, PresentKept
<1>15. CASE CloseLeases(c) \/ CloseSlot(c)
  <2>1. leases' \subseteq leases
        /\ UNCHANGED <<override, viewed, pending, nextGen, reclaimed, zeroAge, token>>
    BY <1>15 DEF CloseLeases, CloseSlot, linkVars, ownerVars
  <2>2. Present
    BY <1>15, UpMeansPresent DEF CloseLeases, CloseSlot, Ready
  <2>3. reclaimed' \subseteq Restored
    BY <1>1, <2>1, RestoredTyped
  <2> QED
    BY <1>1, <2>1, <2>2, <2>3, Quiet
<1>16. CASE \/ \E s \in Sess : AttachPlain(c, s) \/ \E v \in BOOLEAN : ResizeCheck(c, s, v)
            \/ EagerPublish(c) \/ ResizeQueue(c) \/ CreateCommit(c)
  <2>1. UNCHANGED <<ownerVars, conn, token>>
    BY <1>16 DEF AttachPlain, ResizeCheck, EagerPublish, ResizeQueue, CreateCommit, linkVars
  <2> QED
    BY <1>5, <2>1
<1> QED
  BY <1>6, <1>7, <1>8, <1>10, <1>11, <1>12, <1>13, <1>14, <1>15, <1>16 DEF ConnStep

\* A lease belongs to a connection that is up and does not view its pane yet, and a
\* local override leaves none.
LEMMA ConnLeases ==
    ASSUME TypeInv, AuthorityInv, NEW c \in Conn, ConnStep(c)
    PROVE  LeaseInv'
<1>1. /\ OwnerTyped /\ LinkTyped /\ (override = "local" => leases = {})
      /\ \A l \in leases : /\ l.c \in Conn /\ l.s \in Sess /\ conn[l.c] = "up"
                           /\ <<viewed.c, viewed.s>> # <<l.c, l.s>>
  BY DEF TypeInv, AuthorityInv, LeaseInv, LeaseAwaitsViewing, OwnerTyped
<1>2. CASE leases' \subseteq leases /\ UNCHANGED <<override, viewed, conn>>
  BY <1>1, <1>2 DEF LeaseInv, LeaseAwaitsViewing
<1>3. CASE Connect(c)
  <2>1. override' = override /\ conn' = [conn EXCEPT ![c] = "up"]
    BY <1>3 DEF Connect
  <2>2. /\ viewed'.c = viewed.c /\ viewed'.s = viewed.s
        /\ \A l \in leases' : \E k \in leases : l.c = k.c /\ l.s = k.s
    <3>1. CASE Refresh
      BY <1>1, <3>1, RefreshFacts
    <3>2. CASE UNCHANGED <<viewed, leases>>
      BY <3>2
    <3> QED
      BY <1>3, <3>1, <3>2 DEF Connect
  <2>3. \A d \in Conn : conn[d] = "up" => conn'[d] = "up"
    BY <1>1, <2>1 DEF LinkTyped
  <2>4. leases = {} => leases' = {}
    BY <2>2
  <2> QED
    BY <1>1, <2>1, <2>2, <2>3, <2>4 DEF LeaseInv, LeaseAwaitsViewing
<1>4. CASE \E v \in {"local", "remote"} : SetSelected(c, v)
  <2>1. PICK v \in {"local", "remote"} : SetSelected(c, v)
    BY <1>4
  <2>2. viewed' = [viewed EXCEPT !.g = Issued] \/ viewed' = viewed
    BY <2>1 DEF SetSelected
  <2>3. viewed'.c = viewed.c /\ viewed'.s = viewed.s
    BY <1>1, <2>2 DEF OwnerTyped, ClaimSet
  <2>4. override' = v /\ leases' = (IF v = "local" THEN {} ELSE leases) /\ conn' = conn
    BY <2>1 DEF SetSelected
  <2> QED
    BY <1>1, <2>3, <2>4 DEF LeaseInv, LeaseAwaitsViewing
<1>5. CASE \E s \in Sess : CreateReserve(c, s)
  <2>1. PICK s \in Sess : CreateReserve(c, s)
    BY <1>5
  <2>2. UNCHANGED <<override, viewed, conn>> /\ conn[c] = "up"
    BY <2>1 DEF CreateReserve, Ready
  <2>3. CASE Reservable(c, s)
    <3>1. /\ leases' = leases \cup {[c |-> c, s |-> s, ttl |-> Lease, g |-> nextGen]}
          /\ override # "local" /\ <<viewed.c, viewed.s>> # <<c, s>>
      BY <2>1, <2>3 DEF CreateReserve, Reservable
    <3> QED
      BY <1>1, <2>2, <3>1 DEF LeaseInv, LeaseAwaitsViewing
  <2>4. CASE ~ Reservable(c, s)
    BY <1>2, <2>1, <2>2, <2>4 DEF CreateReserve
  <2> QED
    BY <2>3, <2>4
<1>6. CASE CloseLeases(c)
  <2>1. /\ override' = override /\ viewed' = viewed /\ leases' = {l \in leases : l.c # c}
        /\ conn' = [conn EXCEPT ![c] = "cleared"]
    BY <1>6 DEF CloseLeases
  <2>2. \A l \in leases' : l \in leases /\ conn'[l.c] = conn[l.c]
    BY <1>1, <2>1 DEF LinkTyped
  <2> QED
    BY <1>1, <2>1, <2>2 DEF LeaseInv, LeaseAwaitsViewing
<1>7. CASE CloseBridge(c) \/ CloseSlot(c)
  <2>1. UNCHANGED <<override, viewed, leases>> /\ conn[c] # "up" /\ \A d \in Conn \ {c} : conn'[d] = conn[d]
    BY <1>1, <1>7 DEF CloseBridge, CloseSlot, ownerVars, LinkTyped
  <2> QED
    BY <1>1, <2>1 DEF LeaseInv, LeaseAwaitsViewing
<1>8. CASE \/ EagerPublish(c) \/ ResizeQueue(c) \/ CreateCommit(c) \/ CreateRollback(c)
           \/ \E s \in Sess : \/ AttachPlain(c, s) \/ AttachViewed(c, s) \/ Detach(c, s)
                              \/ \E v \in BOOLEAN : ResizeCheck(c, s, v)
  <2>1. leases' \subseteq leases /\ UNCHANGED <<override, viewed, conn>>
    BY <1>8 DEF EagerPublish, ResizeQueue, CreateCommit, CreateRollback, AttachPlain, AttachViewed,
                ResizeCheck, Detach, WithoutLease, ownerVars
  <2> QED
    BY <1>2, <2>1
<1>9. ASSUME NEW s, leases' = WithoutLease(c, s), <<viewed'.c, viewed'.s>> \in {<<c, s>>, <<viewed.c, viewed.s>>},
             UNCHANGED <<override, conn>>
      PROVE  LeaseInv'
  BY <1>1, <1>9 DEF WithoutLease, LeaseInv, LeaseAwaitsViewing
<1>10. CASE \E s \in Sess : Grid(c, s)
  <2>1. PICK s \in Sess : Grid(c, s)
    BY <1>10
  <2>2. override' = override /\ conn' = conn
    BY <2>1 DEF Grid
  <2>3. \/ viewed' = viewed /\ leases' = leases
        \/ viewed' = Claim(c, s, token[c][s].g) /\ leases' = WithoutLease(c, s)
    BY <2>1 DEF Grid
  <2>4. CASE viewed' = Claim(c, s, token[c][s].g) /\ leases' = WithoutLease(c, s)
    <3>1. viewed'.c = c /\ viewed'.s = s
      BY <2>4 DEF Claim
    <3>2. <<viewed'.c, viewed'.s>> \in {<<c, s>>, <<viewed.c, viewed.s>>}
      BY <3>1
    <3> QED
      BY <1>9, <2>2, <2>4, <3>2
  <2> QED
    BY <1>2, <2>2, <2>3, <2>4
<1>11. CASE ResizeNote(c)
  <2>1. /\ UNCHANGED <<override, conn>> /\ leases' = WithoutLease(c, op[c].s)
        /\ viewed' \in {Claim(c, op[c].s, nextGen), [viewed EXCEPT !.g = 0], viewed}
    BY <1>11 DEF ResizeNote
  <2>2. <<viewed'.c, viewed'.s>> \in {<<c, op[c].s>>, <<viewed.c, viewed.s>>}
    BY <1>1, <2>1 DEF Claim, OwnerTyped, ClaimSet
  <2> QED
    BY <1>9, <2>1, <2>2
<1> QED
  BY <1>3, <1>4, <1>5, <1>6, <1>7, <1>8, <1>10, <1>11 DEF ConnStep

\* How time and the reads of the poll and the host change the claims.
LEMMA TickEvolves ==
    ASSUME TypeInv, AuthorityInv, Tick
    PROVE  Evolves /\ Uncovers
<1>1. OwnerTyped /\ PendingOwn
  BY DEF TypeInv, AuthorityInv
<1>2. nextGen \in Nat
  BY <1>1, WinsizeOwnerAssumption DEF OwnerTyped
<1>3. /\ UNCHANGED <<override, viewed, pending, nextGen, reclaimed, conn, token>>
      /\ leases' = {[l EXCEPT !.ttl = @ - 1] : l \in {k \in leases : k.ttl > 1}}
      /\ zeroAge' = IF Serving = {} THEN Min({zeroAge + 1, Grace}) ELSE 0
  BY DEF Tick, linkVars
<1>4. \A l \in leases' : \E k \in leases : l.c = k.c /\ l.s = k.s /\ l.g = k.g
  <2>1. \A k \in leases : /\ [k EXCEPT !.ttl = @ - 1].c = k.c /\ [k EXCEPT !.ttl = @ - 1].s = k.s
                          /\ [k EXCEPT !.ttl = @ - 1].g = k.g
    BY <1>1 DEF OwnerTyped
  <2> QED
    BY <1>3, <2>1
<1>5. Evolves
  BY <1>2, <1>3, <1>4 DEF Evolves
<1>6. ~ Present => ~ Present'
  <2> SUFFICES ASSUME ~ Present PROVE ~ Present'
    OBVIOUS
  <2>1. Serving = {} /\ ~ (zeroAge < Grace) /\ zeroAge \in 0 .. Grace /\ Grace \in Nat
    BY <1>1, WinsizeOwnerAssumption DEF Present, OwnerTyped
  <2>2. Min({zeroAge + 1, Grace}) = Grace
    BY <2>1, MinPair
  <2>3. zeroAge' = Grace /\ Serving' = {}
    BY <1>3, <2>1, <2>2 DEF Serving
  <2> QED
    BY <2>1, <2>3 DEF Present
<1> QED
  BY <1>3, <1>5, <1>6 DEF Uncovers, Hidden

\* Generations stay below the allocator.
LEMMA EvolvedBelow ==
    ASSUME TypeInv, GensBelow, Evolves, nextGen' \in Nat
    PROVE  GensBelow'
<1>1. /\ nextGen \in Nat /\ viewed.g \in Nat /\ pending.g \in Nat /\ nextGen > 0
      /\ \A l \in leases : l.g \in Nat
      /\ \A c \in Conn, s \in Sess : token[c][s].g \in Nat
  BY WinsizeOwnerAssumption DEF TypeInv, OwnerTyped, LinkTyped, ClaimSet, Gens
<1>2. nextGen <= nextGen'
  BY DEF Evolves
<1>3. viewed'.g < nextGen'
  <2>1. \/ viewed' = viewed \/ viewed'.g = 0
        \/ nextGen <= viewed'.g /\ viewed'.g < nextGen'
        \/ pending.g # 0 /\ viewed' = Claim(pending.c, pending.s, pending.g)
    BY DEF Evolves
  <2>2. Claim(pending.c, pending.s, pending.g).g = pending.g
    BY DEF Claim
  <2> QED
    BY <1>1, <1>2, <2>1, <2>2 DEF GensBelow
<1>4. pending'.g < nextGen'
  BY <1>1, <1>2 DEF Evolves, GensBelow, NoPending
<1>5. \A l \in leases' : l.g < nextGen'
  BY <1>1, <1>2 DEF Evolves, GensBelow
<1>6. \A c \in Conn, s \in Sess : token'[c][s].g < nextGen'
  BY <1>1, <1>2 DEF Evolves, GensBelow
<1> QED
  BY <1>3, <1>4, <1>5, <1>6 DEF GensBelow

\* An Attach that stays pending keeps what it stands on.
LEMMA StaysPending ==
    ASSUME TypeInv, AuthorityInv, Evolves, pending' = pending, pending.g # 0,
           override' # "local", conn'[pending.c] \in {"up", "cleared"},
           token'[pending.c][pending.s].g = pending.g
    PROVE  PendingOwn'
<1>1. /\ nextGen \in Nat /\ viewed.g \in Nat /\ pending.g \in Nat /\ pending.g < nextGen
      /\ pending.c \in Conn /\ pending.s \in Sess /\ viewed.g # pending.g
      /\ \A l \in leases : l.g # pending.g
  BY WinsizeOwnerAssumption DEF TypeInv, OwnerTyped, ClaimSet, Gens, AuthorityInv, GensBelow, PendingOwn
<1>2. pending' # NoPending
  BY DEF NoPending
<1>3. viewed'.g # pending.g
  BY <1>1, <1>2 DEF Evolves
<1>4. \A l \in leases' : l.g # pending.g
  BY <1>1 DEF Evolves
<1> QED
  BY <1>1, <1>3, <1>4 DEF PendingOwn

\* No Attach is pending.
LEMMA NothingPending == pending' = NoPending => PendingOwn' /\ (LinkTyped' => TokenOwn')
BY DEF PendingOwn, TokenOwn, NoPending

\* The authority invariant after a step of a connection.
LEMMA ConnAuthority ==
    ASSUME TypeInv, TypeInv', AuthorityInv, NEW c \in Conn, ConnStep(c)
    PROVE  AuthorityInv'
<1>1. /\ OwnerTyped /\ LinkTyped /\ OpNamed /\ PendingOwn /\ LeaseInv /\ GensBelow /\ TokenOwn
      /\ LinkTyped' /\ OwnerTyped'
  BY DEF TypeInv, AuthorityInv
<1>2. Evolves
  BY ConnEvolves
<1>3. GensBelow'
  <2>1. nextGen' \in Nat
    BY <1>1, WinsizeOwnerAssumption DEF OwnerTyped
  <2> QED
    BY <1>1, <1>2, <2>1, EvolvedBelow
<1>4. \A S : \A d \in Conn, s \in Sess : Superseded(S)[d][s].g = token[d][s].g
  BY <1>1, SupersededFacts
<1>5. CASE pending' = NoPending
  <2>1. PendingOwn' /\ TokenOwn'
    BY <1>1, <1>5, NothingPending
  <2> QED
    BY <1>3, <2>1, ConnLeases DEF AuthorityInv
<1>6. CASE /\ UNCHANGED <<override, pending, token>>
           /\ pending.g # 0 => conn'[pending.c] \in {conn[pending.c], "cleared"}
  <2>1. TokenOwn'
    BY <1>1, <1>6 DEF TokenOwn
  <2>2. PendingOwn'
    <3>1. CASE pending.g = 0
      BY <1>1, <1>5, <1>6, <3>1, NothingPending DEF PendingOwn
    <3>2. CASE pending.g # 0
      BY <1>1, <1>2, <1>6, <3>2, StaysPending DEF PendingOwn
    <3> QED
      BY <3>1, <3>2
  <2> QED
    BY <1>3, <2>1, <2>2, ConnLeases DEF AuthorityInv
<1>7. CASE Connect(c) \/ CloseLeases(c) \/ CloseSlot(c)
  <2>1. UNCHANGED <<override, pending, token>> /\ (conn[c] \notin {"up", "cleared"} \/ conn'[c] = "cleared")
    BY <1>1, <1>7 DEF Connect, CloseLeases, CloseSlot, linkVars, ownerVars, LinkTyped
  <2>2. \A d \in Conn \ {c} : conn'[d] = conn[d]
    BY <1>1, <1>7 DEF Connect, CloseLeases, CloseSlot, LinkTyped
  <2>3. pending.g # 0 => conn'[pending.c] \in {conn[pending.c], "cleared"}
    BY <1>1, <2>1, <2>2 DEF PendingOwn
  <2> QED
    BY <1>6, <2>1, <2>3
<1>8. CASE \E v \in {"local", "remote"} : SetSelected(c, v)
  <2>1. PICK v \in {"local", "remote"} : SetSelected(c, v)
    BY <1>8
  <2>2. CASE override # v
    BY <1>5, <2>1, <2>2 DEF SetSelected
  <2>3. CASE override = v
    BY <1>6, <2>1, <2>3 DEF SetSelected
  <2> QED
    BY <2>2, <2>3
<1>9. CASE \E s \in Sess : AttachViewed(c, s)
  <2>1. PICK s \in Sess : AttachViewed(c, s)
    BY <1>9
  <2>2. CASE override = "local" \/ (s \in Restored /\ <<viewed.c, viewed.s>> = <<c, s>>)
    BY <1>5, <2>1, <2>2 DEF AttachViewed
  <2>3. CASE ~ (override = "local" \/ (s \in Restored /\ <<viewed.c, viewed.s>> = <<c, s>>))
    <3>1. /\ pending' = [c |-> c, s |-> s, g |-> nextGen, rec |-> s \in Restored]
          /\ token' = [Superseded(Sess) EXCEPT ![c][s] = Token(nextGen)]
          /\ override # "local" /\ ~ Exhausted /\ conn[c] = "up"
          /\ UNCHANGED <<override, viewed, leases, conn>>
      BY <2>1, <2>3 DEF AttachViewed, Ready
    <3>2. nextGen \in Gens \ {0}
      BY <1>1, <3>1, AfterOne DEF OwnerTyped
    <3>3. pending'.c = c /\ pending'.s = s /\ pending'.g = nextGen
      BY <3>1
    <3>4. token'[c][s] = Token(nextGen) /\ token'[c][s].g = nextGen /\ token'[c][s].ok
      BY <1>1, <3>1, <3>2, TokenFacts, SupersededFacts
    <3>5. \A d \in Conn, t \in Sess : <<d, t>> # <<c, s>> => token'[d][t].g = token[d][t].g
      BY <1>1, <1>4, <3>1, SupersededFacts
    <3>6. \A d \in Conn, t \in Sess : token[d][t].g < nextGen /\ token[d][t].g \in Nat /\ nextGen \in Nat
      BY <1>1, <3>2 DEF GensBelow, LinkTyped, Gens
    <3>7. \A d \in Conn, t \in Sess : <<d, t>> # <<c, s>> => token'[d][t].g # nextGen
      BY <3>5, <3>6
    <3>8. TokenOwn'
      BY <3>3, <3>4, <3>7 DEF TokenOwn
    <3>9. viewed.g # nextGen /\ \A l \in leases : l.g # nextGen
      <4>1. /\ viewed.g < nextGen /\ viewed.g \in Nat /\ nextGen \in Nat
            /\ \A l \in leases : l.g < nextGen /\ l.g \in Nat
        BY <1>1, <3>2 DEF GensBelow, OwnerTyped, ClaimSet, Gens
      <4> QED
        BY <4>1
    <3>10. PendingOwn'
      BY <3>1, <3>2, <3>3, <3>4, <3>9 DEF PendingOwn
    <3> QED
      BY <1>3, <3>8, <3>10, ConnLeases DEF AuthorityInv
  <2> QED
    BY <2>2, <2>3
<1>10. CASE \E S \in SUBSET Sess : Cancel(c, S) /\ override' = override /\ (conn' = conn \/ (CloseBridge(c) /\ S = Sess))
  <2>1. PICK S \in SUBSET Sess : Cancel(c, S) /\ override' = override /\ (conn' = conn \/ (CloseBridge(c) /\ S = Sess))
    BY <1>10
  <2>2. CASE \E s \in S : token[c][s].g # 0 /\ token[c][s].g = pending.g
    BY <1>5, <2>1, <2>2 DEF Cancel
  <2>3. CASE ~ \E s \in S : token[c][s].g # 0 /\ token[c][s].g = pending.g
    <3>1. /\ pending' = pending
          /\ token' = [token EXCEPT ![c] = [s \in Sess |-> IF s \in S THEN NoToken ELSE @[s]]]
      BY <2>1, <2>3 DEF Cancel
    <3>2. /\ \A d \in Conn \ {c}, s \in Sess : token'[d][s] = token[d][s]
          /\ \A s \in Sess \ S : token'[c][s] = token[c][s]
          /\ \A s \in S : token'[c][s] = NoToken
      BY <1>1, <3>1 DEF LinkTyped
    <3>3. TokenOwn'
      BY <1>1, <3>1, <3>2, TokenFacts DEF TokenOwn
    <3>4. PendingOwn'
      <4>1. CASE pending.g = 0
        BY <1>1, <3>1, <4>1, NothingPending DEF PendingOwn
      <4>2. CASE pending.g # 0
        <5>1. pending.c \in Conn /\ pending.s \in Sess /\ token[pending.c][pending.s].g = pending.g
              /\ conn[pending.c] \in {"up", "cleared"} /\ override # "local"
          BY <1>1, <4>2 DEF PendingOwn
        <5>2. ~ (pending.c = c /\ pending.s \in S)
          BY <2>3, <4>2, <5>1
        <5>3. token'[pending.c][pending.s].g = pending.g
          BY <3>2, <5>1, <5>2
        <5>4. conn'[pending.c] \in {"up", "cleared"}
          BY <1>1, <2>1, <5>1, <5>2 DEF CloseBridge, LinkTyped
        <5> QED
          BY <1>2, <2>1, <3>1, <4>2, <5>1, <5>3, <5>4, StaysPending
      <4> QED
        BY <4>1, <4>2
    <3> QED
      BY <1>3, <3>3, <3>4, ConnLeases DEF AuthorityInv
  <2> QED
    BY <2>2, <2>3
<1>11. CASE (\E s \in Sess : Detach(c, s)) \/ CloseBridge(c)
  <2>1. (\A s \in Sess : {s} \in SUBSET Sess) /\ Sess \in SUBSET Sess
    OBVIOUS
  <2>2. CASE \E s \in Sess : Detach(c, s)
    <3>1. PICK s \in Sess : Detach(c, s)
      BY <2>2
    <3>2. Cancel(c, {s}) /\ override' = override /\ conn' = conn
      BY <3>1 DEF Detach
    <3> QED
      BY <1>10, <2>1, <3>2
  <2>3. CASE CloseBridge(c)
    <3>1. Cancel(c, Sess) /\ override' = override
      BY <2>3 DEF CloseBridge
    <3> QED
      BY <1>10, <2>1, <2>3, <3>1
  <2> QED
    BY <1>11, <2>2, <2>3
<1>12. CASE \E s \in Sess : Grid(c, s)
  <2>1. PICK s \in Sess : Grid(c, s)
    BY <1>12
  <2>2. CASE token[c][s].g # 0 /\ token[c][s].g = pending.g
    BY <1>5, <2>1, <2>2 DEF Grid
  <2>3. CASE ~ (token[c][s].g # 0 /\ token[c][s].g = pending.g)
    <3>1. pending' = pending /\ token' = [token EXCEPT ![c][s] = NoToken] /\ UNCHANGED <<override, conn>>
      BY <2>1, <2>3 DEF Grid
    <3>2. /\ \A d \in Conn, t \in Sess : <<d, t>> # <<c, s>> => token'[d][t] = token[d][t]
          /\ token'[c][s] = NoToken
      BY <1>1, <3>1 DEF LinkTyped
    <3>3. TokenOwn'
      BY <1>1, <3>1, <3>2, TokenFacts DEF TokenOwn
    <3>4. CASE pending.g = 0
      BY <1>1, <1>5, <3>1, <3>4 DEF PendingOwn
    <3>5. CASE pending.g # 0
      <4>1. pending.c \in Conn /\ pending.s \in Sess /\ token[pending.c][pending.s].g = pending.g
            /\ conn[pending.c] \in {"up", "cleared"} /\ override # "local"
        BY <1>1, <3>5 DEF PendingOwn
      <4>2. <<pending.c, pending.s>> # <<c, s>>
        BY <2>3, <3>5, <4>1
      <4>3. token'[pending.c][pending.s].g = pending.g
        BY <3>2, <4>1, <4>2
      <4>4. PendingOwn'
        BY <1>2, <3>1, <3>5, <4>1, <4>3, StaysPending
      <4> QED
        BY <1>3, <3>3, <4>4, ConnLeases DEF AuthorityInv
    <3> QED
      BY <3>4, <3>5
  <2> QED
    BY <2>2, <2>3
<1>13. CASE ResizeNote(c)
  BY <1>5, <1>13 DEF ResizeNote
<1>14. CASE \/ EagerPublish(c) \/ ResizeQueue(c) \/ CreateCommit(c) \/ CreateRollback(c)
            \/ \E s \in Sess : AttachPlain(c, s) \/ CreateReserve(c, s) \/ \E v \in BOOLEAN : ResizeCheck(c, s, v)
  <2>1. UNCHANGED <<override, pending, token, conn>>
    BY <1>14 DEF EagerPublish, ResizeQueue, CreateCommit, CreateRollback, AttachPlain, CreateReserve,
                 ResizeCheck, linkVars, ownerVars
  <2> QED
    BY <1>6, <2>1
<1> QED
  BY <1>7, <1>8, <1>9, <1>11, <1>12, <1>13, <1>14 DEF ConnStep

\* What a step of a connection, time, a poll or a read leaves alone, and what the
\* reclaim, the only other step of the owner state but a launch, changes.
LEMMA OtherSteps ==
    ASSUME [Next]_vars
    PROVE  \/ \E c \in Conn : ConnStep(c)
           \/ UNCHANGED <<ownerVars, conn, token>>
           \/ Tick
           \/ \E s \in Sess : HostReclaim(s)
           \/ Restart
BY DEF Next, vars, PollCheck, PollPublish, HostSnapshot, linkVars

\* A reclaim drops the claims on its pane and issues nothing.
LEMMA ReclaimShape ==
    ASSUME TypeInv, NEW s \in Sess, HostReclaim(s), StillExact[s]
    PROVE  /\ UNCHANGED <<override, viewed, nextGen, zeroAge, conn>>
           /\ pending' = IF pending.s = s THEN NoPending ELSE pending
           /\ reclaimed' = reclaimed \cup {s}
           /\ leases' = {l \in leases : l.s # s}
           /\ token' = Superseded({s})
           /\ \A d \in Conn, t \in Sess : token'[d][t].g = token[d][t].g
           /\ \A d \in Conn, t \in Sess : t # s => token'[d][t] = token[d][t]
<1>1. LinkTyped
  BY DEF TypeInv
<1>2. /\ UNCHANGED <<override, viewed, nextGen, zeroAge, conn>>
      /\ pending' = IF pending.s = s THEN NoPending ELSE pending
      /\ reclaimed' = reclaimed \cup {s}
      /\ leases' = {l \in leases : l.s # s}
      /\ token' = Superseded({s})
  BY DEF HostReclaim
<1>3. \A d \in Conn, t \in Sess : Superseded({s})[d][t].g = token[d][t].g
  BY <1>1, SupersededFacts
<1>4. \A d \in Conn, t \in Sess : t # s => Superseded({s})[d][t] = token[d][t]
  BY DEF Superseded
<1> QED
  BY <1>2, <1>3, <1>4

\* ... or it is refused and changes no claim.
LEMMA ReclaimRefused ==
    ASSUME NEW s \in Sess, HostReclaim(s), ~ StillExact[s]
    PROVE  UNCHANGED <<ownerVars, conn, token>>
BY DEF HostReclaim, ownerVars

\* The authority invariant where nothing it speaks of changes, ...
LEMMA AuthorityKept == AuthorityInv /\ UNCHANGED <<ownerVars, conn, token>> => AuthorityInv'
<1> SUFFICES ASSUME AuthorityInv, UNCHANGED <<ownerVars, conn, token>> PROVE AuthorityInv'
  OBVIOUS
<1>1. /\ viewed' = viewed /\ nextGen' = nextGen /\ pending' = pending /\ leases' = leases
      /\ override' = override /\ conn' = conn /\ token' = token
  BY DEF ownerVars
<1>2. GensBelow' /\ PendingOwn'
  BY <1>1 DEF AuthorityInv, GensBelow, PendingOwn
<1>3. TokenOwn'
  BY <1>1 DEF AuthorityInv, TokenOwn
<1>4. LeaseInv'
  BY <1>1 DEF AuthorityInv, LeaseInv, LeaseAwaitsViewing
<1> QED
  BY <1>2, <1>3, <1>4 DEF AuthorityInv

\* ... at a launch, ...
LEMMA LaunchAuthority ==
    /\ Init => AuthorityInv
    /\ Restart => AuthorityInv'
<1>1. NoView.g = 0 /\ NoPending.g = 0 /\ NoToken.g = 0
  BY DEF NoView, Claim, NoPending, NoToken, Token
<1>2. ASSUME Init PROVE AuthorityInv
  <2>1. /\ viewed = NoView /\ nextGen = 1 /\ pending = NoPending /\ leases = {} /\ override = "none"
        /\ token = [c \in Conn |-> [s \in Sess |-> NoToken]]
    BY <1>2 DEF Init
  <2>2. \A c \in Conn, s \in Sess : token[c][s].g = 0
    BY <1>1, <2>1
  <2> HIDE DEF NoPending
  <2> QED
    BY <1>1, <2>1, <2>2 DEF AuthorityInv, GensBelow, PendingOwn, TokenOwn, LeaseInv, LeaseAwaitsViewing
<1>3. ASSUME Restart PROVE AuthorityInv'
  <2>1. /\ viewed' = NoView /\ nextGen' = 1 /\ pending' = NoPending /\ leases' = {} /\ override' = "none"
        /\ token' = [c \in Conn |-> [s \in Sess |-> NoToken]]
    BY <1>3 DEF Restart
  <2>2. \A c \in Conn, s \in Sess : token'[c][s].g = 0
    BY <1>1, <2>1
  <2> QED
    BY <1>1, <2>1, <2>2 DEF AuthorityInv, GensBelow, PendingOwn, TokenOwn, LeaseInv, LeaseAwaitsViewing
<1> QED
  BY <1>2, <1>3

\* ... and after any step.
LEMMA StepAuthority ==
    ASSUME TypeInv, TypeInv', AuthorityInv, [Next]_vars
    PROVE  AuthorityInv'
<1>1. /\ OwnerTyped /\ LinkTyped /\ PendingOwn /\ LeaseInv /\ GensBelow /\ TokenOwn
      /\ LinkTyped' /\ OwnerTyped' /\ nextGen' \in Nat
  BY WinsizeOwnerAssumption DEF TypeInv, AuthorityInv, OwnerTyped
<1>2. CASE \E c \in Conn : ConnStep(c)
  BY <1>2, ConnAuthority
<1>3. CASE UNCHANGED <<ownerVars, conn, token>>
  BY <1>3, AuthorityKept
<1>4. CASE Tick
  <2>1. Evolves
    BY <1>4, TickEvolves
  <2>2. GensBelow'
    BY <1>1, <2>1, EvolvedBelow
  <2>3. UNCHANGED <<override, pending, conn, token>>
    BY <1>4 DEF Tick, linkVars
  <2>4. TokenOwn'
    BY <1>1, <2>3 DEF TokenOwn
  <2>5. PendingOwn'
    <3>1. CASE pending.g = 0
      BY <1>1, <2>3, <3>1, NothingPending DEF PendingOwn
    <3>2. CASE pending.g # 0
      BY <1>1, <2>1, <2>3, <3>2, StaysPending DEF PendingOwn
    <3> QED
      BY <3>1, <3>2
  <2>6. viewed' = viewed /\ \A l \in leases' : \E k \in leases : l.c = k.c /\ l.s = k.s
    <3>1. viewed' = viewed /\ leases' = {[l EXCEPT !.ttl = @ - 1] : l \in {k \in leases : k.ttl > 1}}
      BY <1>4 DEF Tick
    <3>2. \A k \in leases : [k EXCEPT !.ttl = @ - 1].c = k.c /\ [k EXCEPT !.ttl = @ - 1].s = k.s
      BY <1>1 DEF OwnerTyped
    <3> QED
      BY <3>1, <3>2
  <2>7. LeaseInv'
    BY <1>1, <2>3, <2>6 DEF LeaseInv, LeaseAwaitsViewing
  <2> QED
    BY <2>2, <2>4, <2>5, <2>7 DEF AuthorityInv
<1>5. CASE \E s \in Sess : HostReclaim(s)
  <2>1. PICK s \in Sess : HostReclaim(s)
    BY <1>5
  <2>2. CASE ~ StillExact[s]
    BY <1>3, <2>1, <2>2, ReclaimRefused
  <2>3. CASE StillExact[s]
    <3>1. /\ UNCHANGED <<override, viewed, nextGen, conn>> /\ leases' = {l \in leases : l.s # s}
          /\ pending' = IF pending.s = s THEN NoPending ELSE pending
          /\ \A d \in Conn, t \in Sess : token'[d][t].g = token[d][t].g
          /\ \A d \in Conn, t \in Sess : t # s => token'[d][t] = token[d][t]
      BY <2>1, <2>3, ReclaimShape
    <3>2. nextGen \in Nat /\ nextGen > 0
      BY <1>1, WinsizeOwnerAssumption DEF OwnerTyped
    <3>3. GensBelow'
      BY <1>1, <3>1, <3>2 DEF GensBelow, NoPending
    <3>4. LeaseInv'
      BY <1>1, <3>1 DEF LeaseInv, LeaseAwaitsViewing
    <3>5. PendingOwn' /\ TokenOwn'
      <4>1. CASE pending.s = s
        BY <1>1, <3>1, <4>1, NothingPending
      <4>2. CASE pending.s # s
        <5>1. pending' = pending
          BY <3>1, <4>2
        <5>2. PendingOwn'
          BY <1>1, <3>1, <4>2, <5>1 DEF PendingOwn
        <5>3. TokenOwn'
          <6> SUFFICES ASSUME NEW d \in Conn, NEW t \in Sess,
                              token'[d][t].g # 0, token'[d][t].g = pending'.g
                       PROVE  token'[d][t].ok /\ pending'.c = d /\ pending'.s = t
            BY DEF TokenOwn
          <6>1. token[d][t].ok /\ pending.c = d /\ pending.s = t
            BY <1>1, <3>1, <5>1 DEF TokenOwn
          <6>2. token'[d][t] = token[d][t]
            BY <3>1, <4>2, <6>1
          <6> QED
            BY <5>1, <6>1, <6>2
        <5> QED
          BY <5>2, <5>3
      <4> QED
        BY <4>1, <4>2
    <3> QED
      BY <3>3, <3>4, <3>5 DEF AuthorityInv
  <2> QED
    BY <2>2, <2>3
<1>6. CASE Restart
  BY <1>6, LaunchAuthority
<1> QED
  BY <1>2, <1>3, <1>4, <1>5, <1>6, OtherSteps

\* Every creation lease is held for a browser whose control loop runs and that does
\* not view the pane yet, for any number of connections, sessions and calls under way.
THEOREM LeasesAwaitViewing == Spec => []LeaseAwaitsViewing
<1>1. Init => TypeInv /\ AuthorityInv
  BY InitTyped, LaunchAuthority
<1>2. TypeInv /\ AuthorityInv /\ [Next]_vars => TypeInv' /\ AuthorityInv'
  BY StepTyped, StepAuthority
<1>3. TypeInv /\ AuthorityInv => LeaseAwaitsViewing
  BY DEF AuthorityInv, LeaseInv
<1> QED
  BY <1>1, <1>2, <1>3, PTL DEF Spec

\* A viewed Attach takes ownership only with a token that nothing superseded: the
\* one generation a step can give the viewed claim without issuing it is that of
\* the pending Attach.
THEOREM DeferredClaimsAreCurrent == Spec => DeferredIsCurrent
<1>1. Init => TypeInv /\ AuthorityInv
  BY InitTyped, LaunchAuthority
<1>2. TypeInv /\ AuthorityInv /\ [Next]_vars => TypeInv' /\ AuthorityInv'
  BY StepTyped, StepAuthority
<1>3. TypeInv /\ AuthorityInv /\ [Next]_vars =>
        [\A c \in Conn, s \in Sess :
          viewed'.g = token[c][s].g /\ viewed'.g \notin {0, viewed.g} => token[c][s].ok]_vars
  <2> SUFFICES ASSUME TypeInv, AuthorityInv, [Next]_vars, NEW c \in Conn, NEW s \in Sess,
                      viewed'.g = token[c][s].g, viewed'.g \notin {0, viewed.g}
               PROVE  token[c][s].ok
    OBVIOUS
  <2>1. /\ nextGen \in Nat /\ token[c][s].g \in Nat /\ token[c][s].g < nextGen /\ TokenOwn
    BY WinsizeOwnerAssumption DEF TypeInv, OwnerTyped, LinkTyped, Gens, AuthorityInv, GensBelow
  <2>2. viewed' # viewed
    OBVIOUS
  <2>3. CASE Evolves
    <3>1. viewed' = Claim(pending.c, pending.s, pending.g)
      BY <2>1, <2>2, <2>3 DEF Evolves
    <3>2. token[c][s].g = pending.g
      BY <3>1 DEF Claim
    <3> QED
      BY <2>1, <3>2 DEF TokenOwn
  <2>4. CASE \E s2 \in Sess : HostReclaim(s2)
    BY <2>2, <2>4 DEF HostReclaim
  <2>5. CASE Restart
    BY <2>5 DEF Restart, NoView, Claim
  <2>6. CASE UNCHANGED <<ownerVars, conn, token>>
    BY <2>2, <2>6 DEF ownerVars
  <2> QED
    BY <2>3, <2>4, <2>5, <2>6, OtherSteps, ConnEvolves, TickEvolves
<1> QED
  BY <1>1, <1>2, <1>3, PTL DEF Spec, DeferredIsCurrent

-----------------------------------------------------------------------------
(* Exact snapshots. *)

\* The claims on a pane are those that stand, unless they are hidden or reclaimed.
LEMMA ClaimsStanding ==
    /\ \A s : Claims(s) = IF Hidden \/ s \in reclaimed THEN {} ELSE Standing(s)
    /\ \A s : Claims(s)' = IF Hidden' \/ s \in reclaimed' THEN {} ELSE Standing(s)'
BY DEF Claims, Hidden, Standing

\* Where a claim that stands after a step comes from.
LEMMA WhereClaimsComeFrom ==
    ASSUME TypeInv, Evolves, NEW s \in Sess
    PROVE  /\ \A x \in Standing(s)' : x \in Standing(s) \/ x \in Reservations(s) \/ x.g >= nextGen
           /\ \A x \in Reservations(s)' : x \in Reservations(s) \/ x.g >= nextGen
<1>1. nextGen \in Nat /\ s # NoSess
  BY WinsizeOwnerAssumption DEF TypeInv, OwnerTyped
<1>2. ASSUME NEW x \in Standing(s)'
      PROVE  x \in Standing(s) \/ x \in Reservations(s) \/ x.g >= nextGen
  <2>1. CASE x = viewed' /\ x.s = s /\ x.g # 0
    <3>1. CASE viewed' = viewed
      BY <2>1, <3>1 DEF Standing
    <3>2. CASE nextGen <= viewed'.g
      BY <1>1, <2>1, <3>2
    <3>3. CASE viewed' = Claim(pending.c, pending.s, pending.g)
      <4>1. x = Claim(pending.c, pending.s, pending.g) /\ pending.s = s
        BY <2>1, <3>3 DEF Claim
      <4> QED
        BY <4>1 DEF Reservations
    <3> QED
      BY <2>1, <3>1, <3>2, <3>3 DEF Evolves
  <2>2. CASE \E l \in leases' : l.s = s /\ x = Claim(l.c, l.s, l.g)
    <3>1. PICK l \in leases' : l.s = s /\ x = Claim(l.c, l.s, l.g)
      BY <2>2
    <3>2. CASE \E k \in leases : l.c = k.c /\ l.s = k.s /\ l.g = k.g
      <4>1. PICK k \in leases : l.c = k.c /\ l.s = k.s /\ l.g = k.g
        BY <3>2
      <4>2. k.s = s /\ x = Claim(k.c, k.s, k.g)
        BY <3>1, <4>1
      <4> QED
        BY <4>1, <4>2 DEF Standing
    <3>3. CASE nextGen <= l.g
      BY <1>1, <3>1, <3>3 DEF Claim
    <3> QED
      BY <3>2, <3>3 DEF Evolves
  <2> QED
    BY <1>2, <2>1, <2>2 DEF Standing
<1>3. ASSUME NEW x \in Reservations(s)'
      PROVE  x \in Reservations(s) \/ x.g >= nextGen
  <2>1. pending'.s = s /\ x = Claim(pending'.c, pending'.s, pending'.g)
    BY <1>3 DEF Reservations
  <2>2. pending' # NoPending
    BY <1>1, <2>1 DEF NoPending
  <2>3. CASE pending' = pending
    BY <2>1, <2>3 DEF Reservations
  <2>4. CASE nextGen <= pending'.g
    BY <1>1, <2>1, <2>4 DEF Claim
  <2> QED
    BY <2>2, <2>3, <2>4 DEF Evolves
<1> QED
  BY <1>2, <1>3

\* A step that changes claims as connections and time do keeps a snapshot that
\* stays exact right about its pane.
LEMMA ExactKept ==
    ASSUME TypeInv, TypeInv', Evolves, Uncovers, NEW s \in Sess, ExactFor(s),
           adapter'[s] = adapter[s], held'[s].exact => held[s].exact,
           held'[s].shown = held[s].shown, held'[s].reserved = held[s].reserved,
           lapsed' \subseteq lapsed \cup (Sess \ (Owned' \cup reclaimed'))
    PROVE  ExactFor(s)'
<1> SUFFICES ASSUME held'[s].exact
             PROVE  /\ adapter'[s] # 0 /\ adapter'[s] < nextGen'
                    /\ \A x \in Reservations(s)' : x.g # adapter'[s]
                    /\ KnowsClaims(s)' /\ LapsedIsHidden(s)'
  BY DEF ExactFor
<1>1. /\ nextGen \in Nat /\ nextGen' \in Nat /\ nextGen <= nextGen' /\ adapter[s] \in Nat
  BY WinsizeOwnerAssumption DEF TypeInv, OwnerTyped, HostTyped, Gens, Evolves
<1>2. /\ adapter[s] # 0 /\ adapter[s] < nextGen
      /\ \A x \in Reservations(s) : x.g # adapter[s]
      /\ KnowsClaims(s) /\ LapsedIsHidden(s)
  BY DEF ExactFor
<1>3. adapter'[s] # 0 /\ adapter'[s] < nextGen'
  BY <1>1, <1>2
<1>4. \A x : x.g >= nextGen => x.g # adapter'[s] 
  BY <1>1, <1>2
<1>5. \A x \in Reservations(s)' : x.g # adapter'[s]
  BY <1>2, <1>4, WhereClaimsComeFrom
<1>6. ASSUME NEW x \in (Standing(s) \cup Reservations(s))'
      PROVE  x \in held'[s].shown \cup held'[s].reserved \/ x.g > adapter'[s]
  <2>1. CASE x \in Standing(s) \cup Reservations(s)
    BY <1>2, <2>1 DEF KnowsClaims
  <2>2. CASE x.g >= nextGen
    <3>1. x.g \in Nat
      BY <1>6 DEF TypeInv, OwnerTyped, ClaimSet, Gens, Standing, Reservations, Claim
    <3> QED
      BY <1>1, <1>2, <2>2, <3>1
  <2> QED
    BY <1>6, <2>1, <2>2, WhereClaimsComeFrom
<1>7. KnowsClaims(s)'
  BY <1>6 DEF KnowsClaims
<1>8. ASSUME s \in lapsed', NEW x \in Standing(s)', x.g = adapter'[s]
      PROVE  s \notin reclaimed' /\ Hidden'
  <2>1. x \in Standing(s)
    BY <1>2, <1>4, <1>8, WhereClaimsComeFrom
  <2>2. CASE s \in lapsed
    <3>1. s \in Sess \ reclaimed /\ Hidden
      BY <1>2, <1>8, <2>1, <2>2 DEF LapsedIsHidden
    <3>2. ~ (x.g >= nextGen)
      BY <1>4, <1>8
    <3> QED
      BY <1>8, <3>1, <3>2 DEF Uncovers
  <2>3. CASE s \notin lapsed
    <3>1. s \notin Owned' /\ s \notin reclaimed'
      BY <1>8, <2>3
    <3>2. Claims(s)' = {}
      BY <3>1 DEF Owned
    <3> QED
      BY <1>8, <3>1, <3>2, ClaimsStanding
  <2> QED
    BY <2>2, <2>3
<1>9. LapsedIsHidden(s)'
  BY <1>8 DEF LapsedIsHidden
<1> QED
  BY <1>3, <1>5, <1>7, <1>9

\* What a pane with a claim stands for: the largest generation of its claims.
LEMMA OwnedAuthority ==
    ASSUME TypeInv, AuthorityInv, NEW s \in Owned
    PROVE  /\ Authority(s) \in Nat /\ Authority(s) # 0 /\ Authority(s) < nextGen
           /\ \A x \in Claims(s) : x.g \in Nat /\ x.g <= Authority(s)
           /\ \E x \in Claims(s) : x.g = Authority(s)
           /\ Claims(s) = Standing(s) /\ ~ Hidden /\ s \notin reclaimed
           /\ \A x \in Reservations(s) : x.g # Authority(s)
<1>1. /\ OwnerTyped /\ GensBelow /\ PendingOwn /\ s \in Sess /\ Claims(s) # {} /\ nextGen \in Nat
      /\ s # NoSess
  BY WinsizeOwnerAssumption DEF TypeInv, AuthorityInv, Owned, OwnerTyped
<1>2. Claims(s) = Standing(s) /\ ~ Hidden /\ s \notin reclaimed
  BY <1>1, ClaimsStanding
<1>3. \A x \in Standing(s) : x.g \in Gens \ {0} /\ x.g < nextGen /\ (pending.g # 0 => x.g # pending.g)
  <2> TAKE x \in Standing(s)
  <2>1. CASE x = viewed /\ x.g # 0
    BY <1>1, <2>1 DEF OwnerTyped, ClaimSet, GensBelow, PendingOwn
  <2>2. CASE \E l \in leases : x = Claim(l.c, l.s, l.g)
    BY <1>1, <2>2 DEF OwnerTyped, Claim, GensBelow, PendingOwn
  <2> QED
    BY <2>1, <2>2 DEF Standing
<1>4. {x.g : x \in Claims(s)} \in SUBSET Gens /\ {x.g : x \in Claims(s)} # {}
  BY <1>1, <1>2, <1>3
<1>5. /\ Authority(s) \in {x.g : x \in Claims(s)}
      /\ \A y \in {x.g : x \in Claims(s)} : Authority(s) >= y
  BY <1>4, MaxIsLargest DEF Authority
<1>6. PICK m \in Claims(s) : m.g = Authority(s)
  BY <1>5
<1>7. Authority(s) \in Gens \ {0} /\ Authority(s) < nextGen /\ (pending.g # 0 => Authority(s) # pending.g)
  BY <1>2, <1>3, <1>6
<1>8. \A x \in Reservations(s) : x.g # Authority(s)
  <2> TAKE x \in Reservations(s)
  <2>1. pending.s = s /\ x.g = pending.g
    BY DEF Reservations, Claim
  <2>2. pending.g # 0
    BY <1>1, <2>1 DEF PendingOwn, NoPending
  <2> QED
    BY <1>7, <2>1, <2>2
<1>9. \A x \in Claims(s) : x.g \in Nat /\ x.g <= Authority(s)
  BY <1>2, <1>3, <1>5, <1>7 DEF Gens
<1>10. Authority(s) \in Nat
  BY <1>7 DEF Gens
<1> QED
  BY <1>2, <1>6, <1>7, <1>8, <1>9, <1>10

\* A reclaim changes claims as a connection does: what it uncovers was seen.
LEMMA ReclaimEvolves ==
    ASSUME TypeInv, AuthorityInv, NEW s \in Sess, HostReclaim(s)
    PROVE  Evolves /\ Uncovers
<1>1. OwnerTyped /\ PendingOwn /\ nextGen \in Nat
  BY WinsizeOwnerAssumption DEF TypeInv, AuthorityInv, OwnerTyped
<1>2. CASE ~ StillExact[s]
  <2>1. UNCHANGED <<ownerVars, conn, token>>
    BY <1>2, ReclaimRefused
  <2>2. reclaimed' \subseteq Restored
    BY <1>1, <2>1, RestoredTyped DEF ownerVars
  <2> QED
    BY <1>1, <2>1, <2>2, Quiet, PresentKept DEF ownerVars
<1>3. CASE StillExact[s]
  <2>1. /\ UNCHANGED <<viewed, nextGen>>
        /\ pending' \in {NoPending, pending}
        /\ leases' \subseteq leases
        /\ \A d \in Conn, t \in Sess : token'[d][t].g = token[d][t].g
    BY <1>3, ReclaimShape
  <2>2. Evolves
    BY <1>1, <2>1 DEF Evolves
  <2>3. s \in Owned
    BY <1>3 DEF StillExact, Reconciled
  <2>4. ~ Hidden
    BY <2>3, OwnedAuthority
  <2> QED
    BY <2>2, <2>4 DEF Uncovers
<1> QED
  BY <1>2, <1>3

\* Every step but a snapshot and a launch records what lapses.
LEMMA LapseSteps ==
    ASSUME [Next]_vars
    PROVE  \/ lapsed' \subseteq lapsed \cup (Sess \ (Owned' \cup reclaimed'))
           \/ HostSnapshot
<1>1. ASSUME NEW c \in Conn, ConnStep(c)
      PROVE  Lapse
  <2>1. CASE Connect(c) \/ \E v \in {"local", "remote"} : SetSelected(c, v)
    BY <2>1 DEF Connect, SetSelected
  <2>2. CASE \E s \in Sess : \/ AttachViewed(c, s) \/ AttachPlain(c, s) \/ Detach(c, s)
                            \/ Grid(c, s) \/ \E v \in BOOLEAN : ResizeCheck(c, s, v)
                            \/ CreateReserve(c, s)
    BY <2>2 DEF AttachViewed, AttachPlain, Detach, Grid, ResizeCheck, CreateReserve
  <2>3. CASE \/ EagerPublish(c) \/ ResizeQueue(c) \/ ResizeNote(c) \/ CreateCommit(c)
             \/ CreateRollback(c) \/ CloseLeases(c) \/ CloseBridge(c) \/ CloseSlot(c)
    BY <2>3 DEF EagerPublish, ResizeQueue, ResizeNote, CreateCommit, CreateRollback, CloseLeases,
                CloseBridge, CloseSlot
  <2> QED
    BY <1>1, <2>1, <2>2, <2>3 DEF ConnStep
<1>2. CASE UNCHANGED vars
  BY <1>2 DEF vars
<1>3. CASE PollCheck \/ PollPublish \/ Tick \/ Restart \/ \E s \in Sess : HostReclaim(s)
  <2>1. Lapse
    BY <1>3 DEF PollCheck, PollPublish, Tick, Restart, HostReclaim
  <2> QED
    BY <2>1 DEF Lapse
<1>4. CASE Lapse
  BY <1>4 DEF Lapse
<1> QED
  BY <1>1, <1>2, <1>3, <1>4 DEF Next

\* Snapshots that are exact know the claims they stand for, after any step, and a
\* reclaim that is not refused takes away only those.
LEMMA StepExact ==
    ASSUME TypeInv, TypeInv', AuthorityInv, ExactInv, ReclaimIsCurrent, [Next]_vars
    PROVE  ExactInv' /\ ReclaimIsCurrent'
<1>1. /\ held \in [Sess -> [exact : BOOLEAN, shown : SUBSET ClaimSet, reserved : SUBSET ClaimSet]]
      /\ OwnerTyped /\ PendingOwn
  BY DEF TypeInv, HostTyped, AuthorityInv
<1>2. CASE UNCHANGED hostVars /\ ~ HostSnapshot /\ ~ Restart /\ ~ \E s \in Sess : HostReclaim(s)
  <2>1. Evolves /\ Uncovers
    <3>1. CASE UNCHANGED <<ownerVars, conn, token>>
      <4>1. reclaimed' \subseteq Restored
        BY <1>1, <3>1, RestoredTyped DEF ownerVars
      <4>2. \A c \in Conn, s \in Sess : token'[c][s].g \in {0, token[c][s].g}
        BY <3>1
      <4> QED
        BY <1>1, <3>1, <4>1, <4>2, Quiet, PresentKept DEF ownerVars
    <3> QED
      BY <1>2, <3>1, OtherSteps, ConnEvolves, TickEvolves
  <2>2. adapter' = adapter /\ held' = held /\ wrong' = wrong
    BY <1>2 DEF hostVars
  <2>3. lapsed' \subseteq lapsed \cup (Sess \ (Owned' \cup reclaimed'))
    BY <1>2, LapseSteps
  <2>4. ASSUME NEW s \in Sess PROVE ExactFor(s)'
    <3>1. ExactFor(s) /\ adapter'[s] = adapter[s] /\ held'[s] = held[s]
      BY <2>2 DEF ExactInv
    <3> QED
      BY <2>1, <2>3, <3>1, ExactKept
  <2> QED
    BY <2>2, <2>4 DEF ExactInv, ReclaimIsCurrent
<1>3. CASE HostSnapshot
  <2>1. /\ adapter' = Reconciled /\ wrong' = wrong /\ UNCHANGED <<ownerVars, conn>>
        /\ held' = [s \in Sess |->
                      IF s \notin Owned THEN NotHeld
                      ELSE [exact |-> TRUE, shown |-> Claims(s), reserved |-> Reservations(s)]]
        /\ lapsed' = Sess \ (Owned \cup reclaimed)
    BY <1>3 DEF HostSnapshot
  <2>2. ASSUME NEW s \in Sess PROVE ExactFor(s)'
    <3>1. CASE s \notin Owned
      <4>1. held'[s] = NotHeld
        BY <2>1, <3>1
      <4> QED
        BY <4>1 DEF ExactFor, NotHeld
    <3>2. CASE s \in Owned
      <4>1. held'[s].shown = Claims(s) /\ held'[s].reserved = Reservations(s)
        BY <2>1, <3>2
      <4>2. adapter'[s] = Authority(s) /\ nextGen' = nextGen /\ s \notin lapsed'
        BY <2>1, <3>2 DEF Reconciled, ownerVars
      <4>3. Standing(s)' = Standing(s) /\ Reservations(s)' = Reservations(s)
        BY <2>1 DEF Standing, Reservations, ownerVars
      <4>4. /\ Authority(s) # 0 /\ Authority(s) < nextGen /\ Claims(s) = Standing(s)
            /\ \A x \in Reservations(s) : x.g # Authority(s)
        BY <3>2, OwnedAuthority
      <4>5. KnowsClaims(s)'
        BY <4>1, <4>3, <4>4 DEF KnowsClaims
      <4>6. LapsedIsHidden(s)'
        BY <4>2 DEF LapsedIsHidden
      <4> QED
        BY <4>2, <4>3, <4>4, <4>5, <4>6 DEF ExactFor
    <3> QED
      BY <3>1, <3>2
  <2> QED
    BY <2>1, <2>2 DEF ExactInv, ReclaimIsCurrent
<1>4. CASE \E s \in Sess : HostReclaim(s)
  <2>1. PICK s \in Sess : HostReclaim(s)
    BY <1>4
  <2>2. Evolves /\ Uncovers
    BY <2>1, ReclaimEvolves
  <2>3. lapsed' \subseteq lapsed \cup (Sess \ (Owned' \cup reclaimed'))
    BY <2>1 DEF HostReclaim, Lapse
  <2>4. /\ adapter' = Reconciled \/ adapter' = [Reconciled EXCEPT ![s] = 0]
        /\ held' = [t \in Sess |-> IF t = s THEN NotHeld ELSE [held[t] EXCEPT !.exact = StillExact[t]]]
    BY <2>1 DEF HostReclaim
  <2>5. ASSUME NEW t \in Sess PROVE ExactFor(t)'
    <3>1. CASE t = s
      <4>1. held'[t] = NotHeld
        BY <2>4, <3>1
      <4> QED
        BY <4>1 DEF ExactFor, NotHeld
    <3>2. CASE t # s
      <4>1. held'[t] = [held[t] EXCEPT !.exact = StillExact[t]]
        BY <2>4, <3>2
      <4>2. /\ held'[t].exact = StillExact[t]
            /\ held'[t].shown = held[t].shown /\ held'[t].reserved = held[t].reserved
        BY <1>1, <4>1
      <4>3. adapter'[t] = Reconciled[t]
        BY <2>4, <3>2 DEF Reconciled
      <4>4. CASE ~ StillExact[t]
        BY <4>2, <4>4 DEF ExactFor
      <4>5. CASE StillExact[t]
        <5>1. held[t].exact /\ adapter[t] = Reconciled[t]
          BY <4>5 DEF StillExact
        <5>2. ExactFor(t)
          BY DEF ExactInv
        <5> QED
          BY <2>2, <2>3, <4>2, <4>3, <5>1, <5>2, ExactKept
      <4> QED
        BY <4>4, <4>5
    <3> QED
      BY <3>1, <3>2
  <2>6. wrong' = {}
    <3>1. CASE ~ StillExact[s]
      BY <2>1, <3>1 DEF HostReclaim, ReclaimIsCurrent
    <3>2. CASE StillExact[s]
      <4>1. /\ held[s].exact /\ adapter[s] = Reconciled[s] /\ adapter[s] # 0
        BY <3>2 DEF StillExact
      <4>2. s \in Owned /\ adapter[s] = Authority(s)
        BY <4>1 DEF Reconciled
      <4>3. /\ KnowsClaims(s) /\ LapsedIsHidden(s)
        BY <4>1 DEF ExactInv, ExactFor
      <4>4. /\ Claims(s) = Standing(s) /\ ~ Hidden /\ Authority(s) \in Nat
            /\ \A x \in Claims(s) : x.g \in Nat /\ x.g <= Authority(s)
            /\ \E x \in Claims(s) : x.g = Authority(s)
        BY <4>2, OwnedAuthority
      <4>5. s \notin lapsed
        BY <4>2, <4>3, <4>4 DEF LapsedIsHidden
      <4>6. \A x \in Claims(s) : ~ (x.g > adapter[s])
        BY <4>2, <4>4
      <4>7. Claims(s) \subseteq held[s].shown \cup held[s].reserved
        BY <4>3, <4>4, <4>6 DEF KnowsClaims
      <4>8. wrong' = wrong \cup (Claims(s) \ (held[s].shown \cup held[s].reserved))
        BY <2>1, <3>2, <4>5 DEF HostReclaim
      <4> QED
        BY <4>7, <4>8 DEF ReclaimIsCurrent
    <3> QED
      BY <3>1, <3>2
  <2> QED
    BY <2>5, <2>6 DEF ExactInv, ReclaimIsCurrent
<1>5. CASE Restart
  <2>1. held' = [s \in Sess |-> [held[s] EXCEPT !.exact = FALSE]] /\ wrong' = wrong
    BY <1>5 DEF Restart
  <2>2. \A s \in Sess : ~ held'[s].exact
    BY <1>1, <2>1
  <2> QED
    BY <2>1, <2>2 DEF ExactInv, ExactFor, ReclaimIsCurrent
<1> QED
  BY <1>2, <1>3, <1>4, <1>5, HostSteps

\* A reclaim by the host, however late, takes away only claims that its snapshot
\* had shown or that were reserved by then, and only if the pane never lapsed in
\* between.
THEOREM ReclaimsAreCurrent == Spec => []ReclaimIsCurrent
<1>1. Init => Inv
  <2>1. Init => ExactInv /\ ReclaimIsCurrent
    BY DEF Init, ExactInv, ExactFor, NotHeld, ReclaimIsCurrent
  <2> QED
    BY <2>1, InitTyped, LaunchAuthority DEF Inv
<1>2. Inv /\ [Next]_vars => Inv'
  BY StepTyped, StepAuthority, StepExact DEF Inv
<1>3. Inv => ReclaimIsCurrent
  BY DEF Inv
<1> QED
  BY <1>1, <1>2, <1>3, PTL DEF Spec
=============================================================================
