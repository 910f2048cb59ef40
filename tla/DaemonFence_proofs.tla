-------------------------- MODULE DaemonFence_proofs --------------------------
(***************************************************************************)
(* The attachment fence of pty-daemon protects what clients are attached   *)
(* to: proofs that active_guards counts exactly, that a guarded Session    *)
(* stays mapped, and that a pending offer never outlives its owner.  And   *)
(* the tables stay within their limits: the session map, the start ledger, *)
(* and the two token tables of every attachment fence.                     *)
(***************************************************************************)
EXTENDS Daemon_proofs, FiniteSetTheorems

\* A mapped generation was spawned, under the id it is mapped under.
MappedHome ==
    \A i \in Ids : mapped[i] # NoGen => mapped[i] < nextGen /\ home[mapped[i]] = i

\* What a connection is attached to under an id is what is mapped there.
HeldMapped ==
    \A c \in Clients, i \in Ids : att[c][i].gen # NoGen => mapped[i] = att[c][i].gen

\* So is what a connection has acquired and not yet installed.
InstallMapped ==
    \A c \in Clients : conn[c] = "install" =>
      req[c].id \in Ids /\ req[c].gen \in Gens /\ mapped[req[c].id] = req[c].gen

\* GuardedSessionMapped needs the exact count, because removal looks only at the
\* counter, and the count needs the rest, because a release goes by id.
FenceInv == MappedHome /\ HeldMapped /\ InstallMapped /\ GuardCountExact

-----------------------------------------------------------------------------
(* Counting. *)

LEMMA FiniteHolders ==
    ASSUME NEW g
    PROVE  /\ IsFiniteSet(Holders(g)) /\ IsFiniteSet(Installing(g))
           /\ Cardinality(Holders(g)) \in Nat /\ Cardinality(Installing(g)) \in Nat
<1>1. Holders(g) \in SUBSET Clients /\ Installing(g) \in SUBSET Clients
  BY DEF Holders, Installing
<1>2. IsFiniteSet(Holders(g)) /\ IsFiniteSet(Installing(g))
  BY <1>1, FiniteAssumption, FS_Subset
<1> QED
  BY <1>2, FS_CardinalityType

\* A Session with active_guards = 0 is held by nobody.
LEMMA UnguardedUnheld ==
    ASSUME GuardCountExact, NEW g \in Gens, guards[g] = 0
    PROVE  Holders(g) = {} /\ Installing(g) = {}
<1>1. Cardinality(Holders(g)) = 0 /\ Cardinality(Installing(g)) = 0
  BY FiniteHolders DEF GuardCountExact
<1> QED
  BY <1>1, FiniteHolders, FS_EmptySet

\* One connection more, and one fewer.
LEMMA AddOne ==
    ASSUME NEW I, IsFiniteSet(I), NEW c, c \notin I, NEW J, J = I \cup {c}
    PROVE  Cardinality(I) \in Nat /\ Cardinality(J) = Cardinality(I) + 1
<1>1. Cardinality(I \cup {c}) = Cardinality(I) + 1
  BY FS_AddElement
<1>2. Cardinality(J) = Cardinality(I) + 1
  BY <1>1, Zenon
<1> QED
  BY <1>2, FS_CardinalityType

LEMMA RemoveOne ==
    ASSUME NEW I, IsFiniteSet(I), NEW c, c \in I, NEW J, J = I \ {c}
    PROVE  /\ Cardinality(I) \in Nat /\ Cardinality(I) # 0
           /\ Cardinality(J) = Cardinality(I) - 1
<1>1. Cardinality(I \ {c}) = Cardinality(I) - 1
  BY FS_RemoveElement
<1>2. Cardinality(J) = Cardinality(I) - 1
  BY <1>1, Zenon
<1>3. Cardinality(I) # 0
  BY FS_EmptySet
<1> QED
  BY <1>2, <1>3, FS_CardinalityType

\* Nothing that the count looks at changed.
LEMMA FenceUnchanged ==
    ASSUME FenceInv, UNCHANGED <<mapped, home, nextGen, guards, att>>,
           \A c \in Clients : /\ conn'[c] = "install" <=> conn[c] = "install"
                              /\ conn[c] = "install" => req'[c] = req[c]
    PROVE  FenceInv'
<1>1. \A g : Holders(g)' = Holders(g)
  BY DEF Holders
<1>2. \A g : Installing(g)' = Installing(g)
  BY DEF Installing
<1> QED
  BY <1>1, <1>2 DEF FenceInv, MappedHome, HeldMapped, InstallMapped, GuardCountExact

-----------------------------------------------------------------------------
(* One lemma per way the fence moves. *)

\* A connection holds a given Session under one id only.
LEMMA OneHome ==
    ASSUME FenceInv, NEW c \in Clients, NEW i \in Ids, NEW j \in Ids,
           att[c][i].gen # NoGen, att[c][j].gen = att[c][i].gen
    PROVE  i = j
BY DEF FenceInv, HeldMapped, MappedHome

\* Session::acquire_attachment: the counter and the installing set grow together.
LEMMA AcquireFence ==
    ASSUME TypeOK, FenceInv, NEW c \in Clients, NEW i \in Ids, NEW e, NEW h,
           AttachAcquire(c, i, e, h)
    PROVE  FenceInv'
<1> DEFINE g == mapped[i]
<1>1. g \in Gens /\ conn[c] = "idle"
  BY DEF TypeOK, AttachAcquire, ExpectationHolds, Accepts
<1>2. UNCHANGED <<mapped, home, nextGen, att>>
  BY DEF AttachAcquire, mapVars
<1>3. /\ conn' = [conn EXCEPT ![c] = "install"]
      /\ guards' = [guards EXCEPT ![g] = @ + 1]
      /\ req'[c].id = i /\ req'[c].gen = g
      /\ \A d \in Clients : d # c => req'[d] = req[d]
  BY DEF AttachAcquire, TypeOK
<1>4. MappedHome' /\ HeldMapped'
  BY <1>2 DEF FenceInv, MappedHome, HeldMapped
<1>5. InstallMapped'
  BY <1>1, <1>2, <1>3 DEF FenceInv, InstallMapped, TypeOK
<1>6. GuardCountExact'
  <2> SUFFICES ASSUME NEW f \in Gens
               PROVE  guards'[f] = Cardinality(Holders(f)') + Cardinality(Installing(f)')
    BY DEF GuardCountExact
  <2>1. Holders(f)' = Holders(f)
    BY <1>2 DEF Holders
  <2>2. guards[f] = Cardinality(Holders(f)) + Cardinality(Installing(f))
    BY DEF FenceInv, GuardCountExact
  <2>3. c \notin Installing(f)
    BY <1>1 DEF Installing
  <2>4. CASE f = g
    <3>1. Installing(f)' = Installing(f) \cup {c}
      BY <1>1, <1>3, <2>4 DEF Installing, TypeOK
    <3>2. guards'[f] = guards[f] + 1
      BY <1>1, <1>3, <2>4 DEF TypeOK
    <3>3. guards[f] + 1 = Cardinality(Holders(f)) + Cardinality(Installing(f)')
      <4>1. IsFiniteSet(Installing(f)) /\ Cardinality(Holders(f)) \in Nat
        BY FiniteHolders
      <4>2. /\ Cardinality(Installing(f)) \in Nat
            /\ Cardinality(Installing(f)') = Cardinality(Installing(f)) + 1
        BY <2>3, <3>1, <4>1, AddOne, Zenon
      <4> QED
        BY <2>2, <4>1, <4>2
    <3> QED
      BY <2>1, <3>1, <3>2, <3>3
  <2>5. CASE f # g
    <3>1. Installing(f)' = Installing(f)
      BY <1>1, <1>3, <2>3, <2>5 DEF Installing, TypeOK
    <3>2. guards'[f] = guards[f]
      BY <1>1, <1>3, <2>5 DEF TypeOK
    <3> QED
      BY <2>1, <2>2, <3>1, <3>2
  <2> QED
    BY <2>4, <2>5
<1> QED
  BY <1>4, <1>5, <1>6 DEF FenceInv

\* The guards of connection c on the ids in S are released and forgotten, as
\* Detach, an own Kill and the loss of the connection do.
LEMMA ReleaseFence ==
    ASSUME TypeOK, FenceInv, NEW c \in Clients, NEW S \in SUBSET Ids,
           guards' = [g \in Gens |-> IF \E i \in S : att[c][i].gen = g
                                     THEN SaturatingDec(guards[g]) ELSE guards[g]],
           att' = [att EXCEPT ![c] = [i \in Ids |-> IF i \in S THEN NoAttachment
                                                    ELSE att[c][i]]],
           UNCHANGED <<mapped, home, nextGen>>,
           \A d \in Clients : /\ conn'[d] = "install" <=> conn[d] = "install"
                              /\ conn[d] = "install" => req'[d] = req[d]
    PROVE  FenceInv'
<1>1. /\ \A d \in Clients : d # c => att'[d] = att[d]
      /\ \A i \in S : att'[c][i].gen = NoGen
      /\ \A i \in Ids \ S : att'[c][i] = att[c][i]
  BY DEF TypeOK, NoAttachment
<1>2. MappedHome' /\ InstallMapped'
  BY DEF FenceInv, MappedHome, InstallMapped
<1>3. HeldMapped'
  <2> SUFFICES ASSUME NEW d \in Clients, NEW i \in Ids, att'[d][i].gen # NoGen
               PROVE  mapped'[i] = att'[d][i].gen
    BY DEF HeldMapped
  <2>1. att'[d][i] = att[d][i]
    <3>1. CASE d # c
      BY <1>1, <3>1
    <3>2. CASE d = c
      BY <1>1, <3>2
    <3> QED
      BY <3>1, <3>2
  <2> QED
    BY <2>1 DEF FenceInv, HeldMapped
<1>4. GuardCountExact'
  <2> SUFFICES ASSUME NEW g \in Gens
               PROVE  guards'[g] = Cardinality(Holders(g)') + Cardinality(Installing(g)')
    BY DEF GuardCountExact
  <2>0. g # NoGen
    BY DEF Gens, NoGen
  <2>1. Installing(g)' = Installing(g)
    BY DEF Installing
  <2>2. guards[g] = Cardinality(Holders(g)) + Cardinality(Installing(g))
    BY DEF FenceInv, GuardCountExact
  <2>3. \A d \in Clients : d # c => (d \in Holders(g)' <=> d \in Holders(g))
    BY <1>1 DEF Holders
  <2>4. CASE \E i \in S : att[c][i].gen = g
    <3>1. PICK i \in S : att[c][i].gen = g
      BY <2>4
    <3>2. c \in Holders(g)
      BY <3>1 DEF Holders
    <3>3. ASSUME NEW j \in Ids, att'[c][j].gen = g
          PROVE  FALSE
      <4>1. j \notin S
        BY <1>1, <2>0, <3>3
      <4>2. att[c][j].gen = g
        BY <1>1, <3>3, <4>1
      <4>3. i = j
        BY <2>0, <3>1, <4>2, OneHome
      <4> QED
        BY <3>1, <4>1, <4>3
    <3>4. c \notin Holders(g)'
      BY <3>3 DEF Holders
    <3>5. Holders(g)' = Holders(g) \ {c}
      <4>1. Holders(g) \subseteq Clients /\ Holders(g)' \subseteq Clients
        BY DEF Holders
      <4> QED
        BY <2>3, <3>4, <4>1
    <3>6. guards'[g] = SaturatingDec(guards[g])
      BY <2>4
    <3>7. SaturatingDec(guards[g]) = Cardinality(Holders(g)') + Cardinality(Installing(g))
      <4>1. IsFiniteSet(Holders(g)) /\ Cardinality(Installing(g)) \in Nat
        BY FiniteHolders
      <4>2. /\ Cardinality(Holders(g)) \in Nat /\ Cardinality(Holders(g)) # 0
            /\ Cardinality(Holders(g)') = Cardinality(Holders(g)) - 1
        BY <3>2, <3>5, <4>1, RemoveOne, Zenon
      <4> QED
        BY <2>2, <4>1, <4>2 DEF SaturatingDec
    <3> QED
      BY <2>1, <3>6, <3>7
  <2>5. CASE ~ \E i \in S : att[c][i].gen = g
    <3>1. c \in Holders(g)' <=> c \in Holders(g)
      BY <1>1, <2>0, <2>5 DEF Holders
    <3>2. Holders(g)' = Holders(g)
      <4>1. Holders(g) \subseteq Clients /\ Holders(g)' \subseteq Clients
        BY DEF Holders
      <4> QED
        BY <1>1, <2>0, <2>5 DEF Holders
    <3>3. guards'[g] = guards[g]
      BY <2>5
    <3> QED
      BY <2>1, <2>2, <3>2, <3>3
  <2> QED
    BY <2>4, <2>5
<1> QED
  BY <1>2, <1>3, <1>4 DEF FenceInv

LEMMA DetachIdFence ==
    ASSUME TypeOK, FenceInv, NEW c \in Clients, NEW i \in Ids, DetachId(c, i),
           UNCHANGED <<mapped, home, nextGen>>,
           \A d \in Clients : /\ conn'[d] = "install" <=> conn[d] = "install"
                              /\ conn[d] = "install" => req'[d] = req[d]
    PROVE  FenceInv'
<1>1. guards' = [g \in Gens |-> IF \E j \in {i} : att[c][j].gen = g
                                THEN SaturatingDec(guards[g]) ELSE guards[g]]
  BY DEF DetachId, DetachGuards
<1>2. att' = [att EXCEPT ![c] = [j \in Ids |-> IF j \in {i} THEN NoAttachment
                                               ELSE att[c][j]]]
  BY DEF DetachId, TypeOK
<1>3. {i} \in SUBSET Ids
  OBVIOUS
<1> QED
  BY <1>1, <1>2, <1>3, ReleaseFence

LEMMA CloseClientFence ==
    ASSUME TypeOK, FenceInv, NEW c \in Clients, CloseClient(c), conn[c] # "install"
    PROVE  FenceInv'
<1>1. guards' = [g \in Gens |-> IF \E j \in Ids : att[c][j].gen = g
                                THEN SaturatingDec(guards[g]) ELSE guards[g]]
  BY DEF CloseClient, DetachGuards
<1>2. att' = [att EXCEPT ![c] = [j \in Ids |-> IF j \in Ids THEN NoAttachment
                                               ELSE att[c][j]]]
  BY DEF CloseClient
<1>3. \A d \in Clients : /\ conn'[d] = "install" <=> conn[d] = "install"
                         /\ conn[d] = "install" => req'[d] = req[d]
  BY DEF CloseClient, TypeOK
<1>4. UNCHANGED <<mapped, home, nextGen>>
  BY DEF CloseClient, mapVars
<1> QED
  BY <1>1, <1>2, <1>3, <1>4, ReleaseFence

\* ClientState::install: the acquired guard becomes the attachment, and the
\* guard of an earlier attachment under the id, if there is one, is released.
LEMMA InstallFence ==
    ASSUME TypeOK, FenceInv, NEW c \in Clients, Install(c)
    PROVE  FenceInv'
<1> DEFINE i == req[c].id
           g == req[c].gen
           a == att[c][i].gen
<1>1. i \in Ids /\ g \in Gens /\ mapped[i] = g /\ conn[c] = "install"
  BY DEF Install, FenceInv, InstallMapped
<1>2. a = NoGen \/ a = g
  BY <1>1 DEF FenceInv, HeldMapped
<1>3. guards' = [f \in Gens |-> IF a = f THEN SaturatingDec(guards[f]) ELSE guards[f]]
  BY DEF Install, DropGuards, DetachGuards
<1>4. /\ \A d \in Clients : d # c => att'[d] = att[d]
      /\ \A j \in Ids : j # i => att'[c][j] = att[c][j]
      /\ att'[c][i].gen = g
  BY <1>1 DEF Install, TypeOK
<1>5. UNCHANGED <<mapped, home, nextGen, req>> /\ conn' = [conn EXCEPT ![c] = "baseline"]
  BY DEF Install, mapVars
<1>6. MappedHome'
  BY <1>5 DEF FenceInv, MappedHome
<1>7. InstallMapped'
  BY <1>5 DEF FenceInv, InstallMapped, TypeOK
<1>8. HeldMapped'
  <2> SUFFICES ASSUME NEW d \in Clients, NEW j \in Ids, att'[d][j].gen # NoGen
               PROVE  mapped'[j] = att'[d][j].gen
    BY DEF HeldMapped
  <2>1. CASE d = c /\ j = i
    BY <1>1, <1>4, <1>5, <2>1
  <2>2. CASE ~ (d = c /\ j = i)
    <3>1. att'[d][j] = att[d][j]
      BY <1>4, <2>2
    <3> QED
      BY <1>5, <3>1 DEF FenceInv, HeldMapped
  <2> QED
    BY <2>1, <2>2
<1>9. GuardCountExact'
  <2> SUFFICES ASSUME NEW f \in Gens
               PROVE  guards'[f] = Cardinality(Holders(f)') + Cardinality(Installing(f)')
    BY DEF GuardCountExact
  <2>0. f # NoGen
    BY DEF Gens, NoGen
  <2>1. guards[f] = Cardinality(Holders(f)) + Cardinality(Installing(f))
    BY DEF FenceInv, GuardCountExact
  <2>2. /\ \A d \in Clients : d # c => (d \in Holders(f)' <=> d \in Holders(f))
        /\ Holders(f) \subseteq Clients /\ Holders(f)' \subseteq Clients
    BY <1>4 DEF Holders
  <2>3. /\ IsFiniteSet(Holders(f)) /\ IsFiniteSet(Installing(f))
        /\ Cardinality(Holders(f)) \in Nat /\ Cardinality(Installing(f)) \in Nat
    BY FiniteHolders
  <2>4. CASE f # g
    <3>1. guards'[f] = guards[f]
      BY <1>2, <1>3, <2>0, <2>4
    <3>2. Installing(f)' = Installing(f)
      BY <1>1, <1>5, <2>4 DEF Installing, TypeOK
    <3>3. c \in Holders(f)' <=> c \in Holders(f)
      BY <1>1, <1>2, <1>4, <2>0, <2>4 DEF Holders
    <3>4. Holders(f)' = Holders(f)
      BY <2>2, <3>3
    <3> QED
      BY <2>1, <3>1, <3>2, <3>4
  <2>5. CASE f = g
    <3>1. c \in Installing(f) /\ Installing(f)' = Installing(f) \ {c}
      BY <1>1, <1>5, <2>5 DEF Installing, TypeOK
    <3>2. /\ Cardinality(Installing(f)) # 0
          /\ Cardinality(Installing(f)') = Cardinality(Installing(f)) - 1
      BY <2>3, <3>1, RemoveOne, Zenon
    <3>3. c \in Holders(f)'
      BY <1>1, <1>4, <2>5 DEF Holders
    <3>4. CASE a = g
      <4>1. c \in Holders(f)
        BY <1>1, <2>5, <3>4 DEF Holders
      <4>2. Holders(f)' = Holders(f)
        BY <2>2, <3>3, <4>1
      <4>3. guards'[f] = SaturatingDec(guards[f])
        BY <1>3, <2>5, <3>4
      <4> QED
        BY <2>1, <2>3, <3>2, <4>2, <4>3 DEF SaturatingDec
    <3>5. CASE a = NoGen
      <4>1. c \notin Holders(f)
        <5> SUFFICES ASSUME NEW j \in Ids, att[c][j].gen = f
                     PROVE  FALSE
          BY DEF Holders
        <5>1. mapped[j] = f /\ mapped[i] = f
          BY <1>1, <2>0, <2>5 DEF FenceInv, HeldMapped
        <5>2. j = i
          BY <1>1, <2>0, <5>1 DEF FenceInv, MappedHome
        <5> QED
          BY <2>0, <3>5, <5>2
      <4>2. Holders(f)' = Holders(f) \cup {c}
        BY <2>2, <3>3
      <4>3. Cardinality(Holders(f)') = Cardinality(Holders(f)) + 1
        BY <2>3, <4>1, <4>2, AddOne, Zenon
      <4>4. guards'[f] = guards[f]
        BY <1>3, <2>0, <3>5
      <4> QED
        BY <2>1, <2>3, <3>2, <4>3, <4>4
    <3> QED
      BY <1>2, <3>4, <3>5
  <2> QED
    BY <2>4, <2>5
<1> QED
  BY <1>6, <1>7, <1>8, <1>9 DEF FenceInv

\* The session map changes only where nobody holds a guard, as the take of a
\* Kill, a restart and an eviction make sure with attachment_in_use.
LEMMA RemapFence ==
    ASSUME TypeOK, FenceInv, MappedHome', UNCHANGED <<guards, att>>,
           \A i \in Ids : mapped'[i] = mapped[i] \/ mapped[i] = NoGen \/ guards[mapped[i]] = 0,
           \A c \in Clients : /\ conn'[c] = "install" <=> conn[c] = "install"
                              /\ conn[c] = "install" => req'[c] = req[c]
    PROVE  FenceInv'
<1>1. ASSUME NEW i \in Ids, mapped[i] \in Gens,
             Holders(mapped[i]) \cup Installing(mapped[i]) # {}
      PROVE  mapped'[i] = mapped[i]
  <2>1. guards[mapped[i]] # 0
    BY <1>1, UnguardedUnheld DEF FenceInv
  <2> QED
    BY <2>1, <1>1 DEF Gens, NoGen
<1>2. HeldMapped'
  <2> SUFFICES ASSUME NEW c \in Clients, NEW i \in Ids, att[c][i].gen # NoGen
               PROVE  mapped'[i] = att[c][i].gen
    BY DEF HeldMapped
  <2>1. mapped[i] = att[c][i].gen /\ mapped[i] \in Gens
    BY DEF FenceInv, HeldMapped, TypeOK
  <2>2. c \in Holders(mapped[i])
    BY <2>1 DEF Holders
  <2> QED
    BY <1>1, <2>1, <2>2
<1>3. InstallMapped'
  <2> SUFFICES ASSUME NEW c \in Clients, conn[c] = "install"
               PROVE  /\ req[c].id \in Ids /\ req[c].gen \in Gens
                      /\ mapped'[req[c].id] = req[c].gen
    BY DEF InstallMapped
  <2>1. req[c].id \in Ids /\ req[c].gen \in Gens /\ mapped[req[c].id] = req[c].gen
    BY DEF FenceInv, InstallMapped
  <2>2. c \in Installing(mapped[req[c].id])
    BY <2>1 DEF Installing
  <2> QED
    BY <1>1, <2>1, <2>2
<1>4. GuardCountExact'
  <2>1. \A g : Holders(g)' = Holders(g)
    BY DEF Holders
  <2>2. \A g : Installing(g)' = Installing(g)
    BY DEF Installing
  <2> QED
    BY <2>1, <2>2 DEF FenceInv, GuardCountExact
<1> QED
  BY <1>2, <1>3, <1>4 DEF FenceInv

\* A start, with or without an eviction or a restart.
LEMMA SpawnFence ==
    ASSUME TypeOK, FenceInv, NEW i \in Ids, NEW o \in OpTokens \cup {None}, NEW V,
           Spawn(i, o, V), UNCHANGED <<guards, att, conn, req>>,
           \A v \in V \cup {i} : mapped[v] = NoGen \/ guards[mapped[v]] = 0
    PROVE  FenceInv'
<1>1. /\ nextGen \in Gens /\ nextGen' = nextGen + 1 /\ home'[nextGen] = i
      /\ \A g \in Gens : g # nextGen => home'[g] = home[g]
  BY SpawnEffect
<1>2. \A j \in Ids : mapped'[j] = IF j = i THEN nextGen
                                  ELSE IF j \in V THEN NoGen ELSE mapped[j]
  BY DEF Spawn
<1>3. MappedHome'
  <2> SUFFICES ASSUME NEW j \in Ids, mapped'[j] # NoGen
               PROVE  mapped'[j] < nextGen' /\ home'[mapped'[j]] = j
    BY DEF MappedHome
  <2>0. nextGen \in Nat
    BY BoundAssumption DEF TypeOK
  <2>1. CASE j = i
    BY <1>1, <1>2, <2>0, <2>1
  <2>2. CASE j # i
    <3>1. mapped'[j] = mapped[j]
      BY <1>2, <2>2
    <3>2. mapped[j] < nextGen /\ home[mapped[j]] = j
      BY <3>1 DEF FenceInv, MappedHome
    <3>3. mapped[j] \in Gens /\ mapped[j] \in Nat
      BY <3>1, BoundAssumption DEF TypeOK, Gens
    <3> QED
      BY <1>1, <2>0, <3>1, <3>2, <3>3
  <2> QED
    BY <2>1, <2>2
<1>4. \A j \in Ids : mapped'[j] = mapped[j] \/ mapped[j] = NoGen \/ guards[mapped[j]] = 0
  BY <1>2
<1> QED
  BY <1>3, <1>4, RemapFence

-----------------------------------------------------------------------------
(* The fence invariant is inductive. *)

\* A handler between two of its steps has the id of its request at hand.
BusyNamesId ==
    \A c \in Clients : conn[c] \in {"install", "baseline", "kill"} => req[c].id \in Ids

LEMMA NextBusy == TypeOK /\ BusyNamesId /\ [Next]_vars => BusyNamesId'
<1> SUFFICES ASSUME TypeOK, BusyNamesId, [Next]_vars
             PROVE  BusyNamesId'
  OBVIOUS
<1>0. ASSUME NEW c \in Clients, \A d \in Clients : d # c => conn'[d] = conn[d] /\ req'[d] = req[d],
             conn'[c] \in {"install", "baseline", "kill"} => req'[c].id \in Ids
      PROVE  BusyNamesId'
  BY <1>0 DEF BusyNamesId
<1>1. ASSUME UNCHANGED <<conn, req>>
      PROVE  BusyNamesId'
  BY <1>1 DEF BusyNamesId
<1>2. ASSUME NEW c \in Clients, CloseClient(c)
      PROVE  BusyNamesId'
  BY <1>0, <1>2 DEF CloseClient, TypeOK
<1>3. ASSUME NEW c \in Clients, Accept(c)
      PROVE  BusyNamesId'
  BY <1>0, <1>3 DEF Accept, TypeOK
<1>4. ASSUME NEW c \in Clients, AttachStep(c)
      PROVE  BusyNamesId'
  <2>1. ASSUME NEW i \in Ids, NEW e, NEW h, AttachAcquire(c, i, e, h)
        PROVE  BusyNamesId'
    <3>1. /\ conn' = [conn EXCEPT ![c] = "install"] /\ req'[c].id = i
          /\ \A d \in Clients : d # c => req'[d] = req[d]
      BY <2>1 DEF AttachAcquire, TypeOK
    <3> QED
      BY <1>0, <3>1 DEF TypeOK
  <2>2. CASE Install(c)
    <3>1. conn[c] = "install" /\ conn' = [conn EXCEPT ![c] = "baseline"] /\ req' = req
      BY <2>2 DEF Install
    <3> QED
      BY <3>1 DEF BusyNamesId, TypeOK
  <2>3. CASE BaselineSent(c) \/ BaselineFailed(c)
    <3>1. conn' = [conn EXCEPT ![c] = "idle"] /\ req' = [req EXCEPT ![c] = NoRequest]
      BY <2>3 DEF BaselineSent, BaselineFailed
    <3> QED
      BY <1>0, <3>1 DEF TypeOK
  <2> QED
    BY <1>1, <1>2, <1>4, <2>1, <2>2, <2>3
    DEF AttachStep, AttachRefused, AttachInvalid, Detach, CancelHandoff, connVars
<1>5. ASSUME NEW c \in Clients, KillStep(c)
      PROVE  BusyNamesId'
  <2>1. ASSUME NEW i \in Ids, NEW e, KillRelease(c, i, e)
        PROVE  BusyNamesId'
    <3>1. /\ conn' = [conn EXCEPT ![c] = "kill"] /\ req'[c].id = i
          /\ \A d \in Clients : d # c => req'[d] = req[d]
      BY <2>1 DEF KillRelease, TypeOK
    <3> QED
      BY <1>0, <3>1 DEF TypeOK
  <2>2. CASE KillTake(c) /\ ~ CloseClient(c)
    <3>1. conn' = [conn EXCEPT ![c] = "idle"] /\ req' = [req EXCEPT ![c] = NoRequest]
      BY <2>2 DEF KillTake
    <3> QED
      BY <1>0, <3>1 DEF TypeOK
  <2> QED
    BY <1>2, <1>5, <2>1, <2>2 DEF KillStep
<1>6. ASSUME NEW c \in Clients, StartStep(c)
      PROVE  BusyNamesId'
  BY <1>1, <1>6 DEF StartStep, StartOrdinary, ReserveStart, StartApplied,
     StartRefusedReserved, StartAnswered, RetireStart, connVars
<1>7. ASSUME NEW g \in Gens, ChildExit(g)
      PROVE  BusyNamesId'
  BY <1>1, <1>7 DEF ChildExit, connVars
<1>8. CASE UNCHANGED vars
  BY <1>1, <1>8 DEF vars, connVars
<1> QED
  BY <1>2, <1>3, <1>4, <1>5, <1>6, <1>7, <1>8 DEF Next, ClientStep, Disconnect

LEMMA AttachStepFence ==
    ASSUME TypeOK, BusyNamesId, FenceInv, NEW c \in Clients, AttachStep(c)
    PROVE  FenceInv'
<1>1. ASSUME NEW i \in Ids, NEW e, NEW h, AttachAcquire(c, i, e, h)
      PROVE  FenceInv'
  BY <1>1, AcquireFence
<1>2. ASSUME NEW i \in Ids, NEW e, NEW h, AttachRefused(c, i, e, h)
      PROVE  FenceInv'
  BY <1>2, FenceUnchanged DEF AttachRefused, mapVars, fenceVars
<1>3. ASSUME NEW i \in Ids, NEW e, NEW h, AttachInvalid(c, i, e, h)
      PROVE  FenceInv'
  BY <1>3, CloseClientFence DEF AttachInvalid, Accepts
<1>4. CASE Install(c)
  BY <1>4, InstallFence
<1>5. CASE BaselineSent(c)
  <2>1. /\ UNCHANGED <<mapped, home, nextGen, guards, att>>
        /\ \A d \in Clients : /\ conn'[d] = "install" <=> conn[d] = "install"
                              /\ conn[d] = "install" => req'[d] = req[d]
    BY <1>5 DEF BaselineSent, mapVars, fenceVars, TypeOK
  <2> QED
    BY <2>1, FenceUnchanged
<1>6. CASE BaselineFailed(c)
  <2>1. req[c].id \in Ids
    BY <1>6 DEF BaselineFailed, BusyNamesId
  <2>2. /\ UNCHANGED <<mapped, home, nextGen>> /\ DetachId(c, req[c].id)
        /\ \A d \in Clients : /\ conn'[d] = "install" <=> conn[d] = "install"
                              /\ conn[d] = "install" => req'[d] = req[d]
    BY <1>6 DEF BaselineFailed, mapVars, TypeOK
  <2>3. ASSUME NEW i \in Ids, DetachId(c, i)
        PROVE  FenceInv'
    BY <2>2, <2>3, DetachIdFence
  <2> QED
    BY <2>1, <2>2, <2>3
<1>7. ASSUME NEW i \in Ids, Detach(c, i)
      PROVE  FenceInv'
  BY <1>7, DetachIdFence DEF Detach, mapVars
<1>8. ASSUME NEW i \in Ids, NEW t, CancelHandoff(c, i, t)
      PROVE  FenceInv'
  BY <1>8, FenceUnchanged DEF CancelHandoff, mapVars, connVars
<1> QED
  BY <1>1, <1>2, <1>3, <1>4, <1>5, <1>6, <1>7, <1>8 DEF AttachStep

LEMMA KillStepFence ==
    ASSUME TypeOK, BusyNamesId, FenceInv, NEW c \in Clients, KillStep(c)
    PROVE  FenceInv'
<1>1. ASSUME NEW i \in Ids, NEW e, KillRelease(c, i, e)
      PROVE  FenceInv'
  <2>1. /\ UNCHANGED <<mapped, home, nextGen>> /\ DetachId(c, i)
        /\ \A d \in Clients : /\ conn'[d] = "install" <=> conn[d] = "install"
                              /\ conn[d] = "install" => req'[d] = req[d]
    BY <1>1 DEF KillRelease, mapVars, TypeOK, Accepts
  <2> QED
    BY <2>1, DetachIdFence
<1>2. CASE KillTake(c) /\ CloseClient(c)
  BY <1>2, CloseClientFence DEF KillTake
<1>3. CASE KillTake(c) /\ ~ CloseClient(c)
  <2>0. req[c].id \in Ids
    BY <1>3 DEF KillTake, BusyNamesId
  <2>1. PICK i \in Ids : i = req[c].id
    BY <2>0
  <2>2. /\ mapped' = [mapped EXCEPT ![i] = NoGen] /\ UNCHANGED <<home, nextGen, guards, att>>
        /\ mapped[i] = NoGen \/ ~ AttachmentInUse(mapped[i])
        /\ \A d \in Clients : /\ conn'[d] = "install" <=> conn[d] = "install"
                              /\ conn[d] = "install" => req'[d] = req[d]
    BY <1>3, <2>1 DEF KillTake, fenceVars, TypeOK
  <2>3. mapped[i] = NoGen \/ guards[mapped[i]] = 0
    BY <2>2 DEF AttachmentInUse, TypeOK
  <2>4. MappedHome'
    BY <2>2 DEF TypeOK, FenceInv, MappedHome
  <2>5. \A j \in Ids : mapped'[j] = mapped[j] \/ mapped[j] = NoGen \/ guards[mapped[j]] = 0
    BY <2>2, <2>3 DEF TypeOK
  <2> QED
    BY <2>2, <2>4, <2>5, RemapFence
<1> QED
  BY <1>1, <1>2, <1>3 DEF KillStep

LEMMA StartStepFence ==
    ASSUME TypeOK, FenceInv, NEW c \in Clients, StartStep(c)
    PROVE  FenceInv'
<1>0. ASSUME NEW g \in Gens, ~ AttachmentInUse(g)
      PROVE  guards[g] = 0
  BY <1>0 DEF AttachmentInUse, TypeOK
<1>1. ASSUME NEW i \in Ids, NEW restart, StartOrdinary(c, i, restart)
      PROVE  FenceInv'
  <2>0. UNCHANGED <<guards, att, conn, req>>
    BY <1>1 DEF StartOrdinary, fenceVars, connVars
  <2>1. CASE Spawn(i, None, {}) /\ (mapped[i] = NoGen \/ ~ AttachmentInUse(mapped[i]))
    <3>1. \A v \in {} \cup {i} : mapped[v] = NoGen \/ guards[mapped[v]] = 0
      BY <1>0, <2>1 DEF TypeOK
    <3> QED
      BY <2>0, <2>1, <3>1, SpawnFence
  <2>2. ASSUME NEW v \in Ids, mapped[i] = NoGen, CanReclaim(mapped[v]),
               mapped[v] # NoGen, Spawn(i, None, {v})
        PROVE  FenceInv'
    <3>1. \A w \in {v} \cup {i} : mapped[w] = NoGen \/ guards[mapped[w]] = 0
      BY <1>0, <2>2 DEF TypeOK, CanReclaim
    <3> QED
      BY <2>0, <2>2, <3>1, SpawnFence
  <2> QED
    BY <1>1, <2>1, <2>2 DEF StartOrdinary
<1>2. ASSUME NEW i \in Ids, NEW o \in OpTokens, NEW p, StartApplied(c, i, o, p)
      PROVE  FenceInv'
  <2>1. UNCHANGED <<guards, att, conn, req>> /\ Spawn(i, o, {})
    BY <1>2 DEF StartApplied, fenceVars
  <2>2. mapped[i] = NoGen \/ ~ AttachmentInUse(mapped[i])
    BY <1>2 DEF StartApplied, PreconditionHolds
  <2>3. \A v \in {} \cup {i} : mapped[v] = NoGen \/ guards[mapped[v]] = 0
    BY <1>0, <2>2 DEF TypeOK
  <2> QED
    BY <2>1, <2>3, SpawnFence
<1>3. ASSUME NEW i \in Ids, NEW o \in OpTokens, NEW e,
             \/ ReserveStart(c, i, o) \/ StartRefusedReserved(c, i, o)
             \/ StartAnswered(c, i, o) \/ RetireStart(c, i, o, e)
      PROVE  FenceInv'
  <2>1. UNCHANGED <<mapVars, guards, att, conn, req>>
    BY <1>3 DEF ReserveStart, StartRefusedReserved, StartAnswered, RetireStart,
                fenceVars, connVars
  <2> QED
    BY <2>1, FenceUnchanged DEF mapVars
<1> QED
  BY <1>1, <1>2, <1>3 DEF StartStep

LEMMA NextFence == TypeOK /\ BusyNamesId /\ FenceInv /\ [Next]_vars => FenceInv'
<1> SUFFICES ASSUME TypeOK, BusyNamesId, FenceInv, [Next]_vars
             PROVE  FenceInv'
  OBVIOUS
<1>1. ASSUME NEW c \in Clients, Accept(c)
      PROVE  FenceInv'
  <2>1. /\ UNCHANGED <<mapped, home, nextGen, guards, att>>
        /\ \A d \in Clients : /\ conn'[d] = "install" <=> conn[d] = "install"
                              /\ conn[d] = "install" => req'[d] = req[d]
    BY <1>1 DEF Accept, mapVars, fenceVars, TypeOK
  <2> QED
    BY <2>1, FenceUnchanged
<1>2. ASSUME NEW c \in Clients, Disconnect(c)
      PROVE  FenceInv'
  BY <1>2, CloseClientFence DEF Disconnect
<1>3. ASSUME NEW g \in Gens, ChildExit(g)
      PROVE  FenceInv'
  BY <1>3, FenceUnchanged DEF ChildExit, fenceVars, connVars
<1>4. CASE UNCHANGED vars
  BY <1>4, FenceUnchanged DEF vars, mapVars, fenceVars, connVars
<1> QED
  BY <1>1, <1>2, <1>3, <1>4, AttachStepFence, KillStepFence, StartStepFence
  DEF Next, ClientStep

LEMMA FenceCorrect == Spec => [](BusyNamesId /\ FenceInv)
<1>1. Init => BusyNamesId
  BY DEF Init, BusyNamesId
<1>2. Init => FenceInv
  <2> SUFFICES ASSUME Init PROVE FenceInv
    OBVIOUS
  <2>1. MappedHome /\ HeldMapped /\ InstallMapped
    BY DEF Init, MappedHome, HeldMapped, InstallMapped, NoAttachment
  <2>2. ASSUME NEW g \in Gens
        PROVE  guards[g] = Cardinality(Holders(g)) + Cardinality(Installing(g))
    <3>1. g # NoGen
      BY DEF Gens, NoGen
    <3>2. Holders(g) = {} /\ Installing(g) = {}
      BY <3>1 DEF Init, Holders, Installing, NoAttachment
    <3>3. Cardinality(Holders(g)) = 0 /\ Cardinality(Installing(g)) = 0
      BY <3>2, FS_EmptySet
    <3> QED
      BY <3>3 DEF Init
  <2> QED
    BY <2>1, <2>2 DEF FenceInv, GuardCountExact
<1> QED
  BY <1>1, <1>2, NextBusy, NextFence, TypeCorrect, PTL DEF Spec

\* active_guards of every Session is exactly the number of guards that
\* connections hold on it, whatever they attach, hand over, kill or lose.
THEOREM FenceCountsExactly == Spec => []GuardCountExact
<1>1. FenceInv => GuardCountExact
  BY DEF FenceInv
<1> QED
  BY <1>1, FenceCorrect, PTL

\* No Kill, restart or eviction takes a Session from under a connection that
\* is attached to it or is about to be.
THEOREM FenceProtects == Spec => []GuardedSessionMapped
<1>1. TypeOK /\ FenceInv => GuardedSessionMapped
  <2> SUFFICES ASSUME TypeOK, FenceInv, NEW g \in Gens, NEW c \in Clients,
                      c \in Holders(g) \/ c \in Installing(g)
               PROVE  home[g] \in Ids /\ mapped[home[g]] = g
    BY DEF GuardedSessionMapped, Holders, Installing
  <2>0. g # NoGen
    BY DEF Gens, NoGen
  <2>1. PICK i \in Ids : mapped[i] = g
    BY <2>0 DEF FenceInv, HeldMapped, InstallMapped, Holders, Installing
  <2> QED
    BY <2>0, <2>1 DEF FenceInv, MappedHome
<1> QED
  BY <1>1, FenceCorrect, TypeCorrect, PTL

-----------------------------------------------------------------------------
(* Pending offers and their owners. *)

\* Connection c holds, or has acquired, a guard on g that offered token t.
Offers(c, g, t) ==
    \/ \E i \in Ids : att[c][i] = [gen |-> g, offered |-> t]
    \/ conn[c] = "install" /\ req[c].gen = g /\ req[c].offered = t

\* PendingOwnerPresent without the part that the fence invariant gives.
OwnerInv ==
    \A c \in Clients, g \in Gens, t \in Tokens : pending[g][t] = c => Offers(c, g, t)

\* No new offer, and every connection still offers what it has pending.
LEMMA OwnerKept ==
    ASSUME TypeOK, OwnerInv,
           \A g \in Gens, t \in Tokens : pending'[g][t] \in {None, pending[g][t]},
           \A d \in Clients, g \in Gens, t \in Tokens :
             Offers(d, g, t) /\ pending'[g][t] = d => Offers(d, g, t)'
    PROVE  OwnerInv'
<1> SUFFICES ASSUME NEW d \in Clients, NEW g \in Gens, NEW t \in Tokens, pending'[g][t] = d
             PROVE  Offers(d, g, t)'
  BY DEF OwnerInv
<1>1. pending[g][t] = d
  BY NoneAssumption
<1>2. Offers(d, g, t)
  BY <1>1 DEF OwnerInv
<1> QED
  BY <1>2

\* A connection that keeps its attachments and what it is installing keeps
\* its offers.
LEMMA OffersKept ==
    ASSUME NEW d, NEW g, NEW t, Offers(d, g, t), att'[d] = att[d],
           conn[d] = "install" => conn'[d] = "install" /\ req'[d] = req[d]
    PROVE  Offers(d, g, t)'
BY DEF Offers

LEMMA OwnerUnchanged ==
    ASSUME TypeOK, OwnerInv, UNCHANGED att,
           \A g \in Gens, t \in Tokens : pending'[g][t] \in {None, pending[g][t]},
           \A d \in Clients : conn[d] = "install" => conn'[d] = "install" /\ req'[d] = req[d]
    PROVE  OwnerInv'
<1>1. \A d \in Clients, g \in Gens, t \in Tokens :
        Offers(d, g, t) /\ pending'[g][t] = d => Offers(d, g, t)'
  BY OffersKept
<1> QED
  BY <1>1, OwnerKept

\* AttachmentGuard::detach takes the offers back with the guards.
LEMMA DetachOwner ==
    ASSUME TypeOK, OwnerInv, NEW c \in Clients, NEW S \in SUBSET Ids, DetachGuards(c, S),
           conn[c] # "install",
           \A i \in Ids \ S : att'[c][i] = att[c][i],
           \A d \in Clients : d # c =>
             /\ att'[d] = att[d]
             /\ conn[d] = "install" => conn'[d] = "install" /\ req'[d] = req[d]
    PROVE  OwnerInv'
<1>1. \A g \in Gens, t \in Tokens : pending'[g][t] \in {None, pending[g][t]}
  BY DEF DetachGuards
<1>2. ASSUME NEW g \in Gens, NEW t \in Tokens, Offers(c, g, t), pending'[g][t] = c
      PROVE  Offers(c, g, t)'
  <2>1. pending[g][t] = c /\ t \notin Retiring(c, S, g)
    BY <1>2, NoneAssumption DEF DetachGuards
  <2>2. PICK i \in Ids : att[c][i] = [gen |-> g, offered |-> t]
    BY <1>2 DEF Offers
  <2>3. i \notin S
    BY <2>1, <2>2 DEF Retiring
  <2> QED
    BY <2>2, <2>3 DEF Offers
<1>3. ASSUME NEW d \in Clients, d # c, NEW g \in Gens, NEW t \in Tokens, Offers(d, g, t)
      PROVE  Offers(d, g, t)'
  BY <1>3, OffersKept
<1>4. \A d \in Clients, g \in Gens, t \in Tokens :
        Offers(d, g, t) /\ pending'[g][t] = d => Offers(d, g, t)'
  BY <1>2, <1>3
<1> QED
  BY <1>1, <1>4, OwnerKept

LEMMA CloseClientOwner ==
    ASSUME TypeOK, OwnerInv, NEW c \in Clients, CloseClient(c), conn[c] # "install"
    PROVE  OwnerInv'
<1>1. /\ DetachGuards(c, Ids) /\ Ids \in SUBSET Ids
      /\ \A d \in Clients : d # c =>
           /\ att'[d] = att[d]
           /\ conn[d] = "install" => conn'[d] = "install" /\ req'[d] = req[d]
  BY DEF CloseClient, TypeOK
<1> QED
  BY <1>1, DetachOwner

LEMMA DetachIdOwner ==
    ASSUME TypeOK, OwnerInv, NEW c \in Clients, NEW i \in Ids, DetachId(c, i),
           conn[c] # "install",
           \A d \in Clients : d # c =>
             (conn[d] = "install" => conn'[d] = "install" /\ req'[d] = req[d])
    PROVE  OwnerInv'
<1>1. /\ DetachGuards(c, {i}) /\ {i} \in SUBSET Ids
      /\ \A d \in Clients : d # c => att'[d] = att[d]
      /\ \A j \in Ids \ {i} : att'[c][j] = att[c][j]
  BY DEF DetachId, TypeOK
<1> QED
  BY <1>1, DetachOwner

\* An offer is registered together with the guard that offers it.
LEMMA AcquireOwner ==
    ASSUME TypeOK, OwnerInv, NEW c \in Clients, NEW i \in Ids, NEW e, NEW h \in Handoffs,
           AttachAcquire(c, i, e, h)
    PROVE  OwnerInv'
<1>1. mapped[i] \in Gens /\ conn[c] = "idle"
  BY DEF TypeOK, AttachAcquire, ExpectationHolds, Accepts
<1>2. /\ att' = att /\ conn'[c] = "install"
      /\ req'[c].gen = mapped[i] /\ req'[c].offered = IF h.kind = "offer" THEN h.token ELSE None
      /\ \A d \in Clients : d # c => conn'[d] = conn[d] /\ req'[d] = req[d]
  BY DEF AttachAcquire, TypeOK
<1>3. \A g \in Gens, t \in Tokens :
        \/ pending'[g][t] \in {None, pending[g][t]}
        \/ pending'[g][t] = c /\ g = mapped[i] /\ h.kind = "offer" /\ t = h.token
  <2>1. h.kind # "plain" => h.token \in Tokens
    BY DEF Handoffs
  <2>2. CASE UNCHANGED pending
    BY <2>2
  <2>3. CASE h.kind = "offer" /\ pending' = [pending EXCEPT ![mapped[i]][h.token] = c]
    BY <1>1, <2>1, <2>3 DEF TypeOK
  <2>4. CASE h.kind = "claim" /\ pending' = [pending EXCEPT ![mapped[i]][h.token] = None]
    BY <1>1, <2>1, <2>4 DEF TypeOK
  <2> QED
    BY <2>2, <2>3, <2>4 DEF AttachAcquire
<1> SUFFICES ASSUME NEW d \in Clients, NEW g \in Gens, NEW t \in Tokens, pending'[g][t] = d
             PROVE  Offers(d, g, t)'
  BY DEF OwnerInv
<1>4. CASE pending[g][t] = d
  <2>1. Offers(d, g, t)
    BY <1>4 DEF OwnerInv
  <2>2. /\ conn[d] = "install" => conn'[d] = "install" /\ req'[d] = req[d]
        /\ att'[d] = att[d]
    BY <1>1, <1>2
  <2> QED
    BY <2>1, <2>2, OffersKept
<1>5. CASE pending'[g][t] = c /\ g = mapped[i] /\ h.kind = "offer" /\ t = h.token
  <2>1. d = c
    BY <1>5
  <2> QED
    BY <1>2, <1>5, <2>1 DEF Offers
<1> QED
  BY <1>3, <1>4, <1>5, NoneAssumption

\* Installing keeps the offer of the new guard, and of the replaced one if it
\* is the same; every other offer of the replaced guard is retired.
LEMMA InstallOwner ==
    ASSUME TypeOK, FenceInv, OwnerInv, NEW c \in Clients, Install(c)
    PROVE  OwnerInv'
<1> DEFINE r == req[c]
<1>1. /\ r.id \in Ids /\ r.gen \in Gens /\ mapped[r.id] = r.gen
      /\ att[c][r.id].gen \in {NoGen, r.gen}
  BY DEF Install, FenceInv, InstallMapped, HeldMapped
<1>2. /\ \A d \in Clients : d # c => att'[d] = att[d] /\ conn'[d] = conn[d] /\ req'[d] = req[d]
      /\ \A i \in Ids : i # r.id => att'[c][i] = att[c][i]
      /\ att'[c][r.id] = [gen |-> r.gen, offered |-> r.offered]
  BY <1>1 DEF Install, TypeOK
<1>3. \A g \in Gens, t \in Tokens : pending'[g][t] \in {None, pending[g][t]}
  BY DEF Install, DropGuards, DetachGuards
<1>4. ASSUME NEW g \in Gens, NEW t \in Tokens, Offers(c, g, t), pending'[g][t] = c
      PROVE  Offers(c, g, t)'
  <2>0. pending[g][t] = c
    BY <1>3, <1>4, NoneAssumption
  <2>1. CASE r.gen = g /\ r.offered = t
    BY <1>1, <1>2, <2>1 DEF Offers
  <2>2. ASSUME NEW i \in Ids, att[c][i] = [gen |-> g, offered |-> t], i # r.id
        PROVE  Offers(c, g, t)'
    BY <1>2, <2>2 DEF Offers
  <2>3. CASE att[c][r.id] = [gen |-> g, offered |-> t]
    <3>1. r.gen = g
      BY <1>1, <2>3 DEF Gens, NoGen
    <3>2. CASE r.offered = t
      BY <2>1, <3>1, <3>2
    <3>3. CASE r.offered # t
      <4>1. DetachGuards(c, {r.id})
        BY <2>3, <3>3 DEF Install
      <4>2. t \in Retiring(c, {r.id}, g)
        BY <2>0, <2>3 DEF Retiring
      <4>3. pending'[g][t] = None
        BY <4>1, <4>2 DEF DetachGuards
      <4> QED
        BY <1>4, <4>3, NoneAssumption
    <3> QED
      BY <3>2, <3>3
  <2> QED
    BY <1>4, <2>1, <2>2, <2>3 DEF Offers
<1>5. ASSUME NEW d \in Clients, d # c, NEW g \in Gens, NEW t \in Tokens, Offers(d, g, t)
      PROVE  Offers(d, g, t)'
  BY <1>2, <1>5, OffersKept
<1>6. \A d \in Clients, g \in Gens, t \in Tokens :
        Offers(d, g, t) /\ pending'[g][t] = d => Offers(d, g, t)'
  BY <1>4, <1>5
<1> QED
  BY <1>3, <1>6, OwnerKept

LEMMA NextOwner ==
    TypeOK /\ BusyNamesId /\ FenceInv /\ OwnerInv /\ [Next]_vars => OwnerInv'
<1> SUFFICES ASSUME TypeOK, BusyNamesId, FenceInv, OwnerInv, [Next]_vars
             PROVE  OwnerInv'
  OBVIOUS
<1>0. ASSUME UNCHANGED <<att, pending>>,
             \A d \in Clients : conn[d] = "install" => conn'[d] = "install" /\ req'[d] = req[d]
      PROVE  OwnerInv'
  BY <1>0, OwnerUnchanged
<1>1. ASSUME NEW c \in Clients, Accept(c)
      PROVE  OwnerInv'
  BY <1>0, <1>1 DEF Accept, fenceVars, TypeOK
<1>2. ASSUME NEW c \in Clients, Disconnect(c)
      PROVE  OwnerInv'
  BY <1>2, CloseClientOwner DEF Disconnect
<1>3. ASSUME NEW c \in Clients, AttachStep(c)
      PROVE  OwnerInv'
  <2>1. ASSUME NEW i \in Ids, NEW e, NEW h \in Handoffs, AttachAcquire(c, i, e, h)
        PROVE  OwnerInv'
    BY <2>1, AcquireOwner
  <2>2. ASSUME NEW i, NEW e, NEW h, AttachRefused(c, i, e, h)
        PROVE  OwnerInv'
    BY <1>0, <2>2 DEF AttachRefused, fenceVars
  <2>3. ASSUME NEW i, NEW e, NEW h, AttachInvalid(c, i, e, h)
        PROVE  OwnerInv'
    BY <2>3, CloseClientOwner DEF AttachInvalid, Accepts
  <2>4. CASE Install(c)
    BY <2>4, InstallOwner
  <2>5. CASE BaselineSent(c)
    BY <1>0, <2>5 DEF BaselineSent, fenceVars, TypeOK
  <2>6. CASE BaselineFailed(c)
    <3>1. /\ req[c].id \in Ids /\ DetachId(c, req[c].id) /\ conn[c] # "install"
          /\ \A d \in Clients : d # c =>
               (conn[d] = "install" => conn'[d] = "install" /\ req'[d] = req[d])
      BY <2>6 DEF BaselineFailed, BusyNamesId, TypeOK
    <3>2. ASSUME NEW i \in Ids, DetachId(c, i)
          PROVE  OwnerInv'
      BY <3>1, <3>2, DetachIdOwner
    <3> QED
      BY <3>1, <3>2
  <2>7. ASSUME NEW i \in Ids, Detach(c, i)
        PROVE  OwnerInv'
    BY <2>7, DetachIdOwner DEF Detach, Accepts
  <2>8. ASSUME NEW i \in Ids, NEW t \in Tokens, CancelHandoff(c, i, t)
        PROVE  OwnerInv'
    <3>1. \A g \in Gens, u \in Tokens : pending'[g][u] \in {None, pending[g][u]}
      BY <2>8 DEF CancelHandoff, TypeOK
    <3> QED
      BY <2>8, <3>1, OwnerUnchanged DEF CancelHandoff, connVars
  <2> QED
    BY <1>3, <2>1, <2>2, <2>3, <2>4, <2>5, <2>6, <2>7, <2>8 DEF AttachStep
<1>4. ASSUME NEW c \in Clients, KillStep(c)
      PROVE  OwnerInv'
  <2>1. ASSUME NEW i \in Ids, NEW e, KillRelease(c, i, e)
        PROVE  OwnerInv'
    <3>1. /\ DetachId(c, i) /\ conn[c] # "install"
          /\ \A d \in Clients : d # c =>
               (conn[d] = "install" => conn'[d] = "install" /\ req'[d] = req[d])
      BY <2>1 DEF KillRelease, Accepts, TypeOK
    <3> QED
      BY <3>1, DetachIdOwner
  <2>2. CASE KillTake(c) /\ CloseClient(c)
    BY <2>2, CloseClientOwner DEF KillTake
  <2>3. CASE KillTake(c) /\ ~ CloseClient(c)
    BY <1>0, <2>3 DEF KillTake, fenceVars, TypeOK
  <2> QED
    BY <1>4, <2>1, <2>2, <2>3 DEF KillStep
<1>5. ASSUME NEW c \in Clients, StartStep(c)
      PROVE  OwnerInv'
  <2>1. UNCHANGED <<att, pending, conn, req>>
    BY <1>5 DEF StartStep, StartOrdinary, ReserveStart, StartApplied,
       StartRefusedReserved, StartAnswered, RetireStart, fenceVars, connVars
  <2> QED
    BY <1>0, <2>1
<1>6. ASSUME NEW g \in Gens, ChildExit(g)
      PROVE  OwnerInv'
  BY <1>0, <1>6 DEF ChildExit, fenceVars, connVars
<1>7. CASE UNCHANGED vars
  BY <1>0, <1>7 DEF vars, fenceVars, connVars
<1> QED
  BY <1>1, <1>2, <1>3, <1>4, <1>5, <1>6, <1>7 DEF Next, ClientStep

\* A pending handoff token never outlives the guard it was offered with, nor
\* the connection that offered it, nor its Session.
THEOREM OffersHaveOwners == Spec => []PendingOwnerPresent
<1>1. Init => OwnerInv
  BY NoneAssumption DEF Init, OwnerInv
<1>2. TypeOK /\ FenceInv /\ OwnerInv => PendingOwnerPresent
  <2> SUFFICES ASSUME TypeOK, FenceInv, OwnerInv, NEW g \in Gens, NEW t \in Tokens,
                      pending[g][t] # None
               PROVE  /\ home[g] \in Ids /\ mapped[home[g]] = g
                      /\ \/ att[pending[g][t]][home[g]] = [gen |-> g, offered |-> t]
                         \/ /\ conn[pending[g][t]] = "install" /\ req[pending[g][t]].gen = g
                            /\ req[pending[g][t]].offered = t
    BY DEF PendingOwnerPresent
  <2>0. g # NoGen
    BY DEF Gens, NoGen
  <2>1. PICK c \in Clients : c = pending[g][t]
    BY DEF TypeOK
  <2>2. Offers(c, g, t)
    BY <2>1 DEF OwnerInv
  <2>3. ASSUME NEW i \in Ids, att[c][i] = [gen |-> g, offered |-> t]
        PROVE  i = home[g] /\ mapped[i] = g
    BY <2>0, <2>3 DEF FenceInv, HeldMapped, MappedHome
  <2>4. ASSUME conn[c] = "install", req[c].gen = g
        PROVE  home[g] \in Ids /\ mapped[home[g]] = g
    BY <2>0, <2>4 DEF FenceInv, InstallMapped, MappedHome
  <2> QED
    BY <2>1, <2>2, <2>3, <2>4 DEF Offers
<1> QED
  BY <1>1, <1>2, NextOwner, FenceCorrect, TypeCorrect, PTL DEF Spec

-----------------------------------------------------------------------------
(* The tables stay within their limits, for every value of the limits. *)

\* The ids that are taken and the operations that have an entry, as sets.
MappedIds  == {i \in Ids : mapped[i] # NoGen}
LedgerOps  == {o \in OpTokens : ledger[o].st # "none"}

\* Token tables are finite although the set of tokens need not be.
FenceBounded ==
    \A g \in Gens : /\ IsFiniteSet(PendingTokens(g))
                    /\ Cardinality(PendingTokens(g)) <= MaxPending
                    /\ Len(retired[g]) <= MaxRetired

-----------------------------------------------------------------------------
(* Counting. *)

LEMMA Added ==
    ASSUME NEW S, IsFiniteSet(S), NEW x, x \notin S, NEW T, T = S \cup {x}
    PROVE  /\ IsFiniteSet(T)
           /\ Cardinality(S) \in Nat /\ Cardinality(T) = Cardinality(S) + 1
<1>1. IsFiniteSet(S \cup {x}) /\ Cardinality(S \cup {x}) = Cardinality(S) + 1
  BY FS_AddElement
<1>2. IsFiniteSet(T) /\ Cardinality(T) = Cardinality(S) + 1
  BY <1>1, Zenon
<1> QED
  BY <1>2, FS_CardinalityType

\* A table that only lost entries is still within its limit.
LEMMA Shrunk ==
    ASSUME NEW S, IsFiniteSet(S), NEW T, T \subseteq S,
           NEW n \in Nat, Cardinality(S) <= n
    PROVE  IsFiniteSet(T) /\ Cardinality(T) <= n
<1>1. IsFiniteSet(T) /\ Cardinality(T) <= Cardinality(S)
  BY FS_Subset
<1>2. Cardinality(S) \in Nat /\ Cardinality(T) \in Nat
  BY <1>1, FS_CardinalityType
<1> QED
  BY <1>1, <1>2

\* An entry x takes the place of an entry y.
LEMMA Swapped ==
    ASSUME NEW S, IsFiniteSet(S), NEW x, NEW y \in S, NEW T, T \subseteq (S \ {y}) \cup {x},
           NEW n \in Nat, Cardinality(S) <= n
    PROVE  Cardinality(T) <= n
<1>1. IsFiniteSet(S \ {y}) /\ Cardinality(S \ {y}) = Cardinality(S) - 1
  BY FS_RemoveElement
<1>2. PICK R : R = S \ {y}
  OBVIOUS
<1>3. IsFiniteSet(R) /\ Cardinality(R) = Cardinality(S) - 1
  BY <1>1, <1>2, Zenon
<1>4. PICK U : U = R \cup {x}
  OBVIOUS
<1>5. /\ IsFiniteSet(R \cup {x})
      /\ Cardinality(R \cup {x}) = IF x \in R THEN Cardinality(R) ELSE Cardinality(R) + 1
  BY <1>3, FS_AddElement
<1>6. /\ IsFiniteSet(U)
      /\ Cardinality(U) = IF x \in R THEN Cardinality(R) ELSE Cardinality(R) + 1
  BY <1>4, <1>5, Zenon
<1>7. Cardinality(S) \in Nat /\ Cardinality(R) \in Nat
  BY <1>3, FS_CardinalityType
<1>8. Cardinality(U) <= n
  BY <1>3, <1>6, <1>7
<1>9. T \subseteq U
  BY <1>2, <1>4
<1> QED
  BY <1>6, <1>8, <1>9, Shrunk, Zenon

LEMMA FiniteTables == IsFiniteSet(MappedIds) /\ IsFiniteSet(LedgerOps)
<1>1. MappedIds \subseteq Ids /\ LedgerOps \subseteq OpTokens
  BY DEF MappedIds, LedgerOps
<1> QED
  BY <1>1, FiniteAssumption, FS_Subset

-----------------------------------------------------------------------------
(* The attachment fences. *)

\* AttachmentFence::retire forgets its oldest token at the limit.
LEMMA RetireBounded ==
    ASSUME NEW r \in Seq(Tokens), NEW t \in Tokens, Len(r) <= MaxRetired
    PROVE  Len(Retire(r, t)) <= MaxRetired
<1>0. Len(r) \in Nat /\ MaxRetired \in Nat
  BY BoundAssumption
<1>1. CASE IsRetired(r, t)
  BY <1>1 DEF Retire
<1>2. CASE ~ IsRetired(r, t) /\ Len(r) # MaxRetired
  <2>1. Retire(r, t) = Append(r, t) /\ Len(Append(r, t)) = Len(r) + 1
    BY <1>2 DEF Retire
  <2> QED
    BY <1>0, <1>2, <2>1
<1>3. CASE ~ IsRetired(r, t) /\ Len(r) = MaxRetired
  <2>1. r # << >>
    BY <1>3, BoundAssumption
  <2>2. Tail(r) \in Seq(Tokens) /\ Len(Tail(r)) = Len(r) - 1
    BY <2>1, HeadTailProperties
  <2>3. Len(Append(Tail(r), t)) = Len(Tail(r)) + 1
    BY <2>2, AppendProperties
  <2>4. Retire(r, t) = Append(Tail(r), t)
    BY <1>3 DEF Retire
  <2> QED
    BY <1>0, <1>3, <2>2, <2>3, <2>4
<1> QED
  BY <1>1, <1>2, <1>3

\* Offers only disappear, and at most one token is retired on each fence.
LEMMA SpentBounded ==
    ASSUME TypeOK, FenceBounded,
           \A g \in Gens : \A t \in Tokens : pending'[g][t] \in {None, pending[g][t]},
           \A g \in Gens : \/ retired'[g] = retired[g]
                           \/ \E t \in Tokens : retired'[g] = Retire(retired[g], t)
    PROVE  FenceBounded'
<1> SUFFICES ASSUME NEW g \in Gens
             PROVE  /\ IsFiniteSet(PendingTokens(g)') /\ Cardinality(PendingTokens(g)') <= MaxPending
                    /\ Len(retired'[g]) <= MaxRetired
  BY DEF FenceBounded
<1>1. /\ IsFiniteSet(PendingTokens(g)) /\ Cardinality(PendingTokens(g)) <= MaxPending
      /\ Len(retired[g]) <= MaxRetired /\ MaxPending \in Nat
  BY BoundAssumption DEF FenceBounded
<1>2. PendingTokens(g)' \subseteq PendingTokens(g)
  BY DEF PendingTokens
<1>3. IsFiniteSet(PendingTokens(g)') /\ Cardinality(PendingTokens(g)') <= MaxPending
  BY <1>1, <1>2, Shrunk, Zenon
<1>4. retired[g] \in Seq(Tokens)
  BY DEF TypeOK
<1>5. Len(retired'[g]) <= MaxRetired
  BY <1>1, <1>4, RetireBounded
<1> QED
  BY <1>3, <1>5

LEMMA DetachBounded ==
    ASSUME TypeOK, FenceBounded, NEW c, NEW S, DetachGuards(c, S)
    PROVE  FenceBounded'
<1>1. \A g \in Gens : \A t \in Tokens : pending'[g][t] \in {None, pending[g][t]}
  BY DEF DetachGuards
<1>2. ASSUME NEW g \in Gens, Retiring(c, S, g) # {}
      PROVE  \E t \in Tokens : retired'[g] = Retire(retired[g], t)
  <2>1. (CHOOSE t \in Retiring(c, S, g) : TRUE) \in Tokens
    BY <1>2 DEF Retiring
  <2>2. retired'[g] = Retire(retired[g], CHOOSE t \in Retiring(c, S, g) : TRUE)
    BY <1>2 DEF DetachGuards
  <2> QED
    BY <2>1, <2>2
<1>3. \A g \in Gens : Retiring(c, S, g) = {} => retired'[g] = retired[g]
  BY DEF DetachGuards
<1> QED
  BY <1>1, <1>2, <1>3, SpentBounded

\* Session::acquire_attachment adds an offer only below the limit.
LEMMA AcquireBounded ==
    ASSUME TypeOK, FenceBounded, NEW c \in Clients, NEW i \in Ids, NEW e,
           NEW h \in Handoffs, AttachAcquire(c, i, e, h)
    PROVE  FenceBounded'
<1> DEFINE g == mapped[i]
<1>1. g \in Gens /\ Acquirable(c, g, h)
  BY DEF TypeOK, AttachAcquire, ExpectationHolds
<1>2. h.kind # "plain" => h.token \in Tokens
  BY DEF Handoffs
<1>3. CASE UNCHANGED <<pending, retired>>
  BY <1>3, SpentBounded
<1>4. CASE h.kind = "claim" /\ pending' = [pending EXCEPT ![g][h.token] = None]
           /\ retired' = [retired EXCEPT ![g] = Retire(@, h.token)]
  <2>1. \A f \in Gens : \A t \in Tokens : pending'[f][t] \in {None, pending[f][t]}
    BY <1>1, <1>2, <1>4 DEF TypeOK
  <2>2. \A f \in Gens : \/ retired'[f] = retired[f]
                        \/ \E t \in Tokens : retired'[f] = Retire(retired[f], t)
    BY <1>1, <1>2, <1>4 DEF TypeOK
  <2> QED
    BY <2>1, <2>2, SpentBounded
<1>5. CASE h.kind = "offer" /\ pending' = [pending EXCEPT ![g][h.token] = c] /\ retired' = retired
  <2> DEFINE t == h.token
  <2>0. t \in Tokens /\ c # None
    BY <1>2, <1>5, NoneAssumption
  <2> SUFFICES ASSUME NEW f \in Gens
               PROVE  /\ IsFiniteSet(PendingTokens(f)')
                      /\ Cardinality(PendingTokens(f)') <= MaxPending
                      /\ Len(retired'[f]) <= MaxRetired
    BY DEF FenceBounded
  <2>1. /\ IsFiniteSet(PendingTokens(f)) /\ Cardinality(PendingTokens(f)) <= MaxPending
        /\ Len(retired'[f]) <= MaxRetired
    BY <1>5 DEF FenceBounded
  <2>2. CASE f # g \/ t \in PendingTokens(f)
    <3>1. PendingTokens(f)' = PendingTokens(f)
      BY <1>1, <1>5, <2>0, <2>2 DEF PendingTokens, TypeOK
    <3> QED
      BY <2>1, <3>1
  <2>3. CASE f = g /\ t \notin PendingTokens(f)
    <3>1. Cardinality(PendingTokens(f)) < MaxPending
      BY <1>1, <1>5, <2>0, <2>3, NoneAssumption DEF Acquirable, PendingTokens
    <3>2. PendingTokens(f)' = PendingTokens(f) \cup {t}
      BY <1>1, <1>5, <2>0, <2>3 DEF PendingTokens, TypeOK
    <3>3. /\ IsFiniteSet(PendingTokens(f)') /\ Cardinality(PendingTokens(f)) \in Nat
          /\ Cardinality(PendingTokens(f)') = Cardinality(PendingTokens(f)) + 1
      BY <2>1, <2>3, <3>2, Added, Zenon
    <3> QED
      BY <2>1, <3>1, <3>3, BoundAssumption
  <2> QED
    BY <2>2, <2>3
<1> QED
  BY <1>3, <1>4, <1>5 DEF AttachAcquire

\* Every step keeps the token tables within their limits.
LEMMA NextFenceBounded == TypeOK /\ FenceBounded /\ [Next]_vars => FenceBounded'
<1> SUFFICES ASSUME TypeOK, FenceBounded, [Next]_vars
             PROVE  FenceBounded'
  OBVIOUS
<1>0. ASSUME UNCHANGED <<pending, retired>>
      PROVE  FenceBounded'
  BY <1>0, SpentBounded
<1>1. ASSUME NEW c \in Clients, CloseClient(c)
      PROVE  FenceBounded'
  BY <1>1, DetachBounded DEF CloseClient
<1>2. ASSUME NEW c \in Clients, NEW i, DetachId(c, i)
      PROVE  FenceBounded'
  BY <1>2, DetachBounded DEF DetachId
<1>3. ASSUME NEW c \in Clients, Install(c)
      PROVE  FenceBounded'
  BY <1>0, <1>3, DetachBounded DEF Install, DropGuards
<1>4. ASSUME NEW c \in Clients, NEW i \in Ids, NEW t \in Tokens, CancelHandoff(c, i, t)
      PROVE  FenceBounded'
  <2>1. mapped[i] \in Gens
    BY <1>4 DEF TypeOK, CancelHandoff
  <2>2. \A f \in Gens : \A u \in Tokens : pending'[f][u] \in {None, pending[f][u]}
    BY <1>4, <2>1 DEF TypeOK, CancelHandoff
  <2>3. \A f \in Gens : \/ retired'[f] = retired[f]
                        \/ \E u \in Tokens : retired'[f] = Retire(retired[f], u)
    BY <1>4, <2>1 DEF TypeOK, CancelHandoff
  <2> QED
    BY <2>2, <2>3, SpentBounded
<1>5. ASSUME NEW c \in Clients, AttachStep(c)
      PROVE  FenceBounded'
  BY <1>0, <1>1, <1>2, <1>3, <1>4, <1>5, AcquireBounded
  DEF AttachStep, AttachRefused, AttachInvalid, BaselineSent, BaselineFailed,
      Detach, fenceVars
<1>6. ASSUME NEW c \in Clients, KillStep(c)
      PROVE  FenceBounded'
  BY <1>0, <1>1, <1>2, <1>6 DEF KillStep, KillRelease, KillTake, fenceVars
<1>7. ASSUME NEW c \in Clients, StartStep(c)
      PROVE  FenceBounded'
  BY <1>0, <1>7 DEF StartStep, StartOrdinary, ReserveStart, StartApplied,
     StartRefusedReserved, StartAnswered, RetireStart, fenceVars
<1>8. ASSUME NEW c \in Clients, Accept(c) \/ ClientStep(c)
      PROVE  FenceBounded'
  BY <1>0, <1>1, <1>5, <1>6, <1>7, <1>8 DEF Accept, ClientStep, Disconnect, fenceVars
<1>9. ASSUME NEW g \in Gens, ChildExit(g)
      PROVE  FenceBounded'
  BY <1>0, <1>9 DEF ChildExit, fenceVars
<1>10. CASE UNCHANGED vars
  BY <1>0, <1>10 DEF vars, fenceVars
<1> QED
  BY <1>8, <1>9, <1>10 DEF Next

-----------------------------------------------------------------------------
(* The session map. *)

MapBounded == Cardinality(MappedIds) <= MaxSessions

\* A start adds an id below the limit, replaces a Session under its own id, or
\* evicts one at the limit.
LEMMA SpawnBounded ==
    ASSUME TypeOK, MapBounded, NEW i \in Ids, NEW o, NEW V, Spawn(i, o, V),
           \/ Cardinality(MappedIds) < MaxSessions
           \/ mapped[i] # NoGen
           \/ \E v \in V : v \in MappedIds /\ v # i
    PROVE  MapBounded'
<1>0. IsFiniteSet(MappedIds) /\ Cardinality(MappedIds) <= MaxSessions /\ MaxSessions \in Nat
  BY FiniteTables, BoundAssumption DEF MapBounded
<1>1. \A j \in Ids : mapped'[j] = IF j = i THEN nextGen
                                  ELSE IF j \in V THEN NoGen ELSE mapped[j]
  BY DEF Spawn
<1>2. CASE mapped[i] # NoGen
  <2>1. MappedIds' \subseteq MappedIds
    BY <1>1, <1>2 DEF MappedIds
  <2> QED
    BY <1>0, <2>1, Shrunk, Zenon DEF MapBounded
<1>3. CASE mapped[i] = NoGen /\ Cardinality(MappedIds) < MaxSessions
  <2>1. PICK T : T = MappedIds \cup {i}
    OBVIOUS
  <2>2. i \notin MappedIds
    BY <1>3 DEF MappedIds
  <2>3. /\ IsFiniteSet(T) /\ Cardinality(MappedIds) \in Nat
        /\ Cardinality(T) = Cardinality(MappedIds) + 1
    BY <1>0, <2>1, <2>2, Added, Zenon
  <2>4. Cardinality(T) <= MaxSessions
    BY <1>0, <1>3, <2>3
  <2>5. MappedIds' \subseteq T
    BY <1>1, <2>1 DEF MappedIds
  <2> QED
    BY <1>0, <2>3, <2>4, <2>5, Shrunk, Zenon DEF MapBounded
<1>4. ASSUME NEW v \in V, v \in MappedIds, v # i
      PROVE  MapBounded'
  <2>1. MappedIds' \subseteq (MappedIds \ {v}) \cup {i}
    BY <1>1, <1>4 DEF MappedIds
  <2> QED
    BY <1>0, <1>4, <2>1, Swapped, Zenon DEF MapBounded
<1> QED
  BY <1>2, <1>3, <1>4

LEMMA NextMapBounded == TypeOK /\ MapBounded /\ [Next]_vars => MapBounded'
<1> SUFFICES ASSUME TypeOK, MapBounded, [Next]_vars
             PROVE  MapBounded'
  OBVIOUS
<1>0. ASSUME mapped' = mapped
      PROVE  MapBounded'
  <2>1. MappedIds' = MappedIds
    BY <1>0 DEF MappedIds
  <2> QED
    BY <2>1 DEF MapBounded
<1>1. ASSUME NEW c \in Clients, AttachStep(c) \/ Disconnect(c) \/ Accept(c)
      PROVE  MapBounded'
  BY <1>0, <1>1
  DEF Accept, Disconnect, AttachStep, AttachAcquire, AttachRefused, AttachInvalid,
      Install, BaselineSent, BaselineFailed, Detach, CancelHandoff, CloseClient, mapVars
<1>2. ASSUME NEW c \in Clients, KillStep(c)
      PROVE  MapBounded'
  <2>1. CASE mapped' = mapped
    BY <1>0, <2>1
  <2>2. CASE mapped' # mapped
    <3>1. mapped' = [mapped EXCEPT ![req[c].id] = NoGen]
      BY <1>2, <2>2 DEF KillStep, KillRelease, KillTake, CloseClient, mapVars
    <3>2. MappedIds' \subseteq MappedIds
      BY <3>1 DEF MappedIds, TypeOK
    <3>3. IsFiniteSet(MappedIds) /\ Cardinality(MappedIds) <= MaxSessions /\ MaxSessions \in Nat
      BY FiniteTables, BoundAssumption DEF MapBounded
    <3> QED
      BY <3>2, <3>3, Shrunk, Zenon DEF MapBounded
  <2> QED
    BY <2>1, <2>2
<1>3. ASSUME NEW c \in Clients, StartStep(c)
      PROVE  MapBounded'
  <2>1. ASSUME NEW i \in Ids, NEW restart, StartOrdinary(c, i, restart)
        PROVE  MapBounded'
    <3>1. CASE Spawn(i, None, {}) /\ (SessionCount < MaxSessions \/ mapped[i] # NoGen)
      BY <3>1, SpawnBounded DEF SessionCount, MappedIds
    <3>2. ASSUME NEW v \in Ids, mapped[i] = NoGen, mapped[v] # NoGen, Spawn(i, None, {v})
          PROVE  MapBounded'
      <4>1. \E w \in {v} : w \in MappedIds /\ w # i
        BY <3>2 DEF MappedIds
      <4> QED
        BY <3>2, <4>1, SpawnBounded
    <3> QED
      BY <2>1, <3>1, <3>2 DEF StartOrdinary
  <2>2. ASSUME NEW i \in Ids, NEW o \in OpTokens, NEW p \in Preconditions,
               StartApplied(c, i, o, p)
        PROVE  MapBounded'
    <3>1. SessionCount < MaxSessions \/ mapped[i] # NoGen
      BY <2>2 DEF StartApplied, PreconditionHolds, Preconditions, Gens, NoGen
    <3> QED
      BY <2>2, <3>1, SpawnBounded DEF StartApplied, SessionCount, MappedIds
  <2> QED
    BY <1>0, <1>3, <2>1, <2>2
    DEF StartStep, ReserveStart, StartRefusedReserved, StartAnswered, RetireStart, mapVars
<1>4. ASSUME NEW g \in Gens, ChildExit(g)
      PROVE  MapBounded'
  BY <1>0, <1>4 DEF ChildExit
<1>5. CASE UNCHANGED vars
  BY <1>0, <1>5 DEF vars, mapVars
<1> QED
  BY <1>1, <1>2, <1>3, <1>4, <1>5 DEF Next, ClientStep

-----------------------------------------------------------------------------
(* The start-operation ledger. *)

LedgerBounded == Cardinality(LedgerOps) <= MaxLedger

LEMMA NextLedgerBounded == TypeOK /\ LedgerBounded /\ [Next]_vars => LedgerBounded'
<1> SUFFICES ASSUME TypeOK, LedgerBounded, [Next]_vars
             PROVE  LedgerBounded'
  OBVIOUS
<1>0. IsFiniteSet(LedgerOps) /\ Cardinality(LedgerOps) <= MaxLedger /\ MaxLedger \in Nat
  BY FiniteTables, BoundAssumption DEF LedgerBounded
<1>1. ASSUME LedgerOps' \subseteq LedgerOps
      PROVE  LedgerBounded'
  BY <1>0, <1>1, Shrunk, Zenon DEF LedgerBounded
<1>2. ASSUME ledger' = ledger
      PROVE  LedgerBounded'
  BY <1>1, <1>2 DEF LedgerOps
<1>3. ASSUME NEW c \in Clients, AttachStep(c) \/ Disconnect(c) \/ Accept(c) \/ KillStep(c)
      PROVE  LedgerBounded'
  BY <1>2, <1>3
  DEF Accept, Disconnect, AttachStep, AttachAcquire, AttachRefused, AttachInvalid, Install,
      BaselineSent, BaselineFailed, Detach, CancelHandoff, CloseClient, KillStep,
      KillRelease, KillTake, ledgerVars
<1>4. ASSUME NEW c \in Clients, NEW i \in Ids, NEW o \in OpTokens, ReserveStart(c, i, o)
      PROVE  LedgerBounded'
  <2>1. o \notin LedgerOps /\ Cardinality(LedgerOps) < MaxLedger
    BY <1>4 DEF ReserveStart, LedgerOps, LedgerCount
  <2>2. LedgerOps' = LedgerOps \cup {o}
    BY <1>4 DEF ReserveStart, LedgerOps, TypeOK
  <2>3. Cardinality(LedgerOps) \in Nat /\ Cardinality(LedgerOps') = Cardinality(LedgerOps) + 1
    BY <1>0, <2>1, <2>2, Added, Zenon
  <2> QED
    BY <1>0, <2>1, <2>3 DEF LedgerBounded
<1>5. ASSUME NEW c \in Clients, NEW i \in Ids, NEW o \in OpTokens, NEW p,
             StartApplied(c, i, o, p)
      PROVE  LedgerBounded'
  <2>1. LedgerOps' \subseteq LedgerOps
    BY <1>5 DEF StartApplied, LedgerOps, TypeOK
  <2> QED
    BY <1>1, <2>1
<1>6. ASSUME NEW c \in Clients, NEW i \in Ids, NEW o \in OpTokens, NEW e,
             \/ StartRefusedReserved(c, i, o) \/ StartAnswered(c, i, o)
             \/ RetireStart(c, i, o, e)
      PROVE  LedgerBounded'
  <2>1. LedgerOps' \subseteq LedgerOps
    BY <1>6 DEF StartRefusedReserved, StartAnswered, RetireStart, NoEntry, LedgerOps,
                TypeOK, ledgerVars
  <2> QED
    BY <1>1, <2>1
<1>7. ASSUME NEW c \in Clients, StartStep(c)
      PROVE  LedgerBounded'
  BY <1>2, <1>4, <1>5, <1>6, <1>7 DEF StartStep, StartOrdinary, ledgerVars
<1>8. ASSUME NEW g \in Gens, ChildExit(g)
      PROVE  LedgerBounded'
  BY <1>2, <1>8 DEF ChildExit, ledgerVars
<1>9. CASE UNCHANGED vars
  BY <1>2, <1>9 DEF vars, ledgerVars
<1> QED
  BY <1>3, <1>7, <1>8, <1>9 DEF Next, ClientStep

\* No sequence of starts, restarts, evictions, reservations, offers, claims and
\* losses takes a table of the daemon over its limit.
THEOREM LimitsHold == Spec => []TablesBounded
<1>1. Init => FenceBounded /\ MapBounded /\ LedgerBounded
  <2> SUFFICES ASSUME Init PROVE FenceBounded /\ MapBounded /\ LedgerBounded
    OBVIOUS
  <2>1. MappedIds = {} /\ LedgerOps = {} /\ \A g \in Gens : PendingTokens(g) = {}
    BY DEF Init, MappedIds, LedgerOps, PendingTokens, NoEntry
  <2>2. IsFiniteSet({}) /\ Cardinality({}) = 0
    BY FS_EmptySet
  <2>3. \A g \in Gens : Len(retired[g]) = 0
    BY DEF Init
  <2>4. Cardinality(MappedIds) = 0 /\ Cardinality(LedgerOps) = 0
    BY <2>1, <2>2, Zenon
  <2>5. \A g \in Gens : IsFiniteSet(PendingTokens(g)) /\ Cardinality(PendingTokens(g)) = 0
    BY <2>1, <2>2, Zenon
  <2> QED
    BY <2>3, <2>4, <2>5, BoundAssumption DEF FenceBounded, MapBounded, LedgerBounded
<1>2. FenceBounded /\ MapBounded /\ LedgerBounded => TablesBounded
  BY DEF FenceBounded, MapBounded, LedgerBounded, TablesBounded, SessionCount, LedgerCount,
         MappedIds, LedgerOps
<1> QED
  BY <1>1, <1>2, NextFenceBounded, NextMapBounded, NextLedgerBounded, TypeCorrect, PTL DEF Spec
=============================================================================
