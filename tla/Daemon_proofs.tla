---------------------------- MODULE Daemon_proofs ----------------------------
(***************************************************************************)
(* Proofs about the session registry of pty-daemon, for every number of    *)
(* ids, connections, tokens and generations and for every table limit.     *)
(***************************************************************************)
EXTENDS Daemon, SequenceTheorems, TLAPS

-----------------------------------------------------------------------------
(* Types. *)

\* AttachmentFence::retire keeps a sequence of tokens.
LEMMA RetireType ==
    ASSUME NEW r \in Seq(Tokens), NEW t \in Tokens
    PROVE  Retire(r, t) \in Seq(Tokens)
<1>1. CASE Len(r) = MaxRetired
  <2>1. r # << >>
    BY <1>1, BoundAssumption
  <2>2. Tail(r) \in Seq(Tokens)
    BY <2>1, HeadTailProperties
  <2> QED
    BY <1>1, <2>2 DEF Retire
<1>2. CASE Len(r) # MaxRetired
  BY <1>2 DEF Retire
<1> QED
  BY <1>1, <1>2

FenceTypeOK ==
    /\ guards \in [Gens -> Nat]
    /\ pending \in [Gens -> [Tokens -> Clients \cup {None}]]
    /\ retired \in [Gens -> Seq(Tokens)]

\* Releasing guards, raw or with their offers, keeps the fences well typed.
LEMMA DropGuardsType ==
    ASSUME FenceTypeOK, NEW c, NEW S, DropGuards(c, S)
    PROVE  FenceTypeOK'
BY DEF FenceTypeOK, DropGuards, SaturatingDec

LEMMA DetachGuardsType ==
    ASSUME FenceTypeOK, NEW c, NEW S, DetachGuards(c, S)
    PROVE  FenceTypeOK'
<1>1. guards' \in [Gens -> Nat]
  BY DEF FenceTypeOK, DetachGuards, SaturatingDec
<1>2. pending' \in [Gens -> [Tokens -> Clients \cup {None}]]
  BY DEF FenceTypeOK, DetachGuards
<1>3. retired' \in [Gens -> Seq(Tokens)]
  <2>1. ASSUME NEW g \in Gens, Retiring(c, S, g) # {}
        PROVE  Retire(retired[g], CHOOSE t \in Retiring(c, S, g) : TRUE) \in Seq(Tokens)
    <3>1. (CHOOSE t \in Retiring(c, S, g) : TRUE) \in Tokens
      BY <2>1 DEF Retiring
    <3> QED
      BY <3>1, RetireType DEF FenceTypeOK
  <2> QED
    BY <2>1 DEF FenceTypeOK, DetachGuards
<1> QED
  BY <1>1, <1>2, <1>3 DEF FenceTypeOK

\* Dropping ClientState keeps every type.
LEMMA CloseClientType ==
    ASSUME TypeOK, NEW c \in Clients, CloseClient(c)
    PROVE  TypeOK'
<1>1. FenceTypeOK'
  BY DetachGuardsType DEF TypeOK, FenceTypeOK, CloseClient
<1>2. att' \in [Clients -> [Ids -> Attachments]]
  BY DEF TypeOK, CloseClient, NoAttachment, Attachments, NoGen
<1>3. req' \in [Clients -> Requests]
  BY DEF TypeOK, CloseClient, NoRequest, Requests, NoGen
<1> QED
  BY <1>1, <1>2, <1>3
  DEF TypeOK, FenceTypeOK, CloseClient, mapVars, ledgerVars

\* ClientState::detach keeps the fences and the attachments well typed.
LEMMA DetachIdType ==
    ASSUME TypeOK, NEW c \in Clients, NEW i \in Ids, DetachId(c, i)
    PROVE  FenceTypeOK' /\ att' \in [Clients -> [Ids -> Attachments]]
<1>1. FenceTypeOK'
  BY DetachGuardsType DEF TypeOK, FenceTypeOK, DetachId
<1>2. att' \in [Clients -> [Ids -> Attachments]]
  BY DEF TypeOK, DetachId, NoAttachment, Attachments, NoGen
<1> QED
  BY <1>1, <1>2

\* A spawn keeps the registry well typed.
LEMMA SpawnType ==
    ASSUME TypeOK, NEW i \in Ids, NEW o \in OpTokens \cup {None}, NEW V, Spawn(i, o, V)
    PROVE  /\ mapped' \in [Ids -> Gens \cup {NoGen}]
           /\ home' \in [Gens -> Ids \cup {None}]
           /\ exited' \in SUBSET Gens
           /\ nextGen' \in 1 .. (MaxGen + 1)
           /\ origin' \in [Gens -> OpTokens \cup {None}]
BY BoundAssumption DEF TypeOK, Spawn, Gens

LEMMA InitType == Init => TypeOK
<1> SUFFICES ASSUME Init PROVE TypeOK
  OBVIOUS
<1>1. << >> \in Seq(Tokens)
  OBVIOUS
<1>2. ledger \in [OpTokens -> Entries]
  BY DEF Init, NoEntry, Entries, NoGen
<1>3. att \in [Clients -> [Ids -> Attachments]] /\ req \in [Clients -> Requests]
  BY DEF Init, NoAttachment, NoRequest, Attachments, Requests, NoGen
<1> QED
  BY <1>1, <1>2, <1>3, BoundAssumption DEF Init, TypeOK, Gens, NoGen

\* Each step of an Attach, Detach or CancelAttachmentHandoff keeps the types.
LEMMA AttachStepType ==
    ASSUME TypeOK, NEW c \in Clients, AttachStep(c)
    PROVE  TypeOK'
<1>0. FenceTypeOK
  BY DEF TypeOK, FenceTypeOK
<1>1. ASSUME NEW i \in Ids, NEW e \in Gens \cup {NoGen}, NEW h \in Handoffs,
             AttachAcquire(c, i, e, h)
      PROVE  TypeOK'
  <2>1. mapped[i] \in Gens
    BY <1>1 DEF TypeOK, AttachAcquire, ExpectationHolds
  <2>2. h.kind \in {"offer", "claim"} => h.token \in Tokens
    BY DEF Handoffs
  <2>4. guards' \in [Gens -> Nat]
    BY <1>1, <2>1 DEF TypeOK, AttachAcquire
  <2>5. pending' \in [Gens -> [Tokens -> Clients \cup {None}]]
    <3>1. CASE UNCHANGED pending
      BY <3>1 DEF TypeOK
    <3>2. CASE h.kind = "offer" /\ pending' = [pending EXCEPT ![mapped[i]][h.token] = c]
      BY <2>1, <2>2, <3>2 DEF TypeOK
    <3>3. CASE h.kind = "claim" /\ pending' = [pending EXCEPT ![mapped[i]][h.token] = None]
      BY <2>1, <2>2, <3>3 DEF TypeOK
    <3> QED
      BY <1>1, <3>1, <3>2, <3>3 DEF AttachAcquire
  <2>6. retired' \in [Gens -> Seq(Tokens)]
    <3>1. h.kind = "claim" => Retire(retired[mapped[i]], h.token) \in Seq(Tokens)
      BY <2>1, <2>2, RetireType DEF TypeOK
    <3> QED
      BY <1>1, <2>1, <3>1 DEF TypeOK, AttachAcquire
  <2>7. req' \in [Clients -> Requests]
    BY <1>1, <2>1, <2>2 DEF TypeOK, AttachAcquire, Requests
  <2> QED
    BY <1>1, <2>4, <2>5, <2>6, <2>7
    DEF TypeOK, AttachAcquire, mapVars, ledgerVars
<1>2. ASSUME NEW i \in Ids, NEW e \in Gens \cup {NoGen}, NEW h \in Handoffs,
             AttachRefused(c, i, e, h)
      PROVE  TypeOK'
  BY <1>2 DEF TypeOK, AttachRefused, mapVars, fenceVars, ledgerVars
<1>3. ASSUME NEW i \in Ids, NEW e \in Gens \cup {NoGen}, NEW h \in Handoffs,
             AttachInvalid(c, i, e, h)
      PROVE  TypeOK'
  BY <1>3, CloseClientType DEF AttachInvalid
<1>4. CASE Install(c)
  <2>1. FenceTypeOK'
    BY <1>0, <1>4, DropGuardsType, DetachGuardsType DEF Install
  <2>2. req[c] \in Requests
    BY DEF TypeOK
  <2>3. att' \in [Clients -> [Ids -> Attachments]]
    BY <1>4, <2>2 DEF TypeOK, Install, Requests, Attachments
  <2> QED
    BY <1>4, <2>1, <2>3
    DEF TypeOK, FenceTypeOK, Install, mapVars, ledgerVars
<1>5. CASE BaselineSent(c)
  BY <1>5 DEF TypeOK, BaselineSent, NoRequest, Requests, NoGen,
              mapVars, fenceVars, ledgerVars
<1>6. CASE BaselineFailed(c)
  <2>1. FenceTypeOK'
    BY <1>0, <1>6, DetachGuardsType DEF BaselineFailed, DetachId
  <2>2. att' \in [Clients -> [Ids -> Attachments]]
    BY <1>6 DEF TypeOK, BaselineFailed, DetachId, NoAttachment, Attachments, NoGen
  <2>3. req' \in [Clients -> Requests]
    BY <1>6 DEF TypeOK, BaselineFailed, NoRequest, Requests, NoGen
  <2> QED
    BY <1>6, <2>1, <2>2, <2>3
    DEF TypeOK, FenceTypeOK, BaselineFailed, mapVars, ledgerVars
<1>7. ASSUME NEW i \in Ids, Detach(c, i)
      PROVE  TypeOK'
  <2>1. FenceTypeOK' /\ att' \in [Clients -> [Ids -> Attachments]]
    BY <1>7, DetachIdType DEF Detach
  <2> QED
    BY <1>7, <2>1 DEF TypeOK, FenceTypeOK, Detach, mapVars, ledgerVars
<1>8. ASSUME NEW i \in Ids, NEW t \in Tokens, CancelHandoff(c, i, t)
      PROVE  TypeOK'
  <2>1. mapped[i] \in Gens
    BY <1>8 DEF TypeOK, CancelHandoff
  <2>2. Retire(retired[mapped[i]], t) \in Seq(Tokens)
    BY <2>1, RetireType DEF TypeOK
  <2>3. pending' \in [Gens -> [Tokens -> Clients \cup {None}]]
    BY <1>8, <2>1 DEF TypeOK, CancelHandoff
  <2>4. retired' \in [Gens -> Seq(Tokens)]
    BY <1>8, <2>1, <2>2 DEF TypeOK, CancelHandoff
  <2> QED
    BY <1>8, <2>3, <2>4 DEF TypeOK, CancelHandoff, mapVars, ledgerVars, connVars
<1> QED
  BY <1>1, <1>2, <1>3, <1>4, <1>5, <1>6, <1>7, <1>8 DEF AttachStep

\* Both critical sections of Kill keep the types.
LEMMA KillStepType ==
    ASSUME TypeOK, NEW c \in Clients, KillStep(c)
    PROVE  TypeOK'
<1>1. ASSUME NEW i \in Ids, NEW e \in Gens, KillRelease(c, i, e)
      PROVE  TypeOK'
  <2>1. FenceTypeOK' /\ att' \in [Clients -> [Ids -> Attachments]]
    BY <1>1, DetachIdType DEF KillRelease
  <2>2. req' \in [Clients -> Requests]
    BY <1>1 DEF TypeOK, KillRelease, Requests
  <2> QED
    BY <1>1, <2>1, <2>2 DEF TypeOK, FenceTypeOK, KillRelease, mapVars, ledgerVars
<1>2. CASE KillTake(c)
  <2>1. CASE CloseClient(c)
    BY <2>1, CloseClientType
  <2>2. CASE ~ CloseClient(c)
    <3>1. mapped' \in [Ids -> Gens \cup {NoGen}]
      BY <1>2, <2>2 DEF TypeOK, KillTake
    <3>2. req' \in [Clients -> Requests]
      <4>1. req' = [req EXCEPT ![c] = NoRequest]
        BY <1>2, <2>2 DEF KillTake
      <4> QED
        BY <4>1 DEF TypeOK, NoRequest, Requests, NoGen
    <3>3. conn' = [conn EXCEPT ![c] = "idle"]
      BY <1>2, <2>2 DEF KillTake
    <3>4. UNCHANGED <<home, exited, nextGen, origin, fenceVars, ledgerVars,
                      att, startRefused, attachRefused>>
      BY <1>2, <2>2 DEF KillTake
    <3> QED
      BY <3>1, <3>2, <3>3, <3>4 DEF TypeOK, fenceVars, ledgerVars
  <2> QED
    BY <2>1, <2>2
<1> QED
  BY <1>1, <1>2 DEF KillStep

\* Every start, reservation and retirement keeps the types.
LEMMA StartStepType ==
    ASSUME TypeOK, NEW c \in Clients, StartStep(c)
    PROVE  TypeOK'
<1>1. ASSUME NEW i \in Ids, NEW restart \in BOOLEAN, StartOrdinary(c, i, restart)
      PROVE  TypeOK'
  <2>1. PICK V : Spawn(i, None, V)
    BY <1>1 DEF StartOrdinary
  <2> QED
    BY <1>1, <2>1, SpawnType DEF TypeOK, StartOrdinary, fenceVars, ledgerVars, connVars
<1>2. ASSUME NEW i \in Ids, NEW o \in OpTokens, ReserveStart(c, i, o)
      PROVE  TypeOK'
  <2>1. ledger' \in [OpTokens -> Entries]
    BY <1>2 DEF TypeOK, ReserveStart, Entries, NoGen
  <2> QED
    BY <1>2, <2>1 DEF TypeOK, ReserveStart, mapVars, fenceVars, connVars
<1>3. ASSUME NEW i \in Ids, NEW o \in OpTokens, NEW p \in Preconditions,
             StartApplied(c, i, o, p)
      PROVE  TypeOK'
  <2>1. Spawn(i, o, {})
    BY <1>3 DEF StartApplied
  <2>2. ledger' \in [OpTokens -> Entries]
    BY <1>3, <2>1 DEF TypeOK, StartApplied, Spawn, Entries
  <2>3. startRefused' \in [Clients -> (Ids \X OpTokens) \cup {None}]
    BY <1>3 DEF TypeOK, StartApplied
  <2> QED
    BY <1>3, <2>1, <2>2, <2>3, SpawnType DEF TypeOK, StartApplied, fenceVars
<1>4. ASSUME NEW i \in Ids, NEW o \in OpTokens, StartRefusedReserved(c, i, o)
      PROVE  TypeOK'
  <2>1. ledger' \in [OpTokens -> Entries]
    BY <1>4 DEF TypeOK, StartRefusedReserved, Entries, NoGen
  <2>2. startRefused' \in [Clients -> (Ids \X OpTokens) \cup {None}]
    BY <1>4 DEF TypeOK, StartRefusedReserved
  <2> QED
    BY <1>4, <2>1, <2>2 DEF TypeOK, StartRefusedReserved, mapVars, fenceVars
<1>5. ASSUME NEW i \in Ids, NEW o \in OpTokens, StartAnswered(c, i, o)
      PROVE  TypeOK'
  <2>1. startRefused' \in [Clients -> (Ids \X OpTokens) \cup {None}]
    BY <1>5 DEF TypeOK, StartAnswered
  <2> QED
    BY <1>5, <2>1 DEF TypeOK, StartAnswered, mapVars, fenceVars, ledgerVars
<1>6. ASSUME NEW i \in Ids, NEW o \in OpTokens, NEW e \in Gens \cup {NoGen},
             RetireStart(c, i, o, e)
      PROVE  TypeOK'
  <2>1. ledger' \in [OpTokens -> Entries]
    BY <1>6 DEF TypeOK, RetireStart, NoEntry, Entries, NoGen
  <2> QED
    BY <1>6, <2>1 DEF TypeOK, RetireStart, mapVars, fenceVars, connVars
<1> QED
  BY <1>1, <1>2, <1>3, <1>4, <1>5, <1>6 DEF StartStep

\* TypeOK is inductive.
LEMMA NextType == TypeOK /\ [Next]_vars => TypeOK'
<1> SUFFICES ASSUME TypeOK, [Next]_vars PROVE TypeOK'
  OBVIOUS
<1>1. ASSUME NEW c \in Clients, Accept(c)
      PROVE  TypeOK'
  BY <1>1 DEF TypeOK, Accept, mapVars, fenceVars, ledgerVars
<1>2. ASSUME NEW c \in Clients, ClientStep(c)
      PROVE  TypeOK'
  BY <1>2, CloseClientType, AttachStepType, KillStepType, StartStepType
  DEF ClientStep, Disconnect
<1>3. ASSUME NEW g \in Gens, ChildExit(g)
      PROVE  TypeOK'
  BY <1>3 DEF TypeOK, ChildExit, fenceVars, ledgerVars, connVars
<1>4. CASE UNCHANGED vars
  BY <1>4 DEF TypeOK, vars, mapVars, fenceVars, ledgerVars, connVars
<1> QED
  BY <1>1, <1>2, <1>3, <1>4 DEF Next

\* Every table, fence, ledger entry and connection of the daemon is well typed
\* in every reachable state.
THEOREM TypeCorrect == Spec => []TypeOK
BY InitType, NextType, PTL DEF Spec

-----------------------------------------------------------------------------
(* The replay fence. *)

\* What the fence remembers after a retirement was remembered before, or is
\* the token just retired.
LEMMA RetireMembers ==
    ASSUME NEW r \in Seq(Tokens), NEW t \in Tokens, NEW u \in Tokens,
           IsRetired(Retire(r, t), u), u # t
    PROVE  IsRetired(r, u)
<1>1. CASE IsRetired(r, t)
  BY <1>1 DEF Retire
<1>2. CASE ~ IsRetired(r, t) /\ Len(r) # MaxRetired
  BY <1>2 DEF Retire, IsRetired
<1>3. CASE ~ IsRetired(r, t) /\ Len(r) = MaxRetired
  <2>1. r # << >>
    BY <1>3, BoundAssumption
  <2>2. /\ Tail(r) \in Seq(Tokens)
        /\ Len(Tail(r)) = Len(r) - 1
        /\ \A k \in 1 .. Len(Tail(r)) : Tail(r)[k] = r[k + 1]
    BY <2>1, HeadTailProperties
  <2>3. Retire(r, t) = Append(Tail(r), t)
    BY <1>3 DEF Retire
  <2> DEFINE q == Tail(r)
  <2>4. /\ Len(Append(q, t)) = Len(q) + 1
        /\ \A k \in 1 .. Len(q) : Append(q, t)[k] = q[k]
        /\ Append(q, t)[Len(q) + 1] = t
    BY <2>2, AppendProperties
  <2>5. PICK k \in 1 .. Len(Append(q, t)) : Append(q, t)[k] = u
    BY <2>3 DEF IsRetired
  <2>6. Len(q) \in Nat
    BY <2>2
  <2> HIDE DEF q
  <2>7. k \in 1 .. Len(q) /\ q[k] = u
    BY <2>4, <2>6, <2>5
  <2>8. k + 1 \in 1 .. Len(r) /\ r[k + 1] = u
    BY <2>2, <2>7 DEF q
  <2> QED
    BY <2>8 DEF IsRetired
<1> QED
  BY <1>1, <1>2, <1>3

\* Detaching takes back the offers it retires, and retires no other.
LEMMA DetachKeepsReplayFence ==
    ASSUME TypeOK, PendingNotRetired, NEW c, NEW S, DetachGuards(c, S)
    PROVE  PendingNotRetired'
<1> SUFFICES ASSUME NEW g \in Gens, NEW u \in Tokens,
                    pending'[g][u] # None, IsRetired(retired'[g], u)
             PROVE  FALSE
  BY DEF PendingNotRetired
<1>1. u \notin Retiring(c, S, g) /\ pending[g][u] # None
  BY DEF DetachGuards, TypeOK
<1>2. CASE Retiring(c, S, g) = {}
  BY <1>1, <1>2 DEF DetachGuards, PendingNotRetired
<1>3. CASE Retiring(c, S, g) # {}
  <2> DEFINE t == CHOOSE t \in Retiring(c, S, g) : TRUE
  <2>1. t \in Retiring(c, S, g)
    BY <1>3
  <2>2. t \in Tokens /\ u # t
    BY <1>1, <2>1 DEF Retiring
  <2>3. retired'[g] = Retire(retired[g], t)
    BY <1>3 DEF DetachGuards
  <2>4. retired[g] \in Seq(Tokens)
    BY DEF TypeOK
  <2> HIDE DEF t
  <2>5. IsRetired(retired[g], u)
    BY <2>2, <2>3, <2>4, RetireMembers
  <2> QED
    BY <1>1, <2>5 DEF PendingNotRetired
<1> QED
  BY <1>2, <1>3

\* Taking token t of generation g out of the pending offers and retiring it,
\* as a claim and a cancellation do.
LEMMA SpendKeepsReplayFence ==
    ASSUME TypeOK, PendingNotRetired, NEW g \in Gens, NEW t \in Tokens,
           pending' = [pending EXCEPT ![g][t] = None],
           retired' = [retired EXCEPT ![g] = Retire(@, t)]
    PROVE  PendingNotRetired'
<1> SUFFICES ASSUME NEW f \in Gens, NEW u \in Tokens,
                    pending'[f][u] # None, IsRetired(retired'[f], u)
             PROVE  FALSE
  BY DEF PendingNotRetired
<1>1. pending[f][u] # None /\ (f = g => u # t)
  BY DEF TypeOK
<1>2. CASE f = g
  <2>1. IsRetired(Retire(retired[g], t), u) /\ retired[g] \in Seq(Tokens)
    BY <1>2 DEF TypeOK
  <2>2. IsRetired(retired[g], u)
    BY <1>1, <1>2, <2>1, RetireMembers
  <2> QED
    BY <1>1, <1>2, <2>2 DEF PendingNotRetired
<1>3. CASE f # g
  BY <1>1, <1>3 DEF TypeOK, PendingNotRetired
<1> QED
  BY <1>2, <1>3

LEMMA NextReplayFence == TypeOK /\ PendingNotRetired /\ [Next]_vars => PendingNotRetired'
<1> SUFFICES ASSUME TypeOK, PendingNotRetired, [Next]_vars
             PROVE  PendingNotRetired'
  OBVIOUS
<1>0. ASSUME UNCHANGED <<pending, retired>>
      PROVE  PendingNotRetired'
  BY <1>0 DEF PendingNotRetired
<1>1. ASSUME NEW c \in Clients, CloseClient(c)
      PROVE  PendingNotRetired'
  BY <1>1, DetachKeepsReplayFence DEF CloseClient
<1>2. ASSUME NEW c \in Clients, NEW i \in Ids, NEW e, NEW h \in Handoffs,
             AttachAcquire(c, i, e, h)
      PROVE  PendingNotRetired'
  <2>1. mapped[i] \in Gens
    BY <1>2 DEF TypeOK, AttachAcquire, ExpectationHolds
  <2>2. CASE h.kind = "plain"
    BY <1>0, <1>2, <2>2 DEF AttachAcquire
  <2>3. CASE h.kind = "offer"
    <3>1. h.token \in Tokens /\ ~ IsRetired(retired[mapped[i]], h.token)
      BY <1>2, <2>3 DEF Handoffs, AttachAcquire, Acquirable
    <3>2. /\ pending' = [pending EXCEPT ![mapped[i]][h.token] = c]
          /\ retired' = retired
      BY <1>2, <2>3 DEF AttachAcquire
    <3> QED
      BY <2>1, <3>1, <3>2 DEF PendingNotRetired, TypeOK
  <2>4. CASE h.kind = "claim"
    <3>1. h.token \in Tokens
      BY <2>4 DEF Handoffs
    <3>2. /\ pending' = [pending EXCEPT ![mapped[i]][h.token] = None]
          /\ retired' = [retired EXCEPT ![mapped[i]] = Retire(@, h.token)]
      BY <1>2, <2>4 DEF AttachAcquire
    <3> QED
      BY <2>1, <3>1, <3>2, SpendKeepsReplayFence
  <2> QED
    BY <1>2, <2>2, <2>3, <2>4 DEF AttachAcquire
<1>3. ASSUME NEW c \in Clients, Install(c)
      PROVE  PendingNotRetired'
  BY <1>0, <1>3, DetachKeepsReplayFence DEF Install, DropGuards
<1>4. ASSUME NEW c \in Clients, NEW i, DetachId(c, i)
      PROVE  PendingNotRetired'
  BY <1>4, DetachKeepsReplayFence DEF DetachId
<1>5. ASSUME NEW c \in Clients, NEW i \in Ids, NEW t \in Tokens, CancelHandoff(c, i, t)
      PROVE  PendingNotRetired'
  <2>1. mapped[i] \in Gens
    BY <1>5 DEF TypeOK, CancelHandoff
  <2>2. /\ pending' = [pending EXCEPT ![mapped[i]][t] = None]
        /\ retired' = [retired EXCEPT ![mapped[i]] = Retire(@, t)]
    BY <1>5 DEF CancelHandoff
  <2> QED
    BY <2>1, <2>2, SpendKeepsReplayFence
<1>6. ASSUME NEW c \in Clients, AttachStep(c)
      PROVE  PendingNotRetired'
  BY <1>0, <1>1, <1>2, <1>3, <1>4, <1>5, <1>6
  DEF AttachStep, AttachRefused, AttachInvalid, BaselineSent, BaselineFailed,
      Detach, fenceVars
<1>7. ASSUME NEW c \in Clients, KillStep(c)
      PROVE  PendingNotRetired'
  BY <1>0, <1>1, <1>4, <1>7 DEF KillStep, KillRelease, KillTake, fenceVars
<1>8. ASSUME NEW c \in Clients, StartStep(c)
      PROVE  PendingNotRetired'
  BY <1>0, <1>8 DEF StartStep, StartOrdinary, ReserveStart, StartApplied,
     StartRefusedReserved, StartAnswered, RetireStart, fenceVars
<1>9. ASSUME NEW c \in Clients, Accept(c) \/ ClientStep(c)
      PROVE  PendingNotRetired'
  BY <1>0, <1>1, <1>6, <1>7, <1>8, <1>9 DEF Accept, ClientStep, Disconnect, fenceVars
<1>10. ASSUME NEW g \in Gens, ChildExit(g)
       PROVE  PendingNotRetired'
  BY <1>0, <1>10 DEF ChildExit, fenceVars
<1>11. CASE UNCHANGED vars
  BY <1>0, <1>11 DEF vars, fenceVars
<1> QED
  BY <1>9, <1>10, <1>11 DEF Next

\* A handoff token that the fence remembers as claimed, cancelled or detached
\* is never claimable, whatever the order of requests and connection losses.
THEOREM ReplayFence == Spec => []PendingNotRetired
<1>1. Init => PendingNotRetired
  BY DEF Init, PendingNotRetired, IsRetired
<1> QED
  BY <1>1, NextReplayFence, TypeCorrect, PTL DEF Spec

-----------------------------------------------------------------------------
(* The start-operation ledger. *)

\* A generation not yet drawn was spawned by no operation.
FreshUnclaimed == \A g \in Gens : g >= nextGen => origin[g] = None

\* OperationSpawnsOnce alone is not inductive: a start could draw a generation
\* that some ledger entry already names, or that another operation spawned.
LedgerInv == FreshUnclaimed /\ OperationSpawnsOnce /\ AppliedEntryNamesSession

\* A spawn gives an undrawn generation its operation and its id, and leaves
\* those of every other generation alone.
LEMMA SpawnEffect ==
    ASSUME TypeOK, NEW i \in Ids, NEW o \in OpTokens \cup {None}, NEW V, Spawn(i, o, V)
    PROVE  /\ nextGen \in Gens /\ nextGen' = nextGen + 1
           /\ origin'[nextGen] = o /\ home'[nextGen] = i
           /\ \A g \in Gens : g # nextGen => origin'[g] = origin[g] /\ home'[g] = home[g]
BY DEF TypeOK, Spawn

\* A spawn for operation o that keeps the ledger, except that an entry of o
\* which was reserved becomes applied with the generation spawned.
LEMMA SpawnKeepsLedger ==
    ASSUME TypeOK, LedgerInv, NEW i \in Ids, NEW o \in OpTokens \cup {None}, NEW V,
           Spawn(i, o, V), reopened' = reopened,
           \/ o = None /\ ledger' = ledger
           \/ /\ o \in OpTokens /\ ledger[o].st = "reserved"
              /\ ledger' = [ledger EXCEPT ![o] = [st |-> "applied", id |-> i,
                                                  gen |-> nextGen]]
    PROVE  LedgerInv'
<1>0. /\ nextGen \in Gens /\ nextGen' = nextGen + 1
      /\ origin'[nextGen] = o /\ home'[nextGen] = i
      /\ \A g \in Gens : g # nextGen => origin'[g] = origin[g] /\ home'[g] = home[g]
  BY SpawnEffect
<1>1. Gens \subseteq Nat /\ nextGen \in Nat
  BY BoundAssumption DEF Gens, TypeOK
<1>2. FreshUnclaimed'
  <2> SUFFICES ASSUME NEW g \in Gens, g >= nextGen'
               PROVE  origin'[g] = None
    BY DEF FreshUnclaimed
  <2>1. g >= nextGen /\ g # nextGen
    BY <1>0, <1>1
  <2>2. origin[g] = None
    BY <2>1 DEF LedgerInv, FreshUnclaimed
  <2> QED
    BY <1>0, <2>1, <2>2
<1>3. \A q \in OpTokens : q # o => ledger'[q] = ledger[q]
  BY DEF TypeOK
<1>4. o \in OpTokens => /\ ledger[o].st = "reserved"
                        /\ ledger'[o] = [st |-> "applied", id |-> i, gen |-> nextGen]
  BY NoneAssumption DEF TypeOK
<1>5. origin[nextGen] = None
  BY <1>0, <1>1 DEF LedgerInv, FreshUnclaimed
<1>6. AppliedEntryNamesSession'
  <2> SUFFICES ASSUME NEW q \in OpTokens, ledger'[q].st = "applied"
               PROVE  /\ ledger'[q].gen \in Gens /\ ledger'[q].gen < nextGen'
                      /\ origin'[ledger'[q].gen] = q /\ home'[ledger'[q].gen] = ledger'[q].id
    BY DEF AppliedEntryNamesSession
  <2>1. CASE q = o
    BY <1>0, <1>1, <1>4, <2>1
  <2>2. CASE q # o
    <3>1. ledger'[q] = ledger[q] /\ ledger[q].st = "applied"
      BY <1>3, <2>2
    <3>2. /\ ledger[q].gen \in Gens /\ ledger[q].gen < nextGen
          /\ origin[ledger[q].gen] = q /\ home[ledger[q].gen] = ledger[q].id
      BY <3>1 DEF LedgerInv, AppliedEntryNamesSession
    <3>3. ledger[q].gen # nextGen
      BY <1>1, <3>2
    <3>4. ledger[q].gen < nextGen'
      <4>1. ledger[q].gen \in Nat
        BY <1>1, <3>2
      <4> QED
        BY <1>0, <1>1, <3>2, <4>1
    <3>5. /\ origin'[ledger[q].gen] = q
          /\ home'[ledger[q].gen] = ledger[q].id
      BY <1>0, <3>2, <3>3
    <3> QED
      BY <3>1, <3>2, <3>4, <3>5
  <2> QED
    BY <2>1, <2>2
<1>7. OperationSpawnsOnce'
  <2> SUFFICES ASSUME NEW q \in OpTokens, q \notin reopened, NEW g \in Gens
               PROVE  origin'[g] = q <=> ledger'[q].st = "applied" /\ ledger'[q].gen = g
    BY DEF OperationSpawnsOnce
  <2>1. origin[g] = q <=> ledger[q].st = "applied" /\ ledger[q].gen = g
    BY DEF LedgerInv, OperationSpawnsOnce
  <2>2. CASE q = o
    <3>1. origin[g] # q
      BY <1>4, <2>1, <2>2
    <3> QED
      BY <1>0, <1>4, <2>2, <3>1
  <2>3. CASE q # o /\ g # nextGen
    BY <1>0, <1>3, <2>1, <2>3
  <2>4. CASE q # o /\ g = nextGen
    <3>1. origin[g] # q
      BY <1>5, <2>4, NoneAssumption
    <3> QED
      BY <1>0, <1>3, <2>1, <2>4, <3>1
  <2> QED
    BY <2>2, <2>3, <2>4
<1> QED
  BY <1>2, <1>6, <1>7 DEF LedgerInv

\* An entry that becomes or stops being unapplied, with the registry as it
\* was, keeps the ledger truthful; dropping an applied one reopens its token.
LEMMA EntryKeepsLedger ==
    ASSUME TypeOK, LedgerInv, NEW o \in OpTokens, NEW n,
           UNCHANGED <<home, nextGen, origin>>,
           ledger' = [ledger EXCEPT ![o] = n], n.st # "applied",
           \/ reopened' = reopened /\ ledger[o].st # "applied"
           \/ reopened' = reopened \cup {o}
    PROVE  LedgerInv'
<1>1. /\ \A q \in OpTokens : q # o => ledger'[q] = ledger[q]
      /\ ledger'[o].st # "applied"
  BY DEF TypeOK
<1>2. FreshUnclaimed'
  BY DEF LedgerInv, FreshUnclaimed
<1>3. AppliedEntryNamesSession'
  BY <1>1 DEF LedgerInv, AppliedEntryNamesSession
<1>4. OperationSpawnsOnce'
  <2> SUFFICES ASSUME NEW q \in OpTokens, q \notin reopened', NEW g \in Gens
               PROVE  origin'[g] = q <=> ledger'[q].st = "applied" /\ ledger'[q].gen = g
    BY DEF OperationSpawnsOnce
  <2>1. origin[g] = q <=> ledger[q].st = "applied" /\ ledger[q].gen = g
    BY DEF LedgerInv, OperationSpawnsOnce
  <2> QED
    BY <1>1, <2>1
<1> QED
  BY <1>2, <1>3, <1>4 DEF LedgerInv

LEMMA NextLedger == TypeOK /\ LedgerInv /\ [Next]_vars => LedgerInv'
<1> SUFFICES ASSUME TypeOK, LedgerInv, [Next]_vars
             PROVE  LedgerInv'
  OBVIOUS
<1>0. ASSUME UNCHANGED <<home, nextGen, origin, ledger, reopened>>
      PROVE  LedgerInv'
  BY <1>0 DEF LedgerInv, FreshUnclaimed, OperationSpawnsOnce, AppliedEntryNamesSession
<1>1. ASSUME NEW c \in Clients, AttachStep(c) \/ KillStep(c) \/ Disconnect(c) \/ Accept(c)
      PROVE  LedgerInv'
  <2>1. CASE CloseClient(c)
    BY <1>0, <2>1 DEF CloseClient, mapVars, ledgerVars
  <2>2. CASE Accept(c) \/ Disconnect(c)
    BY <1>0, <2>1, <2>2 DEF Accept, Disconnect, mapVars, ledgerVars
  <2>3. CASE KillStep(c)
    BY <1>0, <2>1, <2>3 DEF KillStep, KillRelease, KillTake, mapVars, ledgerVars
  <2>4. CASE AttachStep(c)
    <3>1. CloseClient(c) \/ UNCHANGED <<mapVars, ledgerVars>>
      BY <2>4 DEF AttachStep, AttachAcquire, AttachRefused, AttachInvalid, Install,
                  BaselineSent, BaselineFailed, Detach, CancelHandoff
    <3> QED
      BY <1>0, <2>1, <3>1 DEF mapVars, ledgerVars
  <2> QED
    BY <1>1, <2>2, <2>3, <2>4
<1>2. ASSUME NEW c \in Clients, NEW i \in Ids, NEW restart, StartOrdinary(c, i, restart)
      PROVE  LedgerInv'
  <2>1. PICK V : Spawn(i, None, V)
    BY <1>2 DEF StartOrdinary
  <2>2. UNCHANGED <<ledger, reopened>>
    BY <1>2 DEF StartOrdinary, ledgerVars
  <2> QED
    BY <2>1, <2>2, SpawnKeepsLedger
<1>3. ASSUME NEW c \in Clients, NEW i \in Ids, NEW o \in OpTokens, NEW p,
             StartApplied(c, i, o, p)
      PROVE  LedgerInv'
  <2>1. Spawn(i, o, {}) /\ ledger[o].st = "reserved" /\ reopened' = reopened
    BY <1>3 DEF StartApplied
  <2>2. ledger' = [ledger EXCEPT ![o] = [st |-> "applied", id |-> i, gen |-> nextGen]]
    BY <1>3 DEF StartApplied
  <2> QED
    BY <2>1, <2>2, SpawnKeepsLedger
<1>4. ASSUME NEW c \in Clients, NEW i \in Ids, NEW o \in OpTokens,
             ReserveStart(c, i, o) \/ StartRefusedReserved(c, i, o)
      PROVE  LedgerInv'
  <2>1. PICK n : n.st # "applied" /\ ledger' = [ledger EXCEPT ![o] = n]
    BY <1>4 DEF ReserveStart, StartRefusedReserved
  <2>2. UNCHANGED <<home, nextGen, origin, reopened>> /\ ledger[o].st # "applied"
    BY <1>4 DEF ReserveStart, StartRefusedReserved, mapVars
  <2> QED
    BY <2>1, <2>2, EntryKeepsLedger
<1>5. ASSUME NEW c \in Clients, NEW i \in Ids, NEW o \in OpTokens, StartAnswered(c, i, o)
      PROVE  LedgerInv'
  BY <1>0, <1>5 DEF StartAnswered, mapVars, ledgerVars
<1>6. ASSUME NEW c \in Clients, NEW i \in Ids, NEW o \in OpTokens, NEW e,
             RetireStart(c, i, o, e)
      PROVE  LedgerInv'
  <2>1. ledger' = [ledger EXCEPT ![o] = NoEntry] /\ reopened' = reopened \cup {o}
    BY <1>6 DEF RetireStart
  <2>2. UNCHANGED <<home, nextGen, origin>> /\ NoEntry.st # "applied"
    BY <1>6 DEF RetireStart, mapVars, NoEntry
  <2> QED
    BY <2>1, <2>2, EntryKeepsLedger
<1>7. ASSUME NEW c \in Clients, StartStep(c)
      PROVE  LedgerInv'
  BY <1>2, <1>3, <1>4, <1>5, <1>6, <1>7 DEF StartStep
<1>8. ASSUME NEW g \in Gens, ChildExit(g)
      PROVE  LedgerInv'
  BY <1>0, <1>8 DEF ChildExit, ledgerVars
<1>9. CASE UNCHANGED vars
  BY <1>0, <1>9 DEF vars, mapVars, ledgerVars
<1> QED
  BY <1>1, <1>7, <1>8, <1>9 DEF Next, ClientStep

LEMMA LedgerCorrect == Spec => []LedgerInv
<1>1. Init => LedgerInv
  BY NoneAssumption
  DEF Init, LedgerInv, FreshUnclaimed, OperationSpawnsOnce, AppliedEntryNamesSession, NoEntry
<1> QED
  BY <1>1, NextLedger, TypeCorrect, PTL DEF Spec

\* Until its token is retired a start operation spawns at most one Session,
\* and exactly the one its ledger entry names, however Start is replayed.
THEOREM StartIdempotent == Spec => []OperationSpawnsOnce
<1>1. LedgerInv => OperationSpawnsOnce
  BY DEF LedgerInv
<1> QED
  BY <1>1, LedgerCorrect, PTL

\* The answer to a replayed Start or a Lookup of an applied operation names
\* the Session that this operation spawned under this id.
THEOREM LedgerTruthful == Spec => []AppliedEntryNamesSession
<1>1. LedgerInv => AppliedEntryNamesSession
  BY DEF LedgerInv
<1> QED
  BY <1>1, LedgerCorrect, PTL

-----------------------------------------------------------------------------
(* Who may remove a running Session. *)

\* The ids whose running Session a step took away without licence.
Unlicensed(i) ==
    /\ mapped[i] # NoGen /\ mapped[i] \notin exited /\ mapped'[i] # mapped[i]
    /\ ~ (/\ mapped'[i] = NoGen
          /\ \E c \in Clients : /\ conn[c] = "kill" /\ req[c].id = i
                                /\ req[c].gen = mapped[i])

LEMMA NoUnlicensedRemoval ==
    ASSUME TypeOK, Next, NEW i \in Ids
    PROVE  ~ Unlicensed(i)
<1>0. ASSUME mapped' = mapped
      PROVE  ~ Unlicensed(i)
  BY <1>0 DEF Unlicensed
<1>1. ASSUME NEW c \in Clients, AttachStep(c) \/ Disconnect(c) \/ Accept(c)
      PROVE  ~ Unlicensed(i)
  BY <1>0, <1>1
  DEF Accept, Disconnect, AttachStep, AttachAcquire, AttachRefused, AttachInvalid,
      Install, BaselineSent, BaselineFailed, Detach, CancelHandoff, CloseClient, mapVars
<1>2. ASSUME NEW c \in Clients, KillStep(c)
      PROVE  ~ Unlicensed(i)
  <2>1. CASE mapped' = mapped
    BY <1>0, <2>1
  <2>2. CASE mapped' # mapped
    <3>1. /\ conn[c] = "kill"
          /\ mapped[req[c].id] = NoGen \/ mapped[req[c].id] = req[c].gen
          /\ mapped' = [mapped EXCEPT ![req[c].id] = NoGen]
      BY <1>2, <2>2 DEF KillStep, KillRelease, KillTake, CloseClient, mapVars
    <3> QED
      BY <3>1 DEF TypeOK, Unlicensed
  <2> QED
    BY <2>1, <2>2
<1>3. ASSUME NEW j \in Ids, NEW o, NEW V, Spawn(j, o, V),
             mapped[j] = NoGen \/ mapped[j] \in exited,
             \A v \in V : mapped[v] \in exited
      PROVE  ~ Unlicensed(i)
  BY <1>3 DEF Spawn, TypeOK, Unlicensed
<1>4. ASSUME NEW c \in Clients, StartStep(c)
      PROVE  ~ Unlicensed(i)
  <2>1. ASSUME NEW j \in Ids, NEW restart \in BOOLEAN, StartOrdinary(c, j, restart)
        PROVE  ~ Unlicensed(i)
    <3>1. PICK V : /\ Spawn(j, None, V)
                   /\ mapped[j] = NoGen \/ mapped[j] \in exited
                   /\ \A v \in V : mapped[v] \in exited
      <4>1. CASE (mapped[j] = NoGen \/ mapped[j] \in exited) /\ Spawn(j, None, {})
        BY <4>1
      <4>2. ASSUME NEW v \in Ids, mapped[j] = NoGen, mapped[v] \in exited,
                   Spawn(j, None, {v})
            PROVE  \E V : /\ Spawn(j, None, V)
                          /\ mapped[j] = NoGen \/ mapped[j] \in exited
                          /\ \A w \in V : mapped[w] \in exited
        BY <4>2
      <4> QED
        BY <2>1, <4>1, <4>2 DEF StartOrdinary, CanReclaim
    <3> QED
      BY <1>3, <3>1
  <2>2. ASSUME NEW j \in Ids, NEW o \in OpTokens, NEW p \in Preconditions,
               StartApplied(c, j, o, p)
        PROVE  ~ Unlicensed(i)
    BY <1>3, <2>2 DEF StartApplied, PreconditionHolds
  <2> QED
    BY <1>0, <1>4, <2>1, <2>2
    DEF StartStep, ReserveStart, StartRefusedReserved, StartAnswered, RetireStart, mapVars
<1>5. ASSUME NEW g \in Gens, ChildExit(g)
      PROVE  ~ Unlicensed(i)
  BY <1>0, <1>5 DEF ChildExit
<1> QED
  BY <1>1, <1>2, <1>4, <1>5 DEF Next, ClientStep

\* Neither a start, nor a restart, nor an eviction, nor a Kill meant for an
\* earlier Session under the id ever takes a running Session out of the map.
THEOREM RunningSessionKept == Spec => LiveSessionOnlyKilled
<1>1. TypeOK /\ [Next]_vars =>
        [\A i \in Ids :
           mapped[i] # NoGen /\ mapped[i] \notin exited /\ mapped'[i] # mapped[i] =>
             /\ mapped'[i] = NoGen
             /\ \E c \in Clients : /\ conn[c] = "kill" /\ req[c].id = i
                                   /\ req[c].gen = mapped[i]]_vars
  BY NoUnlicensedRemoval DEF Unlicensed
<1> QED
  BY <1>1, TypeCorrect, PTL DEF Spec, LiveSessionOnlyKilled
=============================================================================
