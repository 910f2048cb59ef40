------------------------ MODULE SessionStream_proofs ------------------------
(***************************************************************************)
(* Proofs about SessionStream, for any screens, capacities and bounds: the *)
(* renderer shows exactly one revision of the session's screen and never   *)
(* goes back, the end of a session is sent once and last, and no bell is   *)
(* lost, repeated or reordered except those of frames the ring dropped.    *)
(***************************************************************************)
EXTENDS SessionStream, SequenceTheorems, TLAPS

\* Events about the first n revisions.
EventsTo(n) ==
    {e \in [type : {"grid", "damage", "bell", "resync", "exited"}, base : 0 .. n, rev : 0 .. n] :
        e.type = "bell" => e.rev # 0}

(* TypeOK in parts.  An event still to be sent, or on its way, is about a      *)
(* revision that exists, and the forwarder has something to send exactly where *)
(* it sends.                                                                   *)
GridTyped ==
    /\ screen \in Seq(Screens) /\ Rev \in Nat /\ Rev >= 1
    /\ frames \in Seq(2 .. Rev) /\ Len(frames) \in Nat
    /\ child \in {"running", "latched", "announced", "gone"} /\ removed \in BOOLEAN
FwdTyped ==
    /\ fpc \in {"none", "restore", "idle", "poll", "pollExit", "frame", "diff", "send", "done"}
    /\ pos \in 0 .. Len(frames)
    /\ frame \in 0 .. Rev /\ prev \in 0 .. Rev /\ baseline \in 0 .. Rev /\ notified \in 0 .. Rev
    /\ todo \in Seq(EventsTo(Rev)) /\ (todo # << >> <=> fpc \in {"restore", "send"})
WireTyped == out \in Seq(EventsTo(Rev)) /\ asked \in Nat /\ reply \in 0 .. Rev
SyncTyped ==
    /\ phase \in {"AwaitingBaseline", "Synchronized", "AwaitingResync", "Exited"}
    /\ current \in 0 .. Rev /\ inFlight \in BOOLEAN
    /\ recovery \in {"none", "pending", "admitted"}
    /\ current = 0 => held = None
UsedTyped ==
    used \in [resizes : 0 .. MaxResizes, snapshots : 0 .. MaxSnapshots, garbled : 0 .. MaxGarbled]
HistTyped ==
    /\ attachedAt \in 0 .. Rev /\ seen \in 0 .. Rev
    /\ lost \subseteq 1 .. Rev /\ belled \in Seq(1 .. Rev) /\ exits \in Nat

TypeInv == GridTyped /\ FwdTyped /\ WireTyped /\ SyncTyped /\ UsedTyped /\ HistTyped
           /\ HeldIsExact

-----------------------------------------------------------------------------
(* Sequences of events. *)

\* An event about the first n revisions is about the first m >= n.
LEMMA EventsGrow ==
    ASSUME NEW n \in Nat, NEW m \in Nat, n <= m
    PROVE  Seq(EventsTo(n)) \subseteq Seq(EventsTo(m))
<1>1. EventsTo(n) \subseteq EventsTo(m)
  BY DEF EventsTo
<1> QED
  BY <1>1, SeqMonotonic

\* What is sent joins the queue behind the rest.
LEMMA AppendTyped ==
    ASSUME NEW S, NEW s \in Seq(S), NEW e \in S
    PROVE  /\ Append(s, e) \in Seq(S) /\ Len(Append(s, e)) = Len(s) + 1
           /\ \A i \in 1 .. Len(s) : Append(s, e)[i] = s[i]
           /\ Append(s, e)[Len(s) + 1] = e
BY AppendProperties

\* What is received leaves the rest.
LEMMA TailTyped ==
    ASSUME NEW S, NEW s \in Seq(S), s # << >>
    PROVE  /\ Head(s) \in S /\ Tail(s) \in Seq(S) /\ Len(Tail(s)) = Len(s) - 1
           /\ Len(s) \in Nat /\ Len(s) > 0
           /\ \A i \in 1 .. Len(Tail(s)) : Tail(s)[i] = s[i + 1]
BY HeadTailProperties, LenProperties

\* The events of the forwarder and the handler.
LEMMA EventsMade ==
    ASSUME NEW n \in Nat, NEW r \in 0 .. n, NEW b \in 0 .. n
    PROVE  /\ Grid(r) \in EventsTo(n) /\ Damage(b, r) \in EventsTo(n)
           /\ Resync \in EventsTo(n) /\ Exited \in EventsTo(n)
           /\ r # 0 => Bell(r) \in EventsTo(n)
BY DEF EventsTo, Grid, Damage, Bell, Resync, Exited

\* One and two events in a row.
LEMMA ShortSeqs ==
    ASSUME NEW S, NEW a \in S, NEW b \in S
    PROVE  /\ <<a>> \in Seq(S) /\ <<a, b>> \in Seq(S)
           /\ <<a>> # << >> /\ <<a, b>> # << >>
           /\ Head(<<a>>) = a /\ Tail(<<a>>) = << >>
           /\ Head(<<a, b>>) = a /\ Tail(<<a, b>>) = <<b>>
OBVIOUS

\* Tuples of EventsTo(n) are tuples of Events.
LEMMA EventsAreEvents ==
    ASSUME NEW n \in Nat
    PROVE  Seq(EventsTo(n)) \subseteq Seq(Events)
<1>1. EventsTo(n) \subseteq Events
  BY DEF EventsTo, Events
<1> QED
  BY <1>1, SeqMonotonic

-----------------------------------------------------------------------------
(* Types, events and the screen on display. *)

\* The parts make the type invariant.
LEMMA PartsTyped == TypeInv => TypeOK
<1> SUFFICES ASSUME TypeInv PROVE TypeOK
  OBVIOUS
<1>1. todo \in Seq(Events) /\ out \in Seq(Events)
  BY EventsAreEvents DEF TypeInv, GridTyped, FwdTyped, WireTyped
<1>2. held \in [size : Sizes, look : Looks \cup {None}] \cup {None}
  <2>1. CASE current = 0
    BY <2>1 DEF TypeInv, SyncTyped
  <2>2. CASE current # 0
    <3>1. held = screen[current] /\ screen[current] \in Screens
      BY <2>2, ElementOfSeq DEF TypeInv, SyncTyped, GridTyped, HeldIsExact, Rev
    <3> QED
      BY <3>1 DEF Screens
  <2> QED
    BY <2>1, <2>2
<1> QED
  BY <1>1, <1>2
     DEF TypeInv, TypeOK, GridTyped, FwdTyped, WireTyped, SyncTyped, UsedTyped, HistTyped

\* Nothing is attached to a new session.
LEMMA InitTyped == Init => TypeInv
<1> SUFFICES ASSUME Init PROVE TypeInv
  OBVIOUS
<1>1. screen \in Seq(Screens) /\ Rev = 1
  BY ScreenAssumption DEF Init, Rev
<1>0. removed \in BOOLEAN /\ inFlight \in BOOLEAN
  BY Zenon DEF Init
<1>2. GridTyped
  BY <1>0, <1>1, EmptySeq DEF Init, GridTyped
<1>3. FwdTyped
  BY <1>1, EmptySeq DEF Init, FwdTyped
<1>4. WireTyped /\ SyncTyped
  BY <1>0, <1>1, EmptySeq DEF Init, WireTyped, SyncTyped
<1>5. UsedTyped /\ HistTyped /\ HeldIsExact
  BY <1>1, BoundAssumption, EmptySeq DEF Init, UsedTyped, HistTyped, HeldIsExact
<1> QED
  BY <1>2, <1>3, <1>4, <1>5 DEF TypeInv

\* A longer history has the old revisions where they were, and what was about
\* them stays well typed.
LEMMA GrownScreen ==
    ASSUME TypeInv, NEW sc \in Screens, screen' = Append(screen, sc)
    PROVE  /\ screen' \in Seq(Screens) /\ Rev' = Rev + 1
           /\ \A r \in 1 .. Rev : screen'[r] = screen[r]
           /\ Seq(EventsTo(Rev)) \subseteq Seq(EventsTo(Rev'))
           /\ Seq(2 .. Rev) \subseteq Seq(2 .. Rev') /\ Seq(1 .. Rev) \subseteq Seq(1 .. Rev')
<1>1. screen \in Seq(Screens) /\ Rev \in Nat /\ Rev >= 1
  BY DEF TypeInv, GridTyped
<1>2. /\ screen' \in Seq(Screens) /\ Rev' = Rev + 1
      /\ \A r \in 1 .. Rev : screen'[r] = screen[r]
  BY <1>1, AppendTyped DEF Rev
<1>3. 2 .. Rev \subseteq 2 .. Rev' /\ 1 .. Rev \subseteq 1 .. Rev'
  BY <1>1, <1>2
<1>4. Seq(EventsTo(Rev)) \subseteq Seq(EventsTo(Rev'))
  BY <1>1, <1>2, EventsGrow
<1>5. Seq(2 .. Rev) \subseteq Seq(2 .. Rev') /\ Seq(1 .. Rev) \subseteq Seq(1 .. Rev')
  BY <1>3, SeqMonotonic
<1> QED
  BY <1>2, <1>4, <1>5

\* What is not the grid stays well typed when the grid grows.
LEMMA GrownRest ==
    ASSUME TypeInv, NEW sc \in Screens, screen' = Append(screen, sc),
           frames' \in Seq(2 .. Rev'), Len(frames') \in Nat, Len(frames') >= Len(frames),
           UNCHANGED <<child, removed, fwdVars, wireVars, syncVars, histVars>>
    PROVE  GridTyped' /\ FwdTyped' /\ WireTyped' /\ SyncTyped' /\ HistTyped' /\ HeldIsExact'
<1>1. /\ screen' \in Seq(Screens) /\ Rev' = Rev + 1
      /\ \A r \in 1 .. Rev : screen'[r] = screen[r]
      /\ Seq(EventsTo(Rev)) \subseteq Seq(EventsTo(Rev'))
      /\ Seq(1 .. Rev) \subseteq Seq(1 .. Rev')
  BY GrownScreen
<1>2. Rev \in Nat /\ Rev >= 1 /\ Len(frames) \in Nat
  BY DEF TypeInv, GridTyped
<1>3. GridTyped'
  BY <1>1, <1>2 DEF TypeInv, GridTyped
<1>4. FwdTyped'
  BY <1>1, <1>2 DEF TypeInv, FwdTyped, fwdVars
<1>5. WireTyped'
  BY <1>1, <1>2 DEF TypeInv, WireTyped, wireVars
<1>6. SyncTyped'
  BY <1>1, <1>2 DEF TypeInv, SyncTyped, syncVars
<1>7. HistTyped'
  BY <1>1, <1>2 DEF TypeInv, HistTyped, histVars
<1>8. HeldIsExact'
  <2>1. current' = current /\ held' = held
    BY DEF syncVars
  <2>2. current # 0 => held = screen[current] /\ screen'[current] = screen[current]
    <3>1. current \in 0 .. Rev
      BY DEF TypeInv, SyncTyped
    <3>2. current # 0 => current \in 1 .. Rev
      BY <1>2, <3>1
    <3> QED
      BY <1>1, <3>2 DEF TypeInv, HeldIsExact
  <2> QED
    BY <2>1, <2>2 DEF HeldIsExact
<1> QED
  BY <1>3, <1>4, <1>5, <1>6, <1>7, <1>8

\* The pump, the resize and the removal.
LEMMA GridStepTyped ==
    ASSUME TypeInv,
           \/ \E look \in Looks : Output(look)
           \/ \E size \in Sizes : Resize(size)
           \/ Latch \/ PumpEnding \/ Remove
    PROVE  TypeInv'
<1>1. /\ screen \in Seq(Screens) /\ Rev \in Nat /\ Rev >= 1 /\ screen[Rev] \in Screens
      /\ frames \in Seq(2 .. Rev) /\ Len(frames) \in Nat
  BY ElementOfSeq DEF TypeInv, GridTyped, Rev
<1>2. CASE \E look \in Looks : Output(look)
  <2> PICK look \in Looks : Output(look)
    BY <1>2
  <2> DEFINE sc == [screen[Rev] EXCEPT !.look = look]
  <2>1. sc \in Screens
    BY <1>1 DEF Screens
  <2>2. /\ screen' = Append(screen, sc) /\ frames' = Append(frames, Rev + 1)
        /\ UNCHANGED <<child, removed, fwdVars, wireVars, syncVars, used, histVars>>
    BY DEF Output
  <2> HIDE DEF sc
  <2>3. Rev' = Rev + 1 /\ frames \in Seq(2 .. Rev')
    BY <1>1, <2>1, <2>2, GrownScreen
  <2>4. Rev + 1 \in 2 .. Rev'
    BY <1>1, <2>3
  <2>5. frames' \in Seq(2 .. Rev') /\ Len(frames') = Len(frames) + 1
    BY <2>2, <2>3, <2>4, AppendTyped
  <2>6. GridTyped' /\ FwdTyped' /\ WireTyped' /\ SyncTyped' /\ HistTyped' /\ HeldIsExact'
    BY <1>1, <2>1, <2>2, <2>5, GrownRest
  <2> QED
    BY <2>2, <2>6 DEF TypeInv, UsedTyped
<1>3. CASE \E size \in Sizes : Resize(size)
  <2> PICK size \in Sizes : Resize(size)
    BY <1>3
  <2> DEFINE sc == [screen[Rev] EXCEPT !.size = size]
  <2>1. sc \in Screens
    BY <1>1 DEF Screens
  <2>2. /\ screen' = Append(screen, sc)
        /\ UNCHANGED <<frames, child, removed, fwdVars, wireVars, syncVars, histVars>>
    BY DEF Resize
  <2> HIDE DEF sc
  <2>3. frames' \in Seq(2 .. Rev')
    BY <1>1, <2>1, <2>2, GrownScreen
  <2>4. GridTyped' /\ FwdTyped' /\ WireTyped' /\ SyncTyped' /\ HistTyped' /\ HeldIsExact'
    BY <1>1, <2>1, <2>2, <2>3, GrownRest
  <2>5. UsedTyped'
    BY BoundAssumption DEF TypeInv, UsedTyped, Resize
  <2> QED
    BY <2>4, <2>5 DEF TypeInv
<1>4. CASE Latch \/ PumpEnding \/ Remove
  <2>1. UNCHANGED <<screen, frames, fwdVars, wireVars, syncVars, used, histVars>>
    BY <1>4 DEF Latch, PumpEnding, Announce, PumpEnds, Remove
  <2>2. GridTyped'
    BY <1>4, <2>1 DEF TypeInv, GridTyped, Rev, Latch, PumpEnding, Announce, PumpEnds, Remove
  <2>3. FwdTyped' /\ WireTyped' /\ SyncTyped' /\ UsedTyped' /\ HistTyped' /\ HeldIsExact'
    BY <2>1 DEF TypeInv, FwdTyped, WireTyped, SyncTyped, UsedTyped, HistTyped, HeldIsExact, Rev,
                fwdVars, wireVars, syncVars, histVars
  <2> QED
    BY <2>2, <2>3 DEF TypeInv
<1> QED
  BY <1>2, <1>3, <1>4

\* What a step leaves alone stays well typed.
LEMMA Kept ==
    ASSUME TypeInv, UNCHANGED gridVars
    PROVE  /\ Rev' = Rev /\ GridTyped'
           /\ UNCHANGED fwdVars => FwdTyped'
           /\ UNCHANGED wireVars => WireTyped'
           /\ UNCHANGED syncVars => SyncTyped' /\ HeldIsExact'
           /\ UNCHANGED used => UsedTyped'
           /\ UNCHANGED histVars => HistTyped'
<1>1. Rev' = Rev /\ UNCHANGED <<screen, frames, child, removed>>
  BY DEF gridVars, Rev
<1>2. GridTyped'
  BY <1>1 DEF TypeInv, GridTyped
<1>3. UNCHANGED fwdVars => FwdTyped'
  BY <1>1 DEF TypeInv, FwdTyped, fwdVars
<1>4. UNCHANGED wireVars => WireTyped'
  BY <1>1 DEF TypeInv, WireTyped, wireVars
<1>5. UNCHANGED syncVars => SyncTyped' /\ HeldIsExact'
  BY <1>1 DEF TypeInv, SyncTyped, HeldIsExact, syncVars
<1>6. UNCHANGED used => UsedTyped'
  BY DEF TypeInv, UsedTyped
<1>7. UNCHANGED histVars => HistTyped'
  BY <1>1 DEF TypeInv, HistTyped, histVars
<1> QED
  BY <1>1, <1>2, <1>3, <1>4, <1>5, <1>6, <1>7

\* What the forwarder puts together to send.
LEMMA TodoMade ==
    ASSUME TypeInv
    PROVE  /\ \A r \in 0 .. Rev : /\ <<Grid(r)>> \in Seq(EventsTo(Rev))
                                  /\ <<Grid(r), Exited>> \in Seq(EventsTo(Rev))
                                  /\ <<Resync, Grid(r)>> \in Seq(EventsTo(Rev))
           /\ <<Exited>> \in Seq(EventsTo(Rev))
           /\ \A b, r \in 0 .. Rev : <<Damage(b, r)>> \in Seq(EventsTo(Rev))
           /\ \A r \in 1 .. Rev : <<Bell(r)>> \in Seq(EventsTo(Rev))
<1>1. Rev \in Nat /\ 0 \in 0 .. Rev /\ 1 .. Rev \subseteq 0 .. Rev
  BY DEF TypeInv, GridTyped
<1> QED
  BY <1>1, EventsMade, ShortSeqs

\* Attach and the forwarder.
LEMMA ForwarderTyped ==
    ASSUME TypeInv, Attach \/ Forwarder
    PROVE  TypeInv'
<1>1. /\ Rev \in Nat /\ Rev >= 1 /\ Len(frames) \in Nat
      /\ frames \in Seq(2 .. Rev) /\ pos \in 0 .. Len(frames)
      /\ todo \in Seq(EventsTo(Rev)) /\ (todo # << >> <=> fpc \in {"restore", "send"})
      /\ prev \in 0 .. Rev /\ frame \in 0 .. Rev /\ notified \in 0 .. Rev /\ baseline \in 0 .. Rev
  BY DEF TypeInv, GridTyped, FwdTyped
<1>2. UNCHANGED <<gridVars, syncVars, used>>
  BY DEF Attach, Forwarder, Send, PollFrame, PollLagged, PollClosed, PollEmpty, PollExit, Wake,
         Notify, Diff
<1>3. /\ Rev' = Rev /\ Len(frames') = Len(frames)
      /\ GridTyped' /\ SyncTyped' /\ HeldIsExact' /\ UsedTyped'
      /\ UNCHANGED wireVars => WireTyped'
      /\ UNCHANGED histVars => HistTyped'
  BY <1>2, Kept DEF gridVars
<1> DEFINE Q == Seq(EventsTo(Rev))
<1>4. Q' = Q
  BY <1>3
<1>5. <<Exited>> \in Q /\ <<Exited>> # << >>
  BY TodoMade
<1>6. <<Resync, Grid(Rev)>> \in Q /\ <<Resync, Grid(Rev)>> # << >>
  BY <1>1, TodoMade
<1> HIDE DEF Q
<1>7. CASE Attach
  <2>1. <<Grid(Rev)>> \in Q /\ <<Grid(Rev), Exited>> \in Q
    BY <1>1, TodoMade DEF Q
  <2>2. todo' \in Q /\ todo' # << >>
    BY <1>7, <2>1 DEF Attach
  <2>3. FwdTyped'
    BY <1>7, <1>1, <1>3, <1>4, <2>2 DEF Attach, FwdTyped, Q
  <2>4. HistTyped'
    BY <1>7, <1>1, <1>3 DEF Attach, HistTyped, TypeInv
  <2> QED
    BY <1>7, <1>3, <2>3, <2>4 DEF TypeInv, Attach
<1>8. CASE PollLagged
  <2>1. \A k \in (pos + 1) .. (Len(frames) - RingCap) : frames[k] \in 1 .. Rev
    <3>1. \A k \in 1 .. Len(frames) : frames[k] \in 2 .. Rev
      BY <1>1, ElementOfSeq
    <3> QED
      BY <1>1, <3>1, CapAssumption
  <2>2. lost' \subseteq 1 .. Rev /\ pos' \in 0 .. Len(frames)
    <3>1. pos' = Len(frames) - RingCap /\ Len(frames) - pos > RingCap
      BY <1>8 DEF PollLagged
    <3>2. lost' = lost \cup {frames[k] : k \in (pos + 1) .. (Len(frames) - RingCap)}
      BY <1>8 DEF PollLagged
    <3>3. lost \subseteq 1 .. Rev
      BY DEF TypeInv, HistTyped
    <3>4. pos' \in 0 .. Len(frames)
      BY <1>1, <3>1, CapAssumption
    <3> QED
      BY <2>1, <3>2, <3>3, <3>4
  <2>3. FwdTyped'
    BY <1>8, <1>1, <1>3, <1>4, <1>6, <2>2 DEF PollLagged, FwdTyped, Q
  <2>4. HistTyped'
    BY <1>8, <1>3, <2>2 DEF PollLagged, HistTyped, TypeInv
  <2> QED
    BY <1>8, <1>3, <2>3, <2>4 DEF TypeInv, PollLagged
<1>9. CASE PollFrame
  <2>1. frames[pos + 1] \in 0 .. Rev
    <3>1. frames[pos + 1] \in 2 .. Rev
      BY <1>9, <1>1, ElementOfSeq DEF PollFrame
    <3> QED
      BY <1>1, <3>1
  <2>2. FwdTyped'
    BY <1>9, <1>1, <1>3, <2>1 DEF PollFrame, FwdTyped
  <2> QED
    BY <1>9, <1>3, <2>2 DEF TypeInv, PollFrame
<1>10. CASE PollClosed \/ PollEmpty \/ PollExit \/ Wake
  <2>1. FwdTyped'
    BY <1>10, <1>1, <1>3, <1>4, <1>5 DEF PollClosed, PollEmpty, PollExit, Wake, FwdTyped, Q
  <2> QED
    BY <1>10, <1>3, <2>1 DEF TypeInv, PollClosed, PollEmpty, PollExit, Wake
<1>11. CASE Notify
  <2>1. frame > notified => <<Bell(frame)>> \in Q /\ <<Bell(frame)>> # << >>
    BY <1>1, TodoMade DEF Q
  <2>2. FwdTyped'
    BY <1>11, <1>1, <1>3, <1>4, <2>1 DEF Notify, FwdTyped, Q
  <2> QED
    BY <1>11, <1>3, <2>2 DEF TypeInv, Notify
<1>12. CASE Diff
  <2>1. <<Damage(prev, Rev)>> \in Q /\ <<Damage(prev, Rev)>> # << >>
    BY <1>1, TodoMade DEF Q
  <2>2. UNCHANGED <<pos, frame, notified>> /\ fpc = "diff"
    BY <1>12 DEF Diff
  <2>3. prev' \in 0 .. Rev /\ baseline' \in 0 .. Rev
    BY <1>12, <1>1 DEF Diff
  <2>4. \/ fpc' = "poll" /\ todo' = todo
        \/ fpc' = "send" /\ todo' \in {<<Damage(prev, Rev)>>, <<Resync, Grid(Rev)>>}
    BY <1>12 DEF Diff
  <2>5. fpc' \in {"poll", "send"} /\ todo' \in Q /\ (todo' # << >> <=> fpc' = "send")
    BY <1>1, <1>6, <2>1, <2>2, <2>4 DEF Q
  <2>6. FwdTyped'
    BY <1>1, <1>3, <1>4, <2>2, <2>3, <2>5 DEF FwdTyped, Q
  <2> QED
    BY <1>12, <1>3, <2>6 DEF TypeInv, Diff
<1>13. CASE Send
  <2>1. todo # << >> /\ out \in Q /\ todo \in Q
    BY <1>13, <1>1 DEF Send, TypeInv, WireTyped, Q
  <2>2. Head(todo) \in EventsTo(Rev) /\ Tail(todo) \in Q
    BY <2>1, TailTyped DEF Q
  <2>3. out' \in Q
    BY <1>13, <2>1, <2>2, AppendTyped DEF Send, Q
  <2>4. Head(todo).type = "bell" => Head(todo).rev \in 1 .. Rev
    BY <2>2 DEF EventsTo
  <2>5. belled \in Seq(1 .. Rev)
    BY DEF TypeInv, HistTyped
  <2>6. belled' \in Seq(1 .. Rev) /\ exits' \in Nat
    <3>1. Head(todo).type = "bell" => Append(belled, Head(todo).rev) \in Seq(1 .. Rev)
      BY <2>4, <2>5, AppendTyped
    <3>2. exits \in Nat
      BY DEF TypeInv, HistTyped
    <3>3. /\ belled' = IF Head(todo).type = "bell"
                       THEN Append(belled, Head(todo).rev) ELSE belled
          /\ exits' = IF Head(todo).type = "exited" THEN exits + 1 ELSE exits
      BY <1>13 DEF Send
    <3>4. exits' \in Nat
      BY <3>2, <3>3
    <3>5. belled' \in Seq(1 .. Rev)
      BY <2>5, <3>1, <3>3, Zenon
    <3> QED
      BY <3>4, <3>5
  <2>7. /\ fpc' \in {"restore", "send", "diff", "done", "poll"}
        /\ (Tail(todo) # << >> <=> fpc' \in {"restore", "send"})
    BY <1>13 DEF Send
  <2>8. FwdTyped'
    BY <1>13, <1>1, <1>3, <1>4, <2>2, <2>7 DEF Send, FwdTyped, Q
  <2>9. WireTyped'
    BY <1>13, <1>3, <1>4, <2>3 DEF Send, WireTyped, TypeInv, Q
  <2>10. HistTyped'
    BY <1>13, <1>3, <2>6 DEF Send, HistTyped, TypeInv
  <2> QED
    BY <1>3, <2>8, <2>9, <2>10 DEF TypeInv
<1> QED
  BY <1>7, <1>8, <1>9, <1>10, <1>11, <1>12, <1>13 DEF Forwarder

\* The handler, and the requests of the UI and of a retry.
LEMMA HandlerTyped ==
    ASSUME TypeInv, Handler \/ AskSnapshot \/ RetryRecovery
    PROVE  TypeInv'
<1>1. /\ Rev \in Nat /\ out \in Seq(EventsTo(Rev)) /\ asked \in Nat /\ reply \in 0 .. Rev
      /\ current \in 0 .. Rev
  BY DEF TypeInv, GridTyped, WireTyped, SyncTyped
<1>2. UNCHANGED <<gridVars, fwdVars, current, held, phase, inFlight, histVars>>
  BY DEF Handler, Capture, Reply, AskSnapshot, RetryRecovery, syncVars
<1>3. /\ Rev' = Rev /\ GridTyped' /\ FwdTyped' /\ HistTyped'
      /\ UNCHANGED syncVars => SyncTyped'
      /\ UNCHANGED used => UsedTyped'
  BY <1>2, Kept
<1>4. HeldIsExact'
  BY <1>2, <1>3 DEF TypeInv, HeldIsExact, gridVars
<1>5. CASE Capture
  <2>1. asked' \in Nat /\ reply' \in 0 .. Rev /\ out' = out
    BY <1>1, <1>5 DEF Capture
  <2> QED
    BY <1>1, <1>3, <1>4, <1>5, <2>1 DEF Capture, TypeInv, WireTyped
<1>6. CASE Reply
  <2>1. Grid(reply) \in EventsTo(Rev)
    BY <1>1, EventsMade
  <2>2. out' \in Seq(EventsTo(Rev)) /\ reply' \in 0 .. Rev /\ asked' = asked
    BY <1>1, <1>6, <2>1, AppendTyped DEF Reply
  <2> QED
    BY <1>1, <1>3, <1>4, <1>6, <2>2 DEF Reply, TypeInv, WireTyped
<1>7. CASE AskSnapshot
  <2>1. WireTyped'
    BY <1>1, <1>3, <1>7 DEF AskSnapshot, WireTyped
  <2>2. UsedTyped'
    BY <1>7, BoundAssumption DEF AskSnapshot, TypeInv, UsedTyped
  <2> QED
    BY <1>3, <1>4, <1>7, <2>1, <2>2 DEF AskSnapshot, TypeInv
<1>8. CASE RetryRecovery
  <2>1. WireTyped'
    BY <1>1, <1>3, <1>8 DEF RetryRecovery, WireTyped
  <2>2. SyncTyped'
    BY <1>2, <1>3, <1>8 DEF RetryRecovery, TypeInv, SyncTyped
  <2> QED
    BY <1>3, <1>4, <1>8, <2>1, <2>2 DEF RetryRecovery, TypeInv
<1> QED
  BY <1>5, <1>6, <1>7, <1>8 DEF Handler

\* A request for recovery changes nothing on display.
LEMMA RecoveryTyped ==
    ASSUME TypeInv, RequestRecovery
    PROVE  /\ phase' \in {"AwaitingBaseline", "Synchronized", "AwaitingResync", "Exited"}
           /\ inFlight' \in BOOLEAN /\ recovery' \in {"none", "pending", "admitted"}
           /\ asked' \in Nat
<1>1. /\ phase \in {"AwaitingBaseline", "Synchronized", "AwaitingResync", "Exited"}
      /\ recovery \in {"none", "pending", "admitted"} /\ asked \in Nat
  BY DEF TypeInv, SyncTyped, WireTyped
<1>2. inFlight \in BOOLEAN
  BY DEF TypeInv, SyncTyped
<1>3. inFlight' \in BOOLEAN
  BY <1>2, Zenon DEF RequestRecovery
<1> QED
  BY <1>1, <1>3 DEF RequestRecovery

\* The renderer.
LEMMA RendererTyped ==
    ASSUME TypeInv, Renderer
    PROVE  TypeInv'
<1>1. /\ Rev \in Nat /\ out \in Seq(EventsTo(Rev)) /\ current \in 0 .. Rev
      /\ asked \in Nat /\ reply \in 0 .. Rev /\ screen \in Seq(Screens)
  BY DEF TypeInv, GridTyped, WireTyped, SyncTyped
<1>2. /\ UNCHANGED <<gridVars, fwdVars, attachedAt, lost, belled, exits, reply>>
      /\ out # << >> /\ out' = Tail(out)
  BY DEF Renderer, OnGrid, OnDamage, OnGarbledDamage, OnResyncRequired, OnSessionExited, OnBell,
         Received, histVars
<1>3. /\ Rev' = Rev /\ screen' = screen /\ GridTyped' /\ FwdTyped'
      /\ UNCHANGED syncVars => SyncTyped' /\ HeldIsExact'
      /\ UNCHANGED used => UsedTyped'
  BY <1>2, Kept DEF gridVars
<1>4. /\ Head(out) \in EventsTo(Rev) /\ out' \in Seq(EventsTo(Rev))
      /\ Head(out).rev \in 0 .. Rev
  BY <1>1, <1>2, TailTyped DEF EventsTo
<1>5. asked' \in Nat => WireTyped'
  BY <1>1, <1>2, <1>3, <1>4 DEF WireTyped
<1>6. seen' \in 0 .. Rev => HistTyped'
  BY <1>2, <1>3 DEF HistTyped, TypeInv
<1>7. seen \in 0 .. Rev
  BY DEF TypeInv, HistTyped
<1>8. UNCHANGED <<current, held>> => HeldIsExact'
  BY <1>3 DEF TypeInv, HeldIsExact
<1>9. CASE OnGrid
  <2>1. /\ asked' = asked /\ seen' = seen /\ used' = used
    BY <1>9 DEF OnGrid, histVars
  <2>2. CASE UNCHANGED syncVars
    BY <1>1, <1>3, <1>5, <1>6, <1>7, <2>1, <2>2 DEF TypeInv
  <2>3. CASE ~ UNCHANGED syncVars
    <3>1. /\ Head(out).rev >= current /\ inFlight' = FALSE /\ recovery' = "none"
          /\ \/ UNCHANGED <<phase, current, held>>
             \/ /\ Head(out).rev # current
                /\ phase' = "Synchronized" /\ current' = Head(out).rev
                /\ held' = screen[Head(out).rev]
      BY <1>1, <1>4, <1>9, <2>3 DEF OnGrid
    <3>2. inFlight' \in BOOLEAN
      BY <3>1
    <3>3. current' \in 0 .. Rev /\ (current' = 0 => held' = None)
      BY <1>1, <1>4, <3>1 DEF TypeInv, SyncTyped
    <3>4. SyncTyped'
      BY <1>3, <3>1, <3>2, <3>3 DEF TypeInv, SyncTyped
    <3>5. HeldIsExact'
      BY <1>3, <3>1 DEF TypeInv, HeldIsExact
    <3> QED
      BY <1>1, <1>3, <1>5, <1>6, <1>7, <2>1, <3>4, <3>5 DEF TypeInv
  <2> QED
    BY <2>2, <2>3
<1>10. CASE OnDamage
  <2>1. used' = used
    BY <1>10 DEF OnDamage
  <2>2. CASE UNCHANGED <<syncVars, asked, seen>>
    BY <1>1, <1>3, <1>5, <1>6, <1>7, <2>1, <2>2 DEF TypeInv
  <2>3. CASE /\ Applicable(Head(out))
             /\ phase' = "Synchronized" /\ current' = Head(out).rev /\ held' = Apply(Head(out))
             /\ inFlight' = FALSE /\ recovery' = "none"
             /\ UNCHANGED <<asked, seen>>
    <3>1. held = screen[Head(out).base] /\ Head(out).rev > current
      BY <2>3 DEF Applicable, TypeInv, HeldIsExact
    <3>2. held' = screen[Head(out).rev]
      BY <2>3, <3>1 DEF Apply
    <3>3. HeldIsExact'
      BY <1>3, <2>3, <3>2 DEF HeldIsExact
    <3>4. inFlight' \in BOOLEAN
      BY <2>3
    <3>5. current' \in 0 .. Rev /\ current' # 0
      BY <1>1, <1>4, <2>3, <3>1
    <3>6. SyncTyped'
      BY <1>3, <2>3, <3>4, <3>5 DEF SyncTyped
    <3> QED
      BY <1>1, <1>3, <1>5, <1>6, <1>7, <2>1, <2>3, <3>3, <3>6 DEF TypeInv
  <2>4. CASE RequestRecovery /\ seen' = Head(out).rev /\ UNCHANGED <<current, held>>
    <3>1. SyncTyped' /\ asked' \in Nat
      BY <1>3, <2>4, RecoveryTyped DEF TypeInv, SyncTyped
    <3> QED
      BY <1>3, <1>4, <1>5, <1>6, <1>8, <2>1, <2>4, <3>1 DEF TypeInv
  <2> QED
    BY <1>10, <2>2, <2>3, <2>4 DEF OnDamage
<1>11. CASE OnGarbledDamage
  <2>1. RequestRecovery /\ UNCHANGED <<current, held, seen>>
    BY <1>11 DEF OnGarbledDamage, histVars
  <2>2. SyncTyped' /\ asked' \in Nat
    BY <1>3, <2>1, RecoveryTyped DEF TypeInv, SyncTyped
  <2>3. UsedTyped'
    BY <1>11, BoundAssumption DEF OnGarbledDamage, TypeInv, UsedTyped
  <2> QED
    BY <1>3, <1>5, <1>6, <1>7, <1>8, <2>1, <2>2, <2>3 DEF TypeInv
<1>12. CASE OnResyncRequired \/ OnSessionExited
  <2>1. UNCHANGED <<current, held, recovery, asked, used, seen>>
    BY <1>12 DEF OnResyncRequired, OnSessionExited, histVars
  <2>2. phase' \in {phase, "AwaitingResync", "Exited"}
    BY <1>12 DEF OnResyncRequired, OnSessionExited
  <2>3. inFlight' \in BOOLEAN
    <3>1. inFlight' = inFlight \/ inFlight' = FALSE
      BY <1>12 DEF OnResyncRequired, OnSessionExited
    <3>2. inFlight \in BOOLEAN
      BY DEF TypeInv, SyncTyped
    <3> QED
      BY <3>1, <3>2, Zenon
  <2>4. SyncTyped'
    BY <1>3, <2>1, <2>2, <2>3 DEF TypeInv, SyncTyped
  <2> QED
    BY <1>1, <1>3, <1>5, <1>6, <1>7, <1>8, <2>1, <2>4 DEF TypeInv
<1>13. CASE OnBell
  BY <1>1, <1>3, <1>5, <1>6, <1>7, <1>13 DEF TypeInv, OnBell, histVars
<1> QED
  BY <1>9, <1>10, <1>11, <1>12, <1>13 DEF Renderer

\* Every step keeps the types and the exact display.
LEMMA StepTyped == TypeInv /\ [Next]_vars => TypeInv'
<1> SUFFICES ASSUME TypeInv, [Next]_vars PROVE TypeInv'
  OBVIOUS
<1>1. CASE Next
  BY <1>1, GridStepTyped, ForwarderTyped, HandlerTyped, RendererTyped DEF Next
<1>2. CASE UNCHANGED vars
  BY <1>2, Kept DEF vars, TypeInv
<1> QED
  BY <1>1, <1>2

\* The state of a session stream is well typed, and the events on their way are
\* about revisions that exist.
THEOREM StreamTyped == Spec => []TypeOK
  BY InitTyped, StepTyped, PartsTyped, PTL DEF Spec

\* The renderer shows exactly the session's screen at the revision it believes
\* it holds, through lags, lost lines, overtaking snapshots and resizes
\* (SyncState::on_grid and on_damage).
THEOREM DisplayExact == Spec => []HeldIsExact
<1>1. TypeInv => HeldIsExact
  BY DEF TypeInv
<1> QED
  BY <1>1, InitTyped, StepTyped, PTL DEF Spec

\* A step that is not the renderer's leaves the display alone, and the renderer
\* only moves it forward.
LEMMA StepForward == TypeInv /\ [Next]_vars => current' >= current
<1> SUFFICES ASSUME TypeInv, [Next]_vars PROVE current' >= current
  OBVIOUS
<1>1. current \in Nat
  BY DEF TypeInv, GridTyped, SyncTyped
<1>2. CASE Renderer
  <2>1. Head(out).rev \in Nat
    <3>1. out # << >> /\ out \in Seq(EventsTo(Rev)) /\ Rev \in Nat
      BY <1>2 DEF Renderer, OnGrid, OnDamage, OnGarbledDamage, OnResyncRequired,
                  OnSessionExited, OnBell, Received, TypeInv, WireTyped, GridTyped
    <3>2. Head(out) \in EventsTo(Rev)
      BY <3>1, TailTyped
    <3> QED
      BY <3>1, <3>2 DEF EventsTo
  <2>2. current' = current \/ current' >= current
    BY <1>1, <1>2, <2>1 DEF Renderer, OnGrid, OnDamage, OnGarbledDamage, OnResyncRequired,
                            OnSessionExited, OnBell, Applicable, syncVars
  <2> QED
    BY <1>1, <2>2
<1>3. CASE UNCHANGED current
  BY <1>1, <1>3
<1> QED
  BY <1>2, <1>3 DEF Next, vars, Output, Resize, Latch, PumpEnding, Announce, PumpEnds, Remove,
     Attach, AskSnapshot, RetryRecovery, Handler, Capture, Reply, Forwarder, Send, PollFrame,
     PollLagged, PollClosed, PollEmpty, PollExit, Wake, Notify, Diff, syncVars

\* The display never goes back to an earlier revision, whatever overtakes what.
THEOREM DisplayForward == Spec => NeverRewinds
<1>1. TypeInv /\ [Next]_vars => [current' >= current]_vars
  BY StepForward
<1> QED
  BY <1>1, InitTyped, StepTyped, PTL DEF Spec, NeverRewinds

-----------------------------------------------------------------------------
(* The end of the session.  It is the last thing the forwarder ever has to     *)
(* send, and sending it ends the forwarder.                                    *)

LastOnly(s) == \A i \in 1 .. Len(s) : s[i].type = "exited" => i = Len(s)
ExitLast == \A i \in 1 .. Len(todo) : todo[i].type = "exited" => i = Len(todo)
ExitCounted == exits = IF fpc = "done" THEN 1 ELSE 0
ExitInv == ExitLast /\ ExitCounted

\* Every step keeps the exit invariant.
LEMMA StepExit == TypeInv /\ ExitInv /\ [Next]_vars => ExitInv'
<1> SUFFICES ASSUME TypeInv, ExitInv, [Next]_vars PROVE ExitInv'
  OBVIOUS
<1>1. CASE UNCHANGED <<todo, fpc, exits>>
  BY <1>1 DEF ExitInv, ExitLast, ExitCounted
<1>2. CASE Send
  <2>1. todo \in Seq(EventsTo(Rev)) /\ todo # << >> /\ fpc # "done"
    BY <1>2 DEF Send, TypeInv, FwdTyped
  <2>2. /\ Len(todo) \in Nat /\ Len(todo) > 0 /\ Head(todo) = todo[1]
        /\ Len(Tail(todo)) = Len(todo) - 1
        /\ \A i \in 1 .. Len(Tail(todo)) : Tail(todo)[i] = todo[i + 1]
        /\ Tail(todo) \in Seq(EventsTo(Rev))
    BY <2>1, TailTyped
  <2>3. todo' = Tail(todo)
    BY <1>2 DEF Send
  <2>0. \A i \in 1 .. Len(todo) : todo[i].type = "exited" => i = Len(todo)
    BY DEF ExitInv, ExitLast
  <2>4. ExitLast'
    <3> DEFINE t == Tail(todo)
    <3>1. /\ Len(t) = Len(todo) - 1 /\ Len(t) \in Int /\ Len(todo) \in Int
          /\ \A i \in 1 .. Len(t) : t[i] = todo[i + 1]
      BY <2>2
    <3> HIDE DEF t
    <3>2. \A i \in 1 .. Len(t) : t[i].type = "exited" => i = Len(t)
      <4> TAKE i \in 1 .. Len(t)
      <4>1. i \in Int /\ i + 1 \in 1 .. Len(todo) /\ t[i] = todo[i + 1]
        BY <3>1
      <4>2. todo[i + 1].type = "exited" => i + 1 = Len(todo)
        BY <2>0, <4>1
      <4>3. i + 1 = Len(todo) => i = Len(t)
        BY <3>1, <4>1
      <4> QED
        BY <4>1, <4>2, <4>3
    <3> QED
      BY <2>3, <3>2 DEF ExitLast, t
  <2>5. CASE Tail(todo) # << >>
    <3>1. Len(Tail(todo)) # 0
      BY <2>2, <2>5, EmptySeq
    <3>2. 1 \in 1 .. Len(todo) /\ 1 # Len(todo)
      BY <2>2, <3>1
    <3>3. Head(todo).type # "exited"
      BY <2>0, <2>2, <3>2
    <3> QED
      BY <1>2, <2>1, <2>4, <2>5, <3>3 DEF Send, ExitInv, ExitCounted
  <2>6. CASE Tail(todo) = << >>
    BY <1>2, <2>1, <2>4, <2>6 DEF Send, ExitInv, ExitCounted
  <2> QED
    BY <2>5, <2>6
<1>3. CASE Attach \/ PollFrame \/ PollLagged \/ PollClosed \/ PollEmpty \/ PollExit \/ Wake
           \/ Notify \/ Diff
  <2>1. exits' = exits /\ fpc # "done" /\ fpc' # "done"
    BY <1>3 DEF Attach, PollFrame, PollLagged, PollClosed, PollEmpty, PollExit, Wake, Notify,
                Diff, histVars
  <2>2. \/ todo' = todo \/ todo' = <<Grid(Rev)>> \/ todo' = <<Grid(Rev), Exited>>
        \/ todo' = <<Resync, Grid(Rev)>> \/ todo' = <<Exited>> \/ todo' = <<Bell(frame)>>
        \/ todo' = <<Damage(prev, Rev)>>
    BY <1>3 DEF Attach, PollFrame, PollLagged, PollClosed, PollEmpty, PollExit, Wake, Notify, Diff
  <2>3. ExitLast'
    <3>1. \A a : LastOnly(<<a>>)
      BY DEF LastOnly
    <3>2. \A a, b : a.type # "exited" => LastOnly(<<a, b>>)
      BY DEF LastOnly
    <3>3. Grid(Rev).type # "exited" /\ Resync.type # "exited"
      BY DEF Grid, Resync
    <3>4. LastOnly(todo)
      BY DEF ExitInv, ExitLast, LastOnly
    <3>5. LastOnly(todo')
      BY <2>2, <3>1, <3>2, <3>3, <3>4
    <3> QED
      BY <3>5 DEF ExitLast, LastOnly
  <2> QED
    BY <2>1, <2>3 DEF ExitInv, ExitCounted
<1> QED
  BY <1>1, <1>2, <1>3 DEF Next, vars, Output, Resize, Latch, PumpEnding, Announce, PumpEnds,
     Remove, AskSnapshot, RetryRecovery, Handler, Capture, Reply, Forwarder, Renderer, OnGrid,
     OnDamage, OnGarbledDamage, OnResyncRequired, OnSessionExited, OnBell, fwdVars, histVars

\* SessionExited is queued at most once and nothing of the forwarder follows it,
\* although the exit broadcast, the closed channel and the latch seen at Attach
\* each announce it.
THEOREM ExitSentOnce == Spec => []ExitOnce
<1>1. Init => ExitInv
  BY DEF Init, ExitInv, ExitLast, ExitCounted
<1>2. TypeInv /\ ExitInv => ExitOnce
  BY DEF TypeInv, FwdTyped, ExitInv, ExitCounted, ExitOnce
<1> QED
  BY <1>1, <1>2, InitTyped, StepTyped, StepExit, PTL DEF Spec

-----------------------------------------------------------------------------
(* Bells.  The forwarder passes the frames one by one; each that the ring kept *)
(* is in hand before the next one is looked at, and rings if it is newer than  *)
(* the last notification.  That boundary never falls behind the attach         *)
(* snapshot and never runs ahead of the frame in hand.                         *)

BellSet(n) == {frames[k] : k \in {j \in 1 .. n : frames[j] > attachedAt /\ frames[j] \notin lost}}

\* The frame in hand has not rung yet.
HasBell == \E i \in 1 .. Len(todo) : todo[i].type = "bell"
InHand == fpc = "frame" \/ HasBell

FramesUp == \A i, j \in 1 .. Len(frames) : i < j => frames[i] < frames[j]
BelledUp == \A i, j \in 1 .. Len(belled) : i < j => belled[i] < belled[j]
LostPassed == \A r \in lost : \E k \in 1 .. pos : r = frames[k]
Rung == {belled[i] : i \in 1 .. Len(belled)} = BellSet(IF InHand THEN pos - 1 ELSE pos)
HandExact == InHand => pos >= 1 /\ frame = frames[pos] /\ frame \notin lost
Boundary ==
    /\ notified >= attachedAt
    /\ \/ notified = attachedAt
       \/ \E k \in 1 .. (IF fpc = "frame" THEN pos - 1 ELSE pos) : notified = frames[k]
Ringing == HasBell => fpc = "send" /\ todo = <<Bell(frame)>> /\ frame > attachedAt
NoBellYet == fpc = "none" => belled = << >>

BellInv == FramesUp /\ BelledUp /\ LostPassed /\ Rung /\ HandExact /\ Boundary /\ Ringing
           /\ NoBellYet

\* What rang depends on the frames passed, the attachment and the losses.
LEMMA Kept2 ==
    ASSUME UNCHANGED <<frames, attachedAt, lost>>, NEW n
    PROVE  BellSet(n)' = BellSet(n)
BY DEF BellSet

\* The invariant in the form the steps use it.
LEMMA BellFacts ==
    ASSUME TypeInv, BellInv
    PROVE  /\ frames \in Seq(2 .. Rev) /\ Len(frames) \in Nat /\ Rev \in Nat
           /\ pos \in 0 .. Len(frames) /\ pos \in Nat
           /\ frame \in 0 .. Rev /\ notified \in 0 .. Rev /\ attachedAt \in 0 .. Rev
           /\ \A k \in 1 .. Len(frames) : frames[k] \in Nat /\ frames[k] \in 2 .. Rev
           /\ \A i, j \in 1 .. Len(frames) : i < j => frames[i] < frames[j]
           /\ \A r \in lost : \E k \in 1 .. pos : r = frames[k]
<1>1. /\ frames \in Seq(2 .. Rev) /\ Len(frames) \in Nat /\ Rev \in Nat
      /\ pos \in 0 .. Len(frames) /\ pos \in Nat
      /\ frame \in 0 .. Rev /\ notified \in 0 .. Rev /\ attachedAt \in 0 .. Rev
  BY DEF TypeInv, GridTyped, FwdTyped, HistTyped
<1>2. \A k \in 1 .. Len(frames) : frames[k] \in 2 .. Rev
  BY <1>1, ElementOfSeq
<1>3. \A k \in 1 .. Len(frames) : frames[k] \in Nat
  BY <1>1, <1>2
<1>4. \A i, j \in 1 .. Len(frames) : i < j => frames[i] < frames[j]
  BY DEF BellInv, FramesUp
<1>5. \A r \in lost : \E k \in 1 .. pos : r = frames[k]
  BY DEF BellInv, LostPassed
<1> QED
  BY <1>1, <1>2, <1>3, <1>4, <1>5

\* New output adds a frame behind those that were passed.
LEMMA OutputBell ==
    ASSUME TypeInv, BellInv, NEW look \in Looks, Output(look)
    PROVE  BellInv'
<1>1. /\ frames' = Append(frames, Rev + 1)
      /\ UNCHANGED <<fpc, pos, frame, todo, notified, attachedAt, lost, belled>>
  BY DEF Output, fwdVars, histVars
<1>2. /\ Len(frames') = Len(frames) + 1 /\ frames'[Len(frames) + 1] = Rev + 1
      /\ \A k \in 1 .. Len(frames) : frames'[k] = frames[k]
  BY <1>1, BellFacts
<1>4. FramesUp'
  <2>1. SUFFICES ASSUME NEW i \in 1 .. Len(frames) + 1, NEW j \in 1 .. Len(frames) + 1, i < j
                 PROVE  frames'[i] < frames'[j]
    BY <1>2 DEF FramesUp
  <2>2. i \in 1 .. Len(frames) /\ frames'[i] = frames[i] /\ frames[i] \in 2 .. Rev
    BY <1>2, <2>1, BellFacts
  <2>3. CASE j = Len(frames) + 1
    BY <1>2, <2>2, <2>3, BellFacts
  <2>4. CASE j # Len(frames) + 1
    <3>1. j \in 1 .. Len(frames)
      BY <2>4, BellFacts
    <3> QED
      BY <1>2, <2>1, <2>2, <3>1, BellFacts
  <2> QED
    BY <2>3, <2>4
<1>5. (InHand' <=> InHand) /\ (HasBell' <=> HasBell)
  BY <1>1 DEF InHand, HasBell
<1>6. \A n \in Int : n <= Len(frames) =>
          BellSet(n) = {frames'[k] : k \in {j \in 1 .. n : frames'[j] > attachedAt' /\ frames'[j] \notin lost'}}
  <2> TAKE n \in Int
  <2> HAVE n <= Len(frames)
  <2>1. \A k \in 1 .. n : frames'[k] = frames[k]
    BY <1>2, BellFacts
  <2> DEFINE A == {j \in 1 .. n : frames[j] > attachedAt /\ frames[j] \notin lost}
             B == {j \in 1 .. n : frames'[j] > attachedAt' /\ frames'[j] \notin lost'}
  <2>2. A = B
    BY <1>1, <2>1
  <2>3. {frames[k] : k \in A} = {frames'[k] : k \in A}
    BY <2>1
  <2>4. BellSet(n) = {frames[k] : k \in A}
    BY DEF BellSet
  <2> QED
    BY <2>2, <2>3, <2>4
<1>7. Rung'
  <2>1. {belled[i] : i \in 1 .. Len(belled)} = BellSet(IF InHand THEN pos - 1 ELSE pos)
    BY DEF BellInv, Rung
  <2>2. BellSet(pos - 1)' = BellSet(pos - 1) /\ BellSet(pos)' = BellSet(pos)
    <3>1. pos \in Int /\ pos - 1 \in Int /\ pos <= Len(frames) /\ pos - 1 <= Len(frames)
      BY BellFacts
    <3>2. BellSet(pos - 1)' = BellSet(pos - 1)
      BY <1>1, <1>6, <3>1 DEF BellSet
    <3>3. BellSet(pos)' = BellSet(pos)
      BY <1>1, <1>6, <3>1 DEF BellSet
    <3> QED
      BY <3>2, <3>3
  <2>3. CASE InHand
    BY <1>1, <1>5, <2>1, <2>2, <2>3 DEF Rung
  <2>4. CASE ~ InHand
    BY <1>1, <1>5, <2>1, <2>2, <2>4 DEF Rung
  <2> QED
    BY <2>3, <2>4
<1>8. \A k \in 1 .. pos : frames'[k] = frames[k]
  BY <1>2, BellFacts
<1>9. LostPassed'
  BY <1>1, <1>8 DEF BellInv, LostPassed
<1>10. HandExact'
  <2>1. InHand => pos >= 1 /\ frame = frames[pos] /\ frame \notin lost
    BY DEF BellInv, HandExact
  <2>2. pos >= 1 => frames'[pos] = frames[pos]
    BY <1>8, BellFacts
  <2> QED
    BY <1>1, <1>5, <2>1, <2>2 DEF HandExact
<1>11. Boundary'
  <2>1. \A k \in 1 .. (IF fpc = "frame" THEN pos - 1 ELSE pos) : frames'[k] = frames[k]
    BY <1>8, BellFacts
  <2> QED
    BY <1>1, <2>1 DEF BellInv, Boundary
<1>12. BelledUp' /\ Ringing' /\ NoBellYet'
  BY <1>1, <1>5 DEF BellInv, BelledUp, Ringing, NoBellYet
<1> QED
  BY <1>4, <1>7, <1>9, <1>10, <1>11, <1>12 DEF BellInv

\* A step that moves no frame keeps the bells, whether or not one is in hand.
LEMMA NothingRang ==
    ASSUME BellInv, UNCHANGED <<frames, pos, frame, notified, attachedAt, lost, belled>>,
           (fpc' = fpc /\ todo' = todo) \/ (~ InHand /\ ~ InHand' /\ (fpc' = "none" => fpc = "none"))
    PROVE  BellInv'
<1>1. (InHand' <=> InHand) /\ (fpc' = "frame" <=> fpc = "frame")
  BY DEF InHand, HasBell
<1>2. Rung'
  <2>1. BellSet(pos)' = BellSet(pos) /\ BellSet(pos - 1)' = BellSet(pos - 1)
    BY Kept2
  <2>2. {belled[i] : i \in 1 .. Len(belled)} = BellSet(IF InHand THEN pos - 1 ELSE pos)
    BY DEF BellInv, Rung
  <2>3. CASE InHand
    BY <1>1, <2>1, <2>2, <2>3 DEF Rung
  <2>4. CASE ~ InHand
    BY <1>1, <2>1, <2>2, <2>4 DEF Rung
  <2> QED
    BY <2>3, <2>4
<1>3. FramesUp' /\ BelledUp' /\ LostPassed'
  BY DEF BellInv, FramesUp, BelledUp, LostPassed
<1>4. HandExact' /\ Boundary'
  BY <1>1 DEF BellInv, HandExact, Boundary
<1>5. Ringing' /\ NoBellYet'
  BY <1>1 DEF BellInv, Ringing, NoBellYet, InHand, HasBell
<1> QED
  BY <1>2, <1>3, <1>4, <1>5 DEF BellInv

\* Every step keeps the bells exact.
LEMMA StepBell == TypeInv /\ BellInv /\ [Next]_vars => BellInv'
<1> SUFFICES ASSUME TypeInv, BellInv, [Next]_vars PROVE BellInv'
  OBVIOUS
<1>1. /\ belled \in Seq(1 .. Rev) /\ todo \in Seq(EventsTo(Rev))
      /\ (todo # << >> <=> fpc \in {"restore", "send"})
  BY DEF TypeInv, FwdTyped, HistTyped
<1>3. fpc \notin {"restore", "send"} => ~ HasBell
  BY <1>1 DEF HasBell
<1>4. CASE \E look \in Looks : Output(look)
  BY <1>4, OutputBell
<1>5. CASE UNCHANGED <<frames, fpc, pos, frame, todo, notified, attachedAt, lost, belled>>
  BY <1>5, NothingRang
<1>6. CASE Attach
  <2>1. /\ fpc = "none" /\ pos' = Len(frames) /\ notified' = Rev /\ attachedAt' = Rev
        /\ fpc' = "restore" /\ UNCHANGED <<frames, frame, lost, belled>>
        /\ todo' \in {<<Grid(Rev)>>, <<Grid(Rev), Exited>>}
    BY <1>6 DEF Attach, gridVars
  <2>2. ~ HasBell' /\ ~ InHand'
    BY <2>1 DEF HasBell, InHand, Grid, Exited
  <2>3. belled = << >>
    BY <2>1 DEF BellInv, NoBellYet
  <2>4. BellSet(pos)' = {}
    <3>1. \A j \in 1 .. Len(frames) : ~ (frames[j] > Rev)
      BY BellFacts
    <3> QED
      BY <2>1, <3>1 DEF BellSet
  <2>5. Rung'
    BY <2>1, <2>2, <2>3, <2>4 DEF Rung
  <2>6. LostPassed'
    <3>1. 1 .. pos \subseteq 1 .. Len(frames)
      BY BellFacts
    <3> QED
      BY <2>1, <3>1, BellFacts DEF LostPassed
  <2>7. Boundary'
    BY <2>1, BellFacts DEF Boundary
  <2> QED
    BY <2>1, <2>2, <2>3, <2>5, <2>6, <2>7
       DEF BellInv, FramesUp, BelledUp, HandExact, Ringing, NoBellYet
<1>7. CASE PollFrame
  <2>1. /\ fpc = "poll" /\ pos < Len(frames) /\ pos' = pos + 1 /\ frame' = frames[pos + 1]
        /\ fpc' = "frame" /\ UNCHANGED <<frames, todo, notified, attachedAt, lost, belled>>
    BY <1>7 DEF PollFrame, gridVars, histVars
  <2>2. ~ InHand /\ InHand' /\ ~ HasBell'
    BY <1>3, <2>1 DEF InHand, HasBell
  <2>0. /\ pos' - 1 = pos /\ pos + 1 \in 1 .. Len(frames) /\ pos + 1 >= 1
        /\ 1 .. pos \subseteq 1 .. (pos + 1)
    BY <2>1, BellFacts
  <2>3. frames[pos + 1] \notin lost
    <3> SUFFICES ASSUME NEW k \in 1 .. pos PROVE frames[pos + 1] # frames[k]
      BY BellFacts
    <3>1. k \in 1 .. Len(frames) /\ k < pos + 1
      BY <2>1, BellFacts
    <3>2. frames[k] < frames[pos + 1] /\ frames[k] \in Nat /\ frames[pos + 1] \in Nat
      BY <2>0, <3>1, BellFacts
    <3> QED
      BY <3>2
  <2>5. Rung'
    <3>1. {belled[i] : i \in 1 .. Len(belled)} = BellSet(pos)
      BY <2>2 DEF BellInv, Rung
    <3>2. Rung' <=> {belled[i] : i \in 1 .. Len(belled)} = BellSet(pos - 1)'
      BY <2>1, <2>2 DEF Rung
    <3>3. BellSet(pos - 1)' = BellSet(pos)
      BY <2>0, <2>1 DEF BellSet
    <3> QED
      BY <3>1, <3>2, <3>3
  <2>6. HandExact' /\ LostPassed'
    BY <2>0, <2>1, <2>3, BellFacts DEF HandExact, LostPassed
  <2>7. Boundary'
    BY <2>0, <2>1 DEF BellInv, Boundary
  <2> QED
    BY <2>1, <2>2, <2>5, <2>6, <2>7 DEF BellInv, FramesUp, BelledUp, Ringing, NoBellYet
<1>8. CASE PollLagged
  <2> DEFINE n == Len(frames) - RingCap
  <2>1. /\ fpc = "poll" /\ n > pos /\ pos' = n /\ fpc' = "send"
        /\ lost' = lost \cup {frames[k] : k \in (pos + 1) .. n}
        /\ todo' = <<Resync, Grid(Rev)>>
        /\ UNCHANGED <<frames, frame, notified, attachedAt, belled>>
    <3>1. Len(frames) - pos > RingCap => n > pos
      BY BellFacts, CapAssumption
    <3> QED
      BY <1>8, <3>1 DEF PollLagged, gridVars
  <2>2. n \in Nat /\ n <= Len(frames)
    BY <2>1, BellFacts, CapAssumption
  <2> HIDE DEF n
  <2>3. ~ InHand /\ ~ InHand' /\ ~ HasBell'
    BY <1>3, <2>1 DEF InHand, HasBell, Resync, Grid
  <2>4. LostPassed'
    <3>1. 1 .. pos \subseteq 1 .. n /\ (pos + 1) .. n \subseteq 1 .. n
      BY <2>1, <2>2, BellFacts
    <3>2. \A r \in lost' : \E k \in 1 .. n : r = frames[k]
      BY <2>1, <3>1, BellFacts
    <3> QED
      BY <2>1, <3>2 DEF LostPassed
  <2>5. \A j \in 1 .. pos : frames[j] \in lost' <=> frames[j] \in lost
    <3> SUFFICES ASSUME NEW j \in 1 .. pos, NEW k \in (pos + 1) .. n
                 PROVE  frames[j] # frames[k]
      BY <2>1
    <3>1. j \in 1 .. Len(frames) /\ k \in 1 .. Len(frames) /\ j < k
      BY <2>1, <2>2, BellFacts
    <3>2. frames[j] < frames[k] /\ frames[j] \in Nat /\ frames[k] \in Nat
      BY <3>1, BellFacts
    <3> QED
      BY <3>2
  <2>6. \A j \in (pos + 1) .. n : frames[j] \in lost'
    BY <2>1
  <2>7. BellSet(pos)' = BellSet(pos)
    <3> DEFINE A == {j \in 1 .. pos : frames[j] > attachedAt /\ frames[j] \notin lost}
               B == {j \in 1 .. n : frames[j] > attachedAt /\ frames[j] \notin lost'}
    <3>0. \A j \in 1 .. n : j \in 1 .. pos \/ j \in (pos + 1) .. n
      BY <2>1, <2>2, BellFacts
    <3>4. 1 .. pos \subseteq 1 .. n
      BY <2>1, <2>2, BellFacts
    <3>1. A = B
      BY <2>5, <2>6, <3>0, <3>4
    <3>2. BellSet(pos) = {frames[k] : k \in A}
      BY DEF BellSet
    <3>3. BellSet(pos)' = {frames[k] : k \in B}
      BY <2>1 DEF BellSet
    <3> QED
      BY <3>1, <3>2, <3>3
  <2>8. Rung'
    BY <2>1, <2>3, <2>7 DEF BellInv, Rung
  <2>9. Boundary'
    <3>1. 1 .. pos \subseteq 1 .. n
      BY <2>1, <2>2, BellFacts
    <3> QED
      BY <2>1, <3>1 DEF BellInv, Boundary
  <2> QED
    BY <2>1, <2>3, <2>4, <2>8, <2>9
       DEF BellInv, FramesUp, BelledUp, HandExact, Ringing, NoBellYet
<1>9. CASE PollClosed \/ PollEmpty \/ PollExit \/ Wake
  <2>1. /\ fpc \in {"poll", "pollExit", "idle"} /\ fpc' \in {"send", "pollExit", "idle", "poll"}
        /\ todo' \in {todo, <<Exited>>}
        /\ UNCHANGED <<frames, pos, frame, notified, attachedAt, lost, belled>>
    BY <1>9 DEF PollClosed, PollEmpty, PollExit, Wake, gridVars, histVars
  <2>2. ~ InHand /\ ~ InHand' /\ ~ HasBell'
    BY <1>3, <2>1 DEF InHand, HasBell, Exited
  <2> QED
    BY <2>1, <2>2, NothingRang
<1>10. CASE Notify
  <2>1. /\ fpc = "frame" /\ InHand /\ ~ HasBell
        /\ UNCHANGED <<frames, pos, frame, attachedAt, lost, belled>>
    BY <1>3, <1>10 DEF Notify, InHand, gridVars, histVars
  <2>2. pos >= 1 /\ frame = frames[pos] /\ frame \notin lost
    BY <2>1 DEF BellInv, HandExact
  <2>3. /\ notified >= attachedAt
        /\ \/ notified = attachedAt
           \/ \E k \in 1 .. (pos - 1) : notified = frames[k]
    BY <2>1 DEF BellInv, Boundary
  <2>9. pos \in 1 .. Len(frames) /\ 1 .. (pos - 1) \subseteq 1 .. Len(frames)
    BY <2>2, BellFacts
  <2>4. frame > notified <=> frame > attachedAt
    <3>1. CASE notified = attachedAt
      BY <3>1
    <3>2. CASE \E k \in 1 .. (pos - 1) : notified = frames[k]
      <4>1. PICK k \in 1 .. (pos - 1) : notified = frames[k]
        BY <3>2
      <4>2. k \in 1 .. Len(frames) /\ k < pos
        BY <2>9, <4>1, BellFacts
      <4>3. frames[k] < frames[pos]
        BY <2>9, <4>2, BellFacts
      <4>4. notified < frame /\ notified \in Nat /\ attachedAt \in Nat /\ frame \in Nat
        BY <2>2, <4>1, <4>3, BellFacts
      <4> QED
        BY <2>3, <4>4
    <3> QED
      BY <2>3, <3>1, <3>2
  <2>5. CASE frame > notified
    <3>1. todo' = <<Bell(frame)>> /\ fpc' = "send" /\ notified' = frame
      BY <1>10, <2>5 DEF Notify
    <3>2. HasBell' /\ InHand'
      BY <3>1 DEF HasBell, InHand, Bell
    <3>3. Rung'
      <4>1. BellSet(pos - 1)' = BellSet(pos - 1)
        BY <2>1 DEF BellSet
      <4> QED
        BY <2>1, <3>2, <4>1 DEF BellInv, Rung
    <3>4. HandExact'
      BY <2>1, <2>2, <3>2 DEF HandExact
    <3>5. Boundary'
      <4>1. frame >= attachedAt /\ pos \in 1 .. pos
        BY <2>2, <2>4, <2>5, BellFacts
      <4> QED
        BY <2>1, <2>2, <3>1, <4>1 DEF Boundary
    <3>6. Ringing'
      BY <2>1, <2>4, <2>5, <3>1 DEF Ringing, Bell
    <3> QED
      BY <2>1, <3>1, <3>3, <3>4, <3>5, <3>6 DEF BellInv, FramesUp, BelledUp, LostPassed, NoBellYet
  <2>6. CASE ~ (frame > notified)
    <3>1. fpc' = "diff" /\ UNCHANGED <<todo, notified>>
      BY <1>10, <2>6 DEF Notify
    <3>2. ~ HasBell' /\ ~ InHand'
      BY <2>1, <3>1 DEF HasBell, InHand
    <3>3. BellSet(pos)' = BellSet(pos - 1)
      <4> DEFINE A == {j \in 1 .. (pos - 1) : frames[j] > attachedAt /\ frames[j] \notin lost}
                 B == {j \in 1 .. pos : frames[j] > attachedAt /\ frames[j] \notin lost}
      <4>1. \A j \in 1 .. pos : j = pos \/ j \in 1 .. (pos - 1)
        BY <2>2, BellFacts
      <4>2. 1 .. (pos - 1) \subseteq 1 .. pos
        BY <2>2, BellFacts
      <4>3. ~ (frames[pos] > attachedAt)
        BY <2>2, <2>4, <2>6
      <4>4. A = B
        BY <4>1, <4>2, <4>3
      <4>5. BellSet(pos)' = {frames[k] : k \in B} /\ BellSet(pos - 1) = {frames[k] : k \in A}
        BY <2>1 DEF BellSet
      <4> QED
        BY <4>4, <4>5
    <3>4. Rung'
      BY <2>1, <3>2, <3>3 DEF BellInv, Rung
    <3>5. Boundary'
      <4>1. 1 .. (pos - 1) \subseteq 1 .. pos
        BY <2>2, BellFacts
      <4> QED
        BY <2>1, <2>3, <3>1, <4>1 DEF Boundary
    <3> QED
      BY <2>1, <3>1, <3>2, <3>4, <3>5
         DEF BellInv, FramesUp, BelledUp, LostPassed, HandExact, Ringing, NoBellYet
  <2> QED
    BY <2>5, <2>6
<1>11. CASE Diff
  <2>1. /\ fpc = "diff" /\ fpc' \in {"poll", "send"}
        /\ \/ todo' = todo \/ todo' = <<Resync, Grid(Rev)>> \/ todo' = <<Damage(prev, Rev)>>
        /\ UNCHANGED <<frames, pos, frame, notified, attachedAt, lost, belled>>
    BY <1>11 DEF Diff, gridVars, histVars
  <2>2. ~ InHand /\ ~ InHand' /\ ~ HasBell'
    BY <1>3, <2>1 DEF InHand, HasBell, Resync, Grid, Damage
  <2> QED
    BY <2>1, <2>2, NothingRang
<1>12. CASE Send
  <2>1. /\ todo # << >> /\ todo' = Tail(todo) /\ fpc \in {"restore", "send"}
        /\ fpc' \in {"restore", "send", "diff", "done", "poll"}
        /\ UNCHANGED <<frames, pos, frame, notified, attachedAt, lost>>
    BY <1>1, <1>12 DEF Send, gridVars
  <2>2. /\ Len(todo) \in Nat /\ Len(todo) > 0 /\ Head(todo) = todo[1]
        /\ Len(Tail(todo)) = Len(todo) - 1
        /\ \A i \in 1 .. Len(Tail(todo)) : Tail(todo)[i] = todo[i + 1]
    BY <1>1, <2>1, TailTyped
  <2>3. CASE HasBell
    <3>1. fpc = "send" /\ todo = <<Bell(frame)>> /\ frame > attachedAt
      BY <2>3 DEF BellInv, Ringing
    <3>2. Head(todo).type = "bell" /\ Head(todo).rev = frame /\ Tail(todo) = << >>
      BY <3>1 DEF Bell
    <3>3. belled' = Append(belled, frame) /\ fpc' = "diff"
      BY <1>12, <3>2 DEF Send
    <3>4. InHand /\ pos >= 1 /\ frame = frames[pos] /\ frame \notin lost
      BY <2>3 DEF BellInv, HandExact, InHand
    <3>5. ~ HasBell' /\ ~ InHand'
      BY <2>1, <3>2, <3>3 DEF HasBell, InHand
    <3>6. /\ Len(belled) \in Nat /\ Len(belled') = Len(belled) + 1
          /\ \A i \in 1 .. Len(belled) : belled'[i] = belled[i]
          /\ belled'[Len(belled) + 1] = frame
      BY <1>1, <3>3
    <3>7. {belled[i] : i \in 1 .. Len(belled)} = BellSet(pos - 1)
      BY <3>4 DEF BellInv, Rung
    <3>8. \A k \in 1 .. (pos - 1) : frames[k] < frame
      <4> TAKE k \in 1 .. (pos - 1)
      <4>1. k \in 1 .. Len(frames) /\ pos \in 1 .. Len(frames) /\ k < pos
        BY <3>4, BellFacts
      <4> QED
        BY <3>4, <4>1, BellFacts
    <3>9. \A i \in 1 .. Len(belled) : belled[i] < frame
      BY <3>7, <3>8 DEF BellSet
    <3>10. BelledUp'
      <4>1. SUFFICES ASSUME NEW i \in 1 .. Len(belled) + 1, NEW j \in 1 .. Len(belled) + 1, i < j
                     PROVE  belled'[i] < belled'[j]
        BY <3>6 DEF BelledUp
      <4>2. i \in 1 .. Len(belled)
        BY <3>6, <4>1
      <4>3. CASE j = Len(belled) + 1
        BY <3>6, <3>9, <4>2, <4>3
      <4>4. CASE j # Len(belled) + 1
        <5>1. j \in 1 .. Len(belled)
          BY <3>6, <4>4
        <5> QED
          BY <3>6, <4>1, <4>2, <5>1 DEF BellInv, BelledUp
      <4> QED
        BY <4>3, <4>4
    <3>11. BellSet(pos)' = BellSet(pos - 1) \cup {frame}
      <4> DEFINE A == {j \in 1 .. (pos - 1) : frames[j] > attachedAt /\ frames[j] \notin lost}
                 B == {j \in 1 .. pos : frames[j] > attachedAt /\ frames[j] \notin lost}
      <4>1. \A j \in 1 .. pos : j = pos \/ j \in 1 .. (pos - 1)
        BY <3>4, BellFacts
      <4>2. 1 .. (pos - 1) \subseteq 1 .. pos /\ pos \in 1 .. pos
        BY <3>4, BellFacts
      <4>3. B = A \cup {pos}
        BY <3>1, <3>4, <4>1, <4>2
      <4>5. BellSet(pos)' = {frames[k] : k \in B} /\ BellSet(pos - 1) = {frames[k] : k \in A}
        BY <2>1 DEF BellSet
      <4> HIDE DEF A, B
      <4> QED
        BY <3>4, <4>3, <4>5
    <3>12. {belled'[i] : i \in 1 .. Len(belled')} = {belled[i] : i \in 1 .. Len(belled)} \cup {frame}
      <4>1. 1 .. Len(belled') = 1 .. Len(belled) \cup {Len(belled) + 1}
        BY <3>6
      <4> QED
        BY <3>6, <4>1
    <3>13. Rung'
      BY <3>5, <3>7, <3>11, <3>12 DEF Rung
    <3>14. Boundary'
      BY <2>1, <3>1, <3>3 DEF BellInv, Boundary
    <3> QED
      BY <2>1, <3>3, <3>5, <3>10, <3>13, <3>14
         DEF BellInv, FramesUp, LostPassed, HandExact, Ringing, NoBellYet
  <2>4. CASE ~ HasBell
    <3>1. Head(todo).type # "bell" /\ ~ InHand
      BY <2>1, <2>2, <2>4 DEF HasBell, InHand
    <3>2. belled' = belled
      BY <1>12, <3>1 DEF Send
    <3>3. ~ HasBell'
      <4>1. \A i \in 1 .. Len(todo) : todo[i].type # "bell"
        BY <2>4 DEF HasBell
      <4>2. \A i \in 1 .. Len(Tail(todo)) : i + 1 \in 1 .. Len(todo)
        BY <2>2
      <4>3. \A i \in 1 .. Len(Tail(todo)) : Tail(todo)[i].type # "bell"
        BY <2>2, <4>1, <4>2
      <4> QED
        BY <2>1, <4>3 DEF HasBell
    <3>4. ~ InHand'
      BY <2>1, <3>3 DEF InHand
    <3> QED
      BY <2>1, <3>1, <3>2, <3>4, NothingRang
  <2> QED
    BY <2>3, <2>4
<1> QED
  BY <1>4, <1>5, <1>6, <1>7, <1>8, <1>9, <1>10, <1>11, <1>12
     DEF Next, vars, Resize, Latch, PumpEnding, Announce, PumpEnds, Remove, AskSnapshot,
         RetryRecovery, Handler, Capture, Reply, Forwarder, Renderer, OnGrid, OnDamage,
         OnGarbledDamage, OnResyncRequired, OnSessionExited, OnBell, fwdVars, histVars, gridVars

\* Every broadcast frame since the attach rings once and in order, except those
\* that the ring dropped: a lag resync swallows no bell of a frame that is still
\* in the ring (notifications_through_revision).
THEOREM BellsRing == Spec => []BellsExact
<1>1. Init => BellInv
  BY DEF Init, BellInv, FramesUp, BelledUp, LostPassed, Rung, HandExact, Boundary, Ringing,
         NoBellYet, InHand, HasBell, BellSet
<1>2. TypeInv /\ BellInv => BellsExact
  <2> SUFFICES ASSUME TypeInv, BellInv, fpc \in {"idle", "poll", "pollExit"}
               PROVE  /\ \A i, j \in DOMAIN belled : i < j => belled[i] < belled[j]
                      /\ {belled[i] : i \in DOMAIN belled} = BellSet(pos)
    BY DEF BellsExact, BellSet
  <2>1. todo = << >> /\ belled \in Seq(1 .. Rev)
    BY DEF TypeInv, FwdTyped, HistTyped
  <2>2. DOMAIN belled = 1 .. Len(belled) /\ ~ InHand
    BY <2>1, LenProperties DEF InHand, HasBell
  <2> QED
    BY <2>2 DEF BellInv, BelledUp, Rung
<1> QED
  BY <1>1, <1>2, InitTyped, StepTyped, StepBell, PTL DEF Spec
=============================================================================
