-------------------------- MODULE StepWatch_proofs --------------------------
(***************************************************************************)
(* What the clients of WatchSteps see, for any number of steps, clients,   *)
(* calls, frames and channels of any size, whatever is interleaved:        *)
(*                                                                         *)
(*   TypeOK    the buffers hold and every offset is one of an append       *)
(*   InOrder   events come in journal order, none twice                    *)
(*   NoGap     none is left out before one that came                       *)
(*   CaughtUp  when all is quiet there is none the client has not seen     *)
(*                                                                         *)
(* None is inductive: what has been seen depends on what is still to come. *)
(* NoticeInv says which event a step has yet to announce, QueueInv that a  *)
(* channel is in order and behind what is still announced to it, OrderInv  *)
(* where a watch is between the last event its client saw and the next     *)
(* one, and CoverInv that each event of the journal is seen, about to be   *)
(* sent, in the channel, or about to be announced.                         *)
(***************************************************************************)
EXTENDS StepWatch, FiniteSetTheorems, WellFoundedInduction, TLAPS

NoticeInv ==
  /\ Len(journal) <= Len(log)
  /\ ~rewritten => journal = log
  /\ \A s \in Steps :
       /\ step[s].fan # "no" => /\ ~rewritten
                                /\ step[s].event \in DOMAIN log
                                /\ log[step[s].event].step = s /\ IsEvent(log[step[s].event])
       /\ step[s].fan # "send" => step[s].to = {}
  /\ \A w \in Watchers : ~client[w].old => rewritten

\* The events that steps have yet to offer to w.
Announcing(w) == {s \in Steps : step[s].fan = "load" \/ (step[s].fan = "send" /\ w \in step[s].to)}
Queued(w) == {notify[w][i] : i \in DOMAIN notify[w]}

QueueInv(w) ==
  /\ \A n \in Queued(w) : IsEvent(log[n])
  /\ "overtaken" \notin excuse[w] =>
       /\ \A i, j \in DOMAIN notify[w] : i < j => notify[w][i] < notify[w][j]
       /\ \A s \in Announcing(w), n \in Queued(w) : n < step[s].event

LastSeen(w) == LastOr(client[w].got, 0)
EventOf(frames, n) == n \in DOMAIN frames /\ IsEvent(frames[n])
Reading(w) == watch[w].pc \in {"meta", "stream"}

OrderInv(w) ==
  "straddled" \notin excuse[w] =>
    /\ \A i, j \in DOMAIN client[w].got : i < j => client[w].got[i] < client[w].got[j]
    /\ \A n \in Seen(w) : EventOf(Known(w), n)
    /\ watch[w].pc \in {"add", "join", "read"} => watch[w].from = LastSeen(w)
    /\ Reading(w) =>
         /\ LastSeen(w) <= watch[w].cursor
         /\ \A n \in watch[w].todo :
              /\ EventOf(Known(w), n) /\ LastSeen(w) < n
              /\ At(w, "stream") <=> n <= watch[w].cursor
         /\ ~client[w].old => notify[w] = <<>>

\* What the watch has read up to.
Top(w) == IF At(w, "meta") THEN MaxOr(watch[w].todo, watch[w].cursor) ELSE watch[w].cursor

Covered(w, n) ==
  IF n <= Top(w) THEN n \in Seen(w) \cup watch[w].todo
  ELSE n \in Queued(w) \/ \E s \in Announcing(w) : n = step[s].event

CoverInv(w) ==
  excuse[w] = {} =>
    /\ \A n \in 1..LastSeen(w) : IsEvent(Known(w)[n]) => n \in Seen(w)
    /\ Reading(w) => \A n \in DOMAIN Known(w) : IsEvent(Known(w)[n]) => Covered(w, n)

IInv ==
  /\ TypeOK /\ NoticeInv
  /\ \A w \in Watchers : QueueInv(w) /\ OrderInv(w) /\ CoverInv(w)

-----------------------------------------------------------------------------
\* Lemmas

Less == {mn \in Nat \X Nat : mn[1] < mn[2]}

LEMMA LessWellFounded == IsWellFoundedOn(Less, Nat)
BY NatLessThanWellFounded DEF OpToRel, Less

\* What Min returns of any naturals, and Max of those up to a bound.
LEMMA MinOfNaturals ==
  ASSUME NEW S \in SUBSET Nat, S # {}
  PROVE  Min(S) \in S /\ \A n \in S : Min(S) <= n
<1>1. PICK x \in S : \A y \in S : <<y, x>> \notin Less
  BY LessWellFounded, WFMin
<1>2. \A y \in S : x <= y
  <2> SUFFICES ASSUME NEW y \in S, y < x PROVE FALSE
    OBVIOUS
  <2>1. <<y, x>> \in Nat \X Nat /\ <<y, x>>[1] = y /\ <<y, x>>[2] = x
    OBVIOUS
  <2> QED
    BY <1>1, <2>1 DEF Less
<1> QED
  BY <1>2 DEF Min

LEMMA MaxOfNaturals ==
  ASSUME NEW top \in Nat, NEW S \in SUBSET (0..top), S # {}
  PROVE  Max(S) \in S /\ \A n \in S : n <= Max(S)
<1> DEFINE Bounds == {m \in Nat : \A n \in S : n <= m}
           m == Min(Bounds)
<1>1. m \in Nat /\ (\A n \in S : n <= m) /\ \A b \in Bounds : m <= b
  <2>1. top \in Bounds /\ Bounds \in SUBSET Nat
    OBVIOUS
  <2> QED
    BY <2>1, MinOfNaturals
<1>2. m \in S
  <2> SUFFICES ASSUME m \notin S PROVE FALSE
    OBVIOUS
  <2> HIDE DEF m
  <2>1. PICK n \in S : TRUE
    OBVIOUS
  <2>2. \A k \in S : k \in Nat /\ k <= m /\ k # m
    BY <1>1
  <2>3. m - 1 \in Nat /\ \A k \in S : k <= m - 1
    BY <1>1, <2>1, <2>2
  <2>4. m - 1 \in Bounds
    BY <2>3
  <2> QED
    BY <1>1, <2>4
<1> HIDE DEF m
<1> QED
  BY <1>1, <1>2 DEF Max

LEMMA MaxOrBounds ==
  ASSUME NEW top \in Nat, NEW S \in SUBSET (1..top), NEW d \in Nat
  PROVE  /\ MaxOr(S, d) \in Nat
         /\ S = {} => MaxOr(S, d) = d
         /\ S # {} => MaxOr(S, d) \in S
         /\ \A n \in S : n <= MaxOr(S, d)
<1>1. CASE S = {}
  BY <1>1 DEF MaxOr
<1>2. CASE S # {}
  <2>1. S \in SUBSET (0..top)
    OBVIOUS
  <2>2. Max(S) \in S /\ \A n \in S : n <= Max(S)
    BY <1>2, <2>1, MaxOfNaturals
  <2>3. MaxOr(S, d) = Max(S)
    BY <1>2 DEF MaxOr
  <2> DEFINE m == Max(S)
  <2> HIDE DEF m
  <2>4. m \in S /\ \A n \in S : n <= m
    BY <2>2 DEF m
  <2>5. m \in 1..top
    BY <2>4
  <2> QED
    BY <1>2, <2>3, <2>4, <2>5 DEF m
<1> QED
  BY <1>1, <1>2

LEMMA SeqOfMore ==
  ASSUME NEW S, NEW T, S \subseteq T, NEW s \in Seq(S)
  PROVE  s \in Seq(T)
OBVIOUS

\* An offset in front of an appended frame keeps it.
LEMMA AppendKeeps ==
  ASSUME NEW s \in Seq(Frame), NEW frame \in Frame
  PROVE  /\ Append(s, frame) \in Seq(Frame)
         /\ Len(Append(s, frame)) = Len(s) + 1 /\ Len(s) \in Nat
         /\ DOMAIN Append(s, frame) = DOMAIN s \cup {Len(s) + 1}
         /\ Append(s, frame)[Len(s) + 1] = frame
         /\ \A n \in DOMAIN s : Append(s, frame)[n] = s[n]
OBVIOUS

-----------------------------------------------------------------------------
\* Steps that only move a watch

WatchRec == [pc : WatchPc, set : Sets \cup {None}, from : 0..Len(log), cursor : 0..Len(log),
             todo : SUBSET (1..Len(log)), gen : 0..1, cancelled : BOOLEAN]
StepRec == [phase : Phase, fan : Fanning, event : 0..Len(log), to : SUBSET Watchers]
ClientRec == [got : Seq(1..Len(log)), gen : 0..1, old : BOOLEAN]

Moves(w) == /\ watch' \in [Watchers -> WatchRec]
            /\ \A x \in Watchers \ {w} : watch'[x] = watch[x]

\* w enters or leaves, or is cancelled; of the rest only the sets change.
Drifts(w) ==
  /\ Moves(w)
  /\ \/ watch'[w].pc \in {"load", "leave", "drop", "idle"}
     \/ /\ watch'[w].pc = watch[w].pc \/ {watch[w].pc, watch'[w].pc} \subseteq {"add", "join", "read"}
        /\ watch'[w].from = watch[w].from /\ watch'[w].cursor = watch[w].cursor
        /\ watch'[w].todo = watch[w].todo
  /\ watchers' \in Sets \cup {None} /\ chs' \in [Sets -> SUBSET Watchers]
  /\ UNCHANGED <<journal, rewritten, generation, log, calls, notify, step, client, excuse>>

LEMMA Fresh ==
  ASSUME TypeOK
  PROVE  NewWatch \in WatchRec /\ watch \in [Watchers -> WatchRec] /\ Len(log) \in Nat
BY DEF TypeOK, NewWatch, WatchRec, WatchPc

LEMMA StopDrifts == ASSUME TypeOK, NEW w \in Watchers, Stop(w) PROVE Drifts(w)
<1>1. watch' \in [Watchers -> WatchRec]
  BY Fresh DEF Stop, WatchRec, WatchPc
<1> QED
  BY <1>1, Fresh DEF TypeOK, Stop, Drifts, Moves, files, table, WatchRec

LEMMA CancelDrifts == ASSUME TypeOK, NEW w \in Watchers, Cancel(w) PROVE Drifts(w)
<1>1. watch' \in [Watchers -> WatchRec]
  BY Fresh DEF Cancel, WatchRec, WatchPc
<1> QED
  BY <1>1, Fresh DEF TypeOK, Cancel, Drifts, Moves, files, table, WatchRec

LEMMA ReadFailsDrifts == ASSUME TypeOK, NEW w \in Watchers, ReadFails(w) PROVE Drifts(w)
<1>1. watch' \in [Watchers -> WatchRec]
  BY Fresh DEF ReadFails, WatchRec, WatchPc
<1> QED
  BY <1>1, Fresh DEF TypeOK, ReadFails, Drifts, Moves, files, table, WatchRec

LEMMA LoadOwnSetDrifts == ASSUME TypeOK, NEW w \in Watchers, LoadOwnSet(w) PROVE Drifts(w)
<1>1. watch' \in [Watchers -> WatchRec]
  BY Fresh DEF TypeOK, LoadOwnSet, WatchRec, WatchPc
<1>2. watch'[w].pc \in {"leave", "idle"}
  BY Fresh DEF LoadOwnSet, NewWatch, WatchRec
<1> QED
  BY <1>1, <1>2, Fresh DEF TypeOK, LoadOwnSet, Drifts, Moves, files, table

LEMMA LeaveDrifts == ASSUME TypeOK, NEW w \in Watchers, Leave(w) PROVE Drifts(w)
<1>1. watch' \in [Watchers -> WatchRec]
  BY Fresh DEF TypeOK, Leave, WatchRec, WatchPc
<1>2. watch'[w].pc \in {"drop", "idle"}
  BY Fresh DEF Leave, NewWatch, WatchRec
<1>3. chs' \in [Sets -> SUBSET Watchers]
  BY DEF TypeOK, Leave
<1> QED
  BY <1>1, <1>2, <1>3, Fresh DEF TypeOK, Leave, Drifts, Moves, files

LEMMA DropSetDrifts == ASSUME TypeOK, NEW w \in Watchers, DropSet(w) PROVE Drifts(w)
<1>1. watch' \in [Watchers -> WatchRec] /\ watch'[w].pc = "idle"
  BY Fresh DEF DropSet, NewWatch
<1> QED
  BY <1>1, Fresh DEF TypeOK, DropSet, Drifts, Moves, files

LEMMA AddSetDrifts == ASSUME TypeOK, NEW w \in Watchers, AddSet(w) PROVE Drifts(w)
<1>1. PICK o \in Sets : /\ watch' = [watch EXCEPT ![w].pc = "join", ![w].set = o]
                        /\ watchers' = o /\ (chs' = chs \/ chs' = [chs EXCEPT ![o] = {}])
  <2>1. CASE watchers # None
    BY <2>1 DEF TypeOK, AddSet, table
  <2>2. CASE watchers = None
    BY <2>2 DEF AddSet
  <2> QED
    BY <2>1, <2>2
<1>2. watch' \in [Watchers -> WatchRec]
  BY <1>1, Fresh DEF WatchRec, WatchPc
<1>3. chs' \in [Sets -> SUBSET Watchers]
  BY <1>1 DEF TypeOK
<1>4. /\ watch'[w].pc = "join" /\ watch'[w].from = watch[w].from
      /\ watch'[w].cursor = watch[w].cursor /\ watch'[w].todo = watch[w].todo
  BY <1>1, Fresh DEF WatchRec
<1> QED
  BY <1>1, <1>2, <1>3, <1>4, Fresh DEF AddSet, At, Drifts, Moves, files

LEMMA JoinDrifts == ASSUME TypeOK, NEW w \in Watchers, Join(w) PROVE Drifts(w)
<1>1. watch' \in [Watchers -> WatchRec]
  BY Fresh DEF Join, WatchRec, WatchPc
<1>2. chs' \in [Sets -> SUBSET Watchers]
  BY DEF TypeOK, Join
<1>3. /\ watch'[w].pc = "read" /\ watch'[w].from = watch[w].from
      /\ watch'[w].cursor = watch[w].cursor /\ watch'[w].todo = watch[w].todo
  BY Fresh DEF Join, WatchRec
<1> QED
  BY <1>1, <1>2, <1>3, Fresh DEF TypeOK, Join, At, Drifts, Moves, files

-----------------------------------------------------------------------------
\* A watcher nothing happens to

\* What the invariants say of x depends on, unless it is not reading.
Undisturbed(x) ==
  /\ \/ watch'[x].pc \in {"load", "leave", "drop", "idle"}
     \/ /\ watch'[x].pc = watch[x].pc \/ {watch[x].pc, watch'[x].pc} \subseteq {"add", "join", "read"}
        /\ watch'[x].from = watch[x].from /\ watch'[x].cursor = watch[x].cursor
        /\ watch'[x].todo = watch[x].todo
  /\ notify'[x] = notify[x] /\ client'[x] = client[x]
  /\ excuse[x] \subseteq excuse'[x]
  /\ Known(x)' = Known(x) /\ log' = log
  /\ Announcing(x)' \subseteq Announcing(x)
  /\ excuse'[x] = {} /\ Reading(x) => Announcing(x)' = Announcing(x)
  /\ \A s \in Announcing(x)' : step'[s].event = step[s].event

LEMMA UndisturbedKeeps ==
  ASSUME NEW x \in Watchers, Undisturbed(x), QueueInv(x), OrderInv(x), CoverInv(x)
  PROVE  QueueInv(x)' /\ OrderInv(x)' /\ CoverInv(x)'
<1> USE DEF Undisturbed
<1>1. Queued(x)' = Queued(x) /\ Seen(x)' = Seen(x) /\ LastSeen(x)' = LastSeen(x)
  BY DEF Queued, Seen, LastSeen, LastOr
<1>2. QueueInv(x)'
  BY <1>1 DEF QueueInv
<1>3. OrderInv(x)'
  BY <1>1 DEF OrderInv, EventOf, Reading, At
<1>4. CoverInv(x)'
  <2>1. Reading(x)' => Reading(x) /\ Top(x)' = Top(x)
    BY DEF Reading, Top, At, MaxOr
  <2>2. ASSUME NEW n, Reading(x)', excuse'[x] = {}, Covered(x, n) PROVE Covered(x, n)'
    <3>1. watch'[x].todo = watch[x].todo /\ Announcing(x)' = Announcing(x)
      BY <2>1, <2>2 DEF Reading
    <3>2. Queued(x)' = Queued(x) /\ Seen(x)' = Seen(x) /\ Top(x)' = Top(x)
      BY <1>1, <2>1, <2>2
    <3> QED
      BY <2>2, <3>1, <3>2 DEF Covered
  <2> QED
    BY <1>1, <2>1, <2>2 DEF CoverInv, IsEvent
<1> QED
  BY <1>2, <1>3, <1>4

LEMMA DriftsKeep ==
  ASSUME IInv, NEW w \in Watchers, Drifts(w)
  PROVE  IInv'
<1> USE DEF Drifts, Moves
<1>1. TypeOK'
  BY DEF IInv, TypeOK, WatchRec
<1>2. NoticeInv'
  BY DEF IInv, NoticeInv
<1>3. ASSUME NEW x \in Watchers PROVE Undisturbed(x)
  BY DEF Undisturbed, Known, Announcing
<1> QED
  BY <1>1, <1>2, <1>3, UndisturbedKeeps DEF IInv

-----------------------------------------------------------------------------
\* Appending

LEMMA Bounds ==
  ASSUME TypeOK, NEW x \in Watchers
  PROVE  /\ Len(log) \in Nat /\ DOMAIN log = 1..Len(log)
         /\ Seen(x) \subseteq 1..Len(log) /\ Queued(x) \subseteq 1..Len(log)
         /\ LastSeen(x) \in 0..Len(log) /\ Top(x) \in 0..Len(log)
         /\ client[x].got # <<>> => LastSeen(x) \in Seen(x)
         /\ client[x].got = <<>> => LastSeen(x) = 0
<1>1. /\ Len(log) \in Nat /\ DOMAIN log = 1..Len(log) /\ client[x].got \in Seq(1..Len(log))
      /\ notify[x] \in Seq(1..Len(log)) /\ watch[x].cursor \in 0..Len(log)
      /\ watch[x].todo \in SUBSET (1..Len(log))
  BY DEF TypeOK
<1>2. Seen(x) \subseteq 1..Len(log) /\ Queued(x) \subseteq 1..Len(log)
  BY <1>1 DEF Seen, Queued
<1>3. client[x].got = <<>> => LastSeen(x) = 0
  BY DEF LastSeen, LastOr
<1>4. ASSUME client[x].got # <<>> PROVE LastSeen(x) \in Seen(x)
  BY <1>1, <1>4 DEF LastSeen, LastOr, Seen, Last
<1>5. Top(x) \in 0..Len(log)
  <2> DEFINE S == watch[x].todo
             d == watch[x].cursor
  <2>1. S \in SUBSET (1..Len(log)) /\ S \subseteq 1..Len(log) /\ d \in 0..Len(log) /\ d \in Nat
    BY <1>1
  <2>2. Top(x) = IF At(x, "meta") THEN MaxOr(S, d) ELSE d
    BY DEF Top
  <2> HIDE DEF S, d
  <2> DEFINE m == MaxOr(S, d)
  <2>3. m = d \/ m \in S
    BY <1>1, <2>1, MaxOrBounds
  <2>4. Top(x) = m \/ Top(x) = d
    BY <2>2
  <2> HIDE DEF m
  <2>5. Len(log) \in Nat
    BY <1>1
  <2>6. m \in 0..Len(log)
    <3>1. CASE m = d
      BY <2>1, <3>1
    <3>2. CASE m \in S
      <4>1. m \in 1..Len(log)
        BY <2>1, <3>2
      <4> QED
        BY <2>5, <4>1
    <3> QED
      BY <2>3, <3>1, <3>2
  <2> QED
    BY <2>1, <2>4, <2>6
<1> QED
  BY <1>1, <1>2, <1>3, <1>4, <1>5

\* A frame of s goes to the end of the journal, and s has it to announce if it is
\* an event.
Grows(s, frame) ==
  /\ frame \in Frame /\ ~rewritten
  /\ journal' = Append(journal, frame) /\ log' = Append(log, frame)
  /\ UNCHANGED <<rewritten, generation, calls, watchers, chs, notify, watch, client, excuse>>
  /\ step' \in [Steps -> StepRec']
  /\ \A t \in Steps : step'[t].to = step[t].to
  /\ \A t \in Steps \ {s} : step'[t] = step[t]
  /\ IF frame.kind = "signal" THEN step'[s].fan = step[s].fan /\ step'[s].event = step[s].event
     ELSE /\ step[s].fan = "no" /\ step'[s].fan = "load"
          /\ step'[s].event = Len(log) + 1 /\ frame.step = s

LEMMA AppendStepGrows ==
  ASSUME TypeOK, NoticeInv, NEW s \in Steps, AppendStep(s)
  PROVE  \E frame \in Frame : Grows(s, frame)
<1>1. PICK stage \in Stage(s) :
        /\ Write([kind |-> stage[1], step |-> s])
        /\ step' = [step EXCEPT ![s].phase = stage[2], ![s].fan = "load",
                                ![s].event = Len(journal) + 1]
  BY DEF AppendStep
<1>2. stage[1] \in Kind \ {"signal"} /\ stage[2] \in Phase
  BY DEF Stage, Kind, Phase
<1> DEFINE frame == [kind |-> stage[1], step |-> s]
<1>3. frame \in Frame /\ frame.kind # "signal" /\ frame.step = s
  BY <1>2 DEF Frame
<1>4. step \in [Steps -> StepRec] /\ Len(log) \in Nat /\ step[s].fan = "no" /\ journal = log /\ ~rewritten
  BY DEF TypeOK, StepRec, AppendStep, NoticeInv
<1>5. log' = Append(log, frame) /\ journal' = Append(journal, frame) /\ Len(log') = Len(log) + 1
  <2>1. log \in Seq(Frame)
    BY DEF TypeOK
  <2> QED
    BY <1>1, <1>3, <2>1, AppendKeeps DEF Write
<1>6. step' \in [Steps -> StepRec']
  BY <1>1, <1>2, <1>4, <1>5 DEF StepRec, Fanning
<1>7. /\ \A t \in Steps : step'[t].to = step[t].to
      /\ \A t \in Steps \ {s} : step'[t] = step[t]
      /\ step'[s].fan = "load" /\ step'[s].event = Len(log) + 1
  BY <1>1, <1>4 DEF StepRec
<1> QED
  BY <1>3, <1>4, <1>5, <1>6, <1>7 DEF Grows, AppendStep, table

LEMMA AppendSignalGrows ==
  ASSUME TypeOK, NoticeInv, NEW s \in Steps, AppendSignal(s)
  PROVE  \E frame \in Frame : Grows(s, frame)
<1> DEFINE frame == [kind |-> "signal", step |-> s]
<1>1. frame \in Frame /\ frame.kind = "signal"
  BY DEF Frame, Kind
<1>2. step \in [Steps -> StepRec] /\ Len(log) \in Nat /\ ~rewritten
  BY DEF TypeOK, StepRec, AppendSignal
<1>3. log' = Append(log, frame) /\ journal' = Append(journal, frame) /\ Len(log') = Len(log) + 1
  <2>1. log \in Seq(Frame)
    BY DEF TypeOK
  <2> QED
    BY <1>1, <2>1, AppendKeeps DEF Write, AppendSignal
<1>4. step' \in [Steps -> StepRec']
  <2>1. 0..Len(log) \subseteq 0..Len(log')
    BY <1>2, <1>3
  <2> QED
    BY <1>2, <2>1 DEF StepRec, AppendSignal, Phase
<1>5. /\ \A t \in Steps : step'[t].to = step[t].to
      /\ \A t \in Steps \ {s} : step'[t] = step[t]
      /\ step'[s].fan = step[s].fan /\ step'[s].event = step[s].event
  BY <1>2 DEF StepRec, AppendSignal
<1> QED
  BY <1>1, <1>2, <1>3, <1>4, <1>5 DEF Grows, AppendSignal, table

LEMMA GrowsTypes ==
  ASSUME TypeOK, NEW s \in Steps, NEW frame \in Frame, Grows(s, frame), Len(log) < MaxFrames
  PROVE  TypeOK'
<1> USE DEF Grows
<1>1. /\ journal \in Seq(Frame) /\ log \in Seq(Frame) /\ Len(log) \in Nat
      /\ watch \in [Watchers -> WatchRec] /\ client \in [Watchers -> ClientRec]
      /\ notify \in [Watchers -> Seq(1..Len(log))]
  BY DEF TypeOK, WatchRec, ClientRec
<1>2. journal' \in Seq(Frame) /\ log' \in Seq(Frame) /\ Len(log') = Len(log) + 1
  BY <1>1, AppendKeeps
<1>3. 0..Len(log) \subseteq 0..Len(log') /\ 1..Len(log) \subseteq 1..Len(log')
  BY <1>1, <1>2
<1>4. watch' \in [Watchers -> WatchRec']
  BY <1>1, <1>3 DEF WatchRec
<1>5. notify' \in [Watchers -> Seq(1..Len(log'))]
  BY <1>1, <1>3, SeqOfMore
<1>6. client' \in [Watchers -> ClientRec']
  <2>1. \A w \in Watchers : client[w].got \in Seq(1..Len(log'))
    BY <1>1, <1>3, SeqOfMore DEF ClientRec
  <2> QED
    BY <1>1, <2>1 DEF ClientRec
<1> QED
  BY <1>2, <1>4, <1>5, <1>6 DEF TypeOK, StepRec, WatchRec, ClientRec

LEMMA GrowsKeeps ==
  ASSUME IInv, NEW s \in Steps, NEW frame \in Frame, Grows(s, frame), Len(log) < MaxFrames
  PROVE  IInv'
<1> USE DEF Grows
<1>1. TypeOK'
  BY GrowsTypes DEF IInv
<1>2. /\ log' \in Seq(Frame) /\ Len(log) \in Nat /\ Len(log') = Len(log) + 1
      /\ DOMAIN log = 1..Len(log) /\ DOMAIN log' = 1..(Len(log) + 1)
      /\ log'[Len(log) + 1] = frame /\ (\A n \in DOMAIN log : log'[n] = log[n])
      /\ journal = log /\ journal' = log'
  BY AppendKeeps DEF IInv, TypeOK, NoticeInv
<1>3. NoticeInv'
  BY <1>2 DEF IInv, NoticeInv, IsEvent
<1>4. ASSUME NEW x \in Watchers PROVE QueueInv(x)' /\ OrderInv(x)' /\ CoverInv(x)'
  <2>1. /\ Queued(x)' = Queued(x) /\ Seen(x)' = Seen(x) /\ LastSeen(x)' = LastSeen(x)
        /\ Top(x)' = Top(x) /\ (Reading(x)' <=> Reading(x)) /\ (At(x, "stream")' <=> At(x, "stream"))
    BY DEF Queued, Seen, LastSeen, Top, Reading, At
  <2>2. client[x].old /\ Known(x) = log /\ Known(x)' = log'
    BY <1>2 DEF IInv, NoticeInv, Known
  <2>3. /\ Announcing(x)' = IF frame.kind = "signal" THEN Announcing(x) ELSE Announcing(x) \cup {s}
        /\ \A t \in Announcing(x) : step'[t].event = step[t].event
    BY DEF Announcing
  <2>4. \A n : EventOf(log, n) => EventOf(log', n)
    BY <1>2 DEF EventOf
  <2>5. /\ Seen(x) \subseteq 1..Len(log) /\ Queued(x) \subseteq 1..Len(log)
        /\ LastSeen(x) \in 0..Len(log) /\ Top(x) \in 0..Len(log)
    BY Bounds DEF IInv
  <2>6. QueueInv(x)'
    <3>1. QueueInv(x)
      BY DEF IInv
    <3>2. \A n \in Queued(x) : log'[n] = log[n]
      BY <1>2, <2>5
    <3>3. ASSUME NEW t \in Announcing(x)', NEW n \in Queued(x), "overtaken" \notin excuse[x]
          PROVE  n < step'[t].event
      <4>1. CASE t \in Announcing(x)
        BY <2>3, <3>1, <3>3, <4>1 DEF QueueInv
      <4>2. CASE t = s /\ frame.kind # "signal"
        BY <1>2, <2>5, <3>3, <4>2
      <4> QED
        BY <2>3, <4>1, <4>2
    <3> QED
      BY <2>1, <3>1, <3>2, <3>3 DEF QueueInv
  <2>7. OrderInv(x)'
    BY <2>1, <2>2, <2>4 DEF IInv, OrderInv
  <2>8. CoverInv(x)'
    <3> SUFFICES ASSUME excuse[x] = {} PROVE CoverInv(x)'
      BY DEF CoverInv
    <3>1. \A n \in 1..LastSeen(x) : IsEvent(Known(x)'[n]) => n \in Seen(x)
      BY <1>2, <2>2, <2>5 DEF IInv, CoverInv
    <3>2. ASSUME Reading(x), NEW n \in DOMAIN log', IsEvent(log'[n]) PROVE Covered(x, n)'
      <4>1. CASE n \in DOMAIN log
        <5>1. Covered(x, n)
          BY <1>2, <2>2, <3>2, <4>1 DEF IInv, CoverInv
        <5> QED
          BY <2>1, <2>3, <5>1 DEF Covered
      <4>2. CASE n = Len(log) + 1
        <5>1. ~(n <= Top(x)) /\ s \in Announcing(x)' /\ n = step'[s].event
          BY <1>2, <2>3, <2>5, <3>2, <4>2 DEF IsEvent
        <5> QED
          BY <2>1, <5>1 DEF Covered
      <4> QED
        BY <1>2, <4>1, <4>2
    <3> QED
      BY <2>1, <2>2, <3>1, <3>2 DEF CoverInv
  <2> QED
    BY <2>6, <2>7, <2>8
<1> QED
  BY <1>1, <1>3, <1>4 DEF IInv

-----------------------------------------------------------------------------
\* Announcing

\* Of the step goroutines only s changes, and only what it has to announce.
LEMMA AnnouncersType ==
  ASSUME TypeOK
  PROVE  /\ step \in [Steps -> StepRec] /\ Len(log) \in Nat
         /\ \A s \in Steps : Quiet(s) \in [Steps -> StepRec]
         /\ \A s \in Steps : Quiet(s)[s].fan = "no" /\ Quiet(s)[s].to = step[s].to
         /\ \A s \in Steps : \A t \in Steps \ {s} : Quiet(s)[t] = step[t]
<1>1. step \in [Steps -> StepRec] /\ Len(log) \in Nat
  BY DEF TypeOK, StepRec
<1>2. ASSUME NEW s \in Steps
      PROVE  /\ Quiet(s) \in [Steps -> StepRec]
             /\ Quiet(s)[s].fan = "no" /\ Quiet(s)[s].to = step[s].to
             /\ \A t \in Steps \ {s} : Quiet(s)[t] = step[t]
  <2>1. Quiet(s) \in [Steps -> StepRec]
    <3>1. 0 \in 0..Len(log)
      BY <1>1
    <3> QED
      BY <1>1, <3>1 DEF Quiet, StepRec, Fanning
  <2>2. Quiet(s)[s].fan = "no" /\ Quiet(s)[s].to = step[s].to
    BY <1>1 DEF Quiet, StepRec
  <2>3. \A t \in Steps \ {s} : Quiet(s)[t] = step[t]
    BY <1>1 DEF Quiet
  <2> QED
    BY <2>1, <2>2, <2>3
<1> QED
  BY <1>1, <1>2

LEMMA CopyKeeps ==
  ASSUME IInv, NEW s \in Steps, CopyChannels(s)
  PROVE  IInv'
<1> DEFINE to == IF watchers = None THEN {} ELSE chs[watchers]
<1>1. /\ step[s].fan = "load" /\ step[s].to = {} /\ TypeOK /\ NoticeInv
      /\ UNCHANGED <<journal, rewritten, generation, log, calls, watchers, chs, notify, watch, client>>
  BY DEF IInv, NoticeInv, CopyChannels, files, table
<1>2. to \subseteq Watchers /\ \A x \in Watchers : x \in to <=> Linked(x)
  BY <1>1 DEF TypeOK, Linked
<1>3. /\ step' \in [Steps -> StepRec]
      /\ \A t \in Steps \ {s} : step'[t] = step[t]
      /\ step'[s].to = to
      /\ IF to = {} THEN step'[s].fan = "no"
         ELSE step'[s].fan = "send" /\ step'[s].event = step[s].event
  <2>1. step' = IF to = {} THEN Quiet(s) ELSE [step EXCEPT ![s].fan = "send", ![s].to = to]
    BY DEF CopyChannels
  <2>2. CASE to = {}
    BY <1>1, <2>1, <2>2, AnnouncersType
  <2>3. CASE to # {}
    <3> HIDE DEF to
    <3> QED
      BY <1>1, <1>2, <2>1, <2>3, AnnouncersType DEF StepRec, Fanning
  <2> QED
    BY <2>2, <2>3
<1> HIDE DEF to
<1>4. /\ excuse' \in [Watchers -> SUBSET {"dropped", "overtaken", "straddled", "unlinked"}]
      /\ \A x \in Watchers : excuse[x] \subseteq excuse'[x]
      /\ \A x \in Watchers : excuse'[x] = {} /\ Reading(x) => Linked(x)
  BY <1>1 DEF TypeOK, CopyChannels, Reading
<1>5. TypeOK'
  BY <1>1, <1>3, <1>4 DEF TypeOK, StepRec
<1>6. NoticeInv'
  BY <1>1, <1>3 DEF NoticeInv
<1>7. ASSUME NEW x \in Watchers PROVE Undisturbed(x)
  <2>1. /\ Announcing(x)' = IF x \in to THEN Announcing(x) ELSE Announcing(x) \ {s}
        /\ \A t \in Announcing(x)' : step'[t].event = step[t].event
    BY <1>1, <1>3 DEF Announcing
  <2>2. Announcing(x)' \subseteq Announcing(x)
    BY <2>1
  <2>3. excuse'[x] = {} /\ Reading(x) => Announcing(x)' = Announcing(x)
    <3>1. x \in to => Announcing(x)' = Announcing(x)
      BY <2>1
    <3> QED
      BY <1>2, <1>4, <3>1
  <2>4. /\ watch'[x] = watch[x] /\ notify'[x] = notify[x] /\ client'[x] = client[x]
        /\ excuse[x] \subseteq excuse'[x] /\ log' = log /\ Known(x)' = Known(x)
    BY <1>1, <1>4 DEF Known
  <2> QED
    BY <2>1, <2>2, <2>3, <2>4 DEF Undisturbed
<1> QED
  BY <1>5, <1>6, <1>7, UndisturbedKeeps DEF IInv

LEMMA OfferEffect ==
  ASSUME TypeOK, NEW s \in Steps, NEW w \in Watchers, Offer(s, w)
  PROVE  /\ step' \in [Steps -> StepRec] /\ step[s].fan = "send" /\ w \in step[s].to
         /\ \A t \in Steps \ {s} : step'[t] = step[t]
         /\ step'[s].to = step[s].to \ {w}
         /\ IF step[s].to = {w} THEN step'[s].fan = "no"
            ELSE step'[s].fan = "send" /\ step'[s].event = step[s].event
         /\ UNCHANGED <<journal, rewritten, generation, log, calls, watchers, chs, watch, client>>
<1> DEFINE base == IF step[s].to = {w} THEN Quiet(s) ELSE step
<1>1. /\ base \in [Steps -> StepRec] /\ \A t \in Steps \ {s} : base[t] = step[t]
      /\ base[s].to = step[s].to
      /\ IF step[s].to = {w} THEN base[s].fan = "no" ELSE base = step
  BY AnnouncersType
<1>2. step' = [base EXCEPT ![s].to = @ \ {w}]
  BY DEF Offer
<1> HIDE DEF base
<1>3. step' \in [Steps -> StepRec]
  BY <1>1, <1>2 DEF StepRec
<1>4. step'[s].to = step[s].to \ {w} /\ step'[s].fan = base[s].fan /\ step'[s].event = base[s].event
  BY <1>1, <1>2 DEF StepRec
<1>5. \A t \in Steps \ {s} : step'[t] = step[t]
  BY <1>1, <1>2
<1> QED
  BY <1>1, <1>3, <1>4, <1>5 DEF Offer, files, table

LEMMA OfferTypes ==
  ASSUME TypeOK, NoticeInv, NEW s \in Steps, NEW w \in Watchers, Offer(s, w)
  PROVE  TypeOK' /\ \A x \in Watchers \ {w} : notify'[x] = notify[x] /\ excuse'[x] = excuse[x]
<1>1. step[s].event \in 1..Len(log) /\ notify \in [Watchers -> Seq(1..Len(log))]
  BY OfferEffect DEF TypeOK, NoticeInv
<1>2. /\ notify' \in [Watchers -> Seq(1..Len(log))]
      /\ \A x \in Watchers : Len(notify'[x]) <= Buffer
      /\ \A x \in Watchers \ {w} : notify'[x] = notify[x]
  <2>1. CASE Len(notify[w]) < Buffer
    <3>1. notify' = [notify EXCEPT ![w] = Append(notify[w], step[s].event)]
      BY <2>1 DEF Offer
    <3>2. /\ Append(notify[w], step[s].event) \in Seq(1..Len(log))
          /\ Len(Append(notify[w], step[s].event)) = Len(notify[w]) + 1 /\ Len(notify[w]) \in Nat
      BY <1>1
    <3> QED
      BY <1>1, <2>1, <3>1, <3>2, WatchBounds DEF TypeOK
  <2>2. CASE ~(Len(notify[w]) < Buffer)
    BY <1>1, <2>2 DEF Offer, TypeOK
  <2> QED
    BY <2>1, <2>2
<1>3. /\ excuse' \in [Watchers -> SUBSET {"dropped", "overtaken", "straddled", "unlinked"}]
      /\ \A x \in Watchers \ {w} : excuse'[x] = excuse[x]
  BY DEF Offer, TypeOK
<1> QED
  BY <1>2, <1>3, OfferEffect DEF TypeOK, StepRec

\* What happens to the channel and its order when s offers its event to w.
LEMMA OfferQueues ==
  ASSUME IInv, NEW s \in Steps, NEW w \in Watchers, Offer(s, w)
  PROVE  /\ QueueInv(w)'
         /\ Announcing(w)' = Announcing(w) \ {s} /\ s \in Announcing(w)
         /\ \A t \in Announcing(w) \ {s} : step'[t] = step[t]
         /\ excuse[w] \subseteq excuse'[w]
         /\ excuse'[w] = {} => Queued(w)' = Queued(w) \cup {step[s].event}
<1> DEFINE n == step[s].event
<1>1. /\ TypeOK /\ NoticeInv /\ QueueInv(w) /\ step[s].fan = "send" /\ w \in step[s].to
      /\ n \in 1..Len(log) /\ log[n].step = s /\ IsEvent(log[n]) /\ log' = log
  BY OfferEffect DEF IInv, NoticeInv, TypeOK
<1>2. Announcing(w)' = Announcing(w) \ {s} /\ s \in Announcing(w)
  BY <1>1, OfferEffect DEF Announcing
<1>3. \A t \in Announcing(w) \ {s} : t \in Steps /\ step'[t] = step[t]
  BY <1>1, OfferEffect DEF Announcing
<1>4. /\ notify \in [Watchers -> Seq(1..Len(log))] /\ excuse \in [Watchers -> SUBSET {"dropped", "overtaken", "straddled", "unlinked"}]
      /\ Queued(w) \subseteq 1..Len(log)
  BY <1>1, Bounds DEF TypeOK
<1>5. excuse'[w] = excuse[w] \cup (IF Len(notify[w]) < Buffer THEN {} ELSE {"dropped"})
                             \cup (IF Overtaking(s, w) THEN {"overtaken"} ELSE {})
  BY <1>4 DEF Offer
<1>6. ASSUME ~Overtaking(s, w), NEW t \in Announcing(w) \ {s} PROVE n < step[t].event
  <2>1. /\ t \in Steps /\ step[t].fan # "no" /\ step[t].event \in 1..Len(log)
        /\ log[step[t].event].step = t /\ (step[t].fan = "send" => w \in step[t].to)
    BY <1>1, <1>6 DEF Announcing, NoticeInv, TypeOK
  <2>2. ~(step[t].event < n) /\ step[t].event # n
    BY <1>1, <1>6, <2>1 DEF Overtaking
  <2> QED
    BY <1>1, <2>1, <2>2
<1> HIDE DEF n
<1>7. CASE Len(notify[w]) < Buffer
  <2>1. notify'[w] = Append(notify[w], n)
    BY <1>4, <1>7 DEF Offer, n
  <2>2. /\ Len(notify[w]) \in Nat /\ DOMAIN notify[w] = 1..Len(notify[w])
        /\ DOMAIN notify'[w] = 1..(Len(notify[w]) + 1) /\ notify'[w][Len(notify[w]) + 1] = n
        /\ \A i \in DOMAIN notify[w] : notify'[w][i] = notify[w][i]
    BY <1>1, <1>4, <2>1
  <2>3. Queued(w)' = Queued(w) \cup {n}
    BY <2>2 DEF Queued
  <2>4. ASSUME "overtaken" \notin excuse'[w]
        PROVE  /\ \A i, j \in DOMAIN notify'[w] : i < j => notify'[w][i] < notify'[w][j]
               /\ \A t \in Announcing(w)', k \in Queued(w)' : k < step'[t].event
    <3>1. ~Overtaking(s, w) /\ "overtaken" \notin excuse[w]
      BY <1>5, <2>4
    <3>2. \A k \in Queued(w) : k < n
      BY <1>1, <1>2, <3>1 DEF QueueInv, n
    <3>3. \A i, j \in DOMAIN notify'[w] : i < j => notify'[w][i] < notify'[w][j]
      BY <1>1, <2>2, <3>1, <3>2 DEF QueueInv, Queued
    <3>4. \A t \in Announcing(w)', k \in Queued(w)' : k < step'[t].event
      BY <1>1, <1>2, <1>3, <1>6, <2>3, <3>1 DEF QueueInv
    <3> QED
      BY <3>3, <3>4
  <2>5. QueueInv(w)'
    BY <1>1, <2>3, <2>4 DEF QueueInv
  <2> QED
    BY <1>2, <1>3, <1>5, <2>3, <2>5 DEF n
<1>8. CASE ~(Len(notify[w]) < Buffer)
  <2>1. notify'[w] = notify[w] /\ Queued(w)' = Queued(w)
    BY <1>8 DEF Offer, Queued
  <2>2. QueueInv(w)'
    BY <1>1, <1>2, <1>3, <1>5, <2>1 DEF QueueInv
  <2> QED
    BY <1>2, <1>3, <1>5, <1>8, <2>2
<1> QED
  BY <1>7, <1>8

LEMMA OfferKeeps ==
  ASSUME IInv, NEW s \in Steps, NEW w \in Watchers, Offer(s, w)
  PROVE  IInv'
<1>1. /\ TypeOK /\ NoticeInv /\ step[s].fan = "send"
      /\ UNCHANGED <<journal, rewritten, generation, log, calls, watchers, chs, watch, client>>
  BY OfferEffect DEF IInv
<1>2. TypeOK'
  BY OfferTypes DEF IInv
<1>3. NoticeInv'
  BY <1>1, OfferEffect DEF NoticeInv
<1>4. ASSUME NEW x \in Watchers \ {w} PROVE Undisturbed(x)
  <2>1. notify'[x] = notify[x] /\ excuse'[x] = excuse[x] /\ Known(x)' = Known(x)
    BY <1>1, OfferTypes DEF Known
  <2>2. Announcing(x)' = Announcing(x) /\ \A t \in Announcing(x)' : step'[t].event = step[t].event
    BY <1>1, OfferEffect DEF Announcing
  <2> QED
    BY <1>1, <2>1, <2>2 DEF Undisturbed
<1>5. /\ Seen(w)' = Seen(w) /\ LastSeen(w)' = LastSeen(w) /\ Known(w)' = Known(w)
      /\ Top(w)' = Top(w) /\ (Reading(w)' <=> Reading(w)) /\ (At(w, "stream")' <=> At(w, "stream"))
  BY <1>1 DEF Seen, LastSeen, Known, Top, Reading, At
<1>6. OrderInv(w)'
  <2>1. client[w].old
    BY <1>1 DEF NoticeInv
  <2>2. OrderInv(w) /\ excuse[w] \subseteq excuse'[w]
    BY OfferQueues DEF IInv
  <2> QED
    BY <1>1, <1>5, <2>1, <2>2 DEF OrderInv
<1>7. CoverInv(w)'
  <2> SUFFICES ASSUME excuse'[w] = {} PROVE CoverInv(w)'
    BY DEF CoverInv
  <2>1. /\ CoverInv(w) /\ excuse[w] = {} /\ Queued(w)' = Queued(w) \cup {step[s].event}
        /\ Announcing(w)' = Announcing(w) \ {s} /\ \A t \in Announcing(w) \ {s} : step'[t] = step[t]
    BY OfferQueues DEF IInv
  <2>2. ASSUME NEW n, Covered(w, n) PROVE Covered(w, n)'
    BY <1>1, <1>5, <2>1, <2>2 DEF Covered
  <2> QED
    BY <1>5, <2>1, <2>2 DEF CoverInv
<1> QED
  BY <1>2, <1>3, <1>4, <1>6, <1>7, UndisturbedKeeps, OfferQueues DEF IInv

-----------------------------------------------------------------------------
\* Compaction

LEMMA CompactKeeps == ASSUME IInv, Compact PROVE IInv'
<1> DEFINE kept == Signals \cup UNION {Latest(s) : s \in Steps}
<1>1. PICK order \in SetToSeqs(kept) : journal' = [i \in DOMAIN order |-> journal[order[i]]]
  BY DEF Compact
<1>2. /\ TypeOK /\ NoticeInv /\ ~rewritten /\ rewritten' = TRUE /\ \A s \in Steps : step[s].fan = "no"
      /\ UNCHANGED <<generation, log, calls, watchers, chs, notify, step, watch, client, excuse>>
  BY DEF IInv, Compact, table
<1>3. journal \in Seq(Frame) /\ Len(journal) \in Nat /\ DOMAIN journal = 1..Len(journal)
  BY <1>2 DEF TypeOK
<1>4. kept \subseteq 1..Len(journal)
  BY <1>3 DEF Signals, Latest
<1> HIDE DEF kept
<1>5. Cardinality(kept) \in Nat /\ Cardinality(kept) <= Len(journal)
  <2>1. IsFiniteSet(1..Len(journal)) /\ Cardinality(1..Len(journal)) = Len(journal)
    BY <1>3, FS_Interval
  <2>2. kept \in SUBSET (1..Len(journal))
    BY <1>4
  <2>3. IsFiniteSet(kept) /\ Cardinality(kept) <= Len(journal)
    BY <2>1, <2>2, FS_Subset
  <2> QED
    BY <2>3, FS_CardinalityType
<1>6. order \in [1..Cardinality(kept) -> kept]
  BY DEF SetToSeqs
<1>7. journal' \in Seq(Frame) /\ Len(journal') = Cardinality(kept)
  <2>1. \A i \in 1..Cardinality(kept) : order[i] \in 1..Len(journal) /\ journal[order[i]] \in Frame
    <3> SUFFICES ASSUME NEW i \in 1..Cardinality(kept)
                 PROVE  order[i] \in 1..Len(journal) /\ journal[order[i]] \in Frame
      OBVIOUS
    <3>1. order[i] \in kept
      BY <1>6
    <3>2. order[i] \in 1..Len(journal)
      BY <1>4, <3>1
    <3> QED
      BY <1>3, <3>2
  <2>2. DOMAIN order = 1..Cardinality(kept)
    BY <1>6
  <2>3. journal' \in [1..Cardinality(kept) -> Frame]
    BY <1>1, <2>1, <2>2
  <2> QED
    BY <1>5, <2>3
<1>8. TypeOK'
  BY <1>2, <1>7 DEF TypeOK
<1>9. NoticeInv'
  BY <1>2, <1>3, <1>5, <1>7 DEF NoticeInv, TypeOK
<1>10. ASSUME NEW x \in Watchers PROVE Undisturbed(x)
  <2>1. Known(x)' = Known(x)
    BY <1>2 DEF NoticeInv, Known
  <2> QED
    BY <1>2, <2>1 DEF Undisturbed, Announcing
<1> QED
  BY <1>8, <1>9, <1>10, UndisturbedKeeps DEF IInv

LEMMA RaiseKeeps == ASSUME IInv, RaiseGeneration PROVE IInv'
<1>1. TypeOK'
  BY DEF IInv, TypeOK, RaiseGeneration, table
<1>2. NoticeInv'
  BY DEF IInv, NoticeInv, RaiseGeneration
<1>3. ASSUME NEW x \in Watchers PROVE Undisturbed(x)
  BY DEF Undisturbed, Announcing, Known, RaiseGeneration
<1> QED
  BY <1>1, <1>2, <1>3, UndisturbedKeeps DEF IInv

-----------------------------------------------------------------------------
\* A watch

LEMMA WatchEffect ==
  ASSUME TypeOK, NEW w \in Watchers, Watch(w)
  PROVE  /\ TypeOK' /\ Moves(w) /\ watch'[w].pc = "add" /\ notify'[w] = <<>>
         /\ \A x \in Watchers \ {w} :
              notify'[x] = notify[x] /\ client'[x] = client[x] /\ excuse'[x] = excuse[x]
         /\ \/ /\ client'[w] = client[w] /\ excuse'[w] = excuse[w]
               /\ watch'[w].from = LastSeen(w)
            \/ client'[w].got = <<>> /\ client'[w].old /\ watch'[w].from = 0
         /\ \A s \in Steps :
              /\ step'[s].to = step[s].to \ {w}
              /\ step[s].to = {w} => step'[s].fan = "no"
              /\ step[s].to # {w} => step'[s].fan = step[s].fan /\ step'[s].event = step[s].event
         /\ UNCHANGED <<journal, rewritten, generation, log>>
<1>1. /\ Len(log) \in Nat /\ watch \in [Watchers -> WatchRec] /\ client \in [Watchers -> ClientRec]
      /\ NewWatch \in WatchRec /\ notify \in [Watchers -> Seq(1..Len(log))]
      /\ excuse \in [Watchers -> SUBSET {"dropped", "overtaken", "straddled", "unlinked"}]
      /\ step \in [Steps -> StepRec] /\ chs \in [Sets -> SUBSET Watchers] /\ LastSeen(w) \in 0..Len(log)
  BY Fresh, Bounds DEF TypeOK, ClientRec, StepRec
<1>2. /\ step' \in [Steps -> StepRec]
      /\ \A s \in Steps :
           /\ step'[s].to = step[s].to \ {w}
           /\ step[s].to = {w} => step'[s].fan = "no"
           /\ step[s].to # {w} => step'[s].fan = step[s].fan /\ step'[s].event = step[s].event
  <2> DEFINE new(s) == [step[s] EXCEPT
               !.to = @ \ {w}, !.fan = IF step[s].to = {w} THEN "no" ELSE @,
               !.event = IF step[s].to = {w} THEN 0 ELSE @]
  <2>1. step' = [s \in Steps |-> new(s)]
    BY DEF Watch
  <2>2. ASSUME NEW s \in Steps
        PROVE  /\ new(s) \in StepRec /\ new(s).to = step[s].to \ {w}
               /\ step[s].to = {w} => new(s).fan = "no"
               /\ step[s].to # {w} => new(s).fan = step[s].fan /\ new(s).event = step[s].event
    <3>1. step[s] \in StepRec /\ 0 \in 0..Len(log)
      BY <1>1
    <3> QED
      BY <3>1 DEF StepRec, Fanning
  <2> HIDE DEF new
  <2> QED
    BY <2>1, <2>2
<1>3. notify' = [notify EXCEPT ![w] = <<>>] /\ chs' = [o \in Sets |-> chs[o] \ {w}] /\ calls' \in 0..MaxWatches
  <2>1. calls \in 0..MaxWatches /\ calls < MaxWatches /\ calls' = calls + 1
    BY DEF Watch, TypeOK
  <2>2. calls' \in 0..MaxWatches
    BY <2>1, WatchBounds
  <2> QED
    BY <2>2 DEF Watch
<1>4. /\ notify' \in [Watchers -> Seq(1..Len(log))] /\ notify'[w] = <<>>
      /\ \A x \in Watchers \ {w} : notify'[x] = notify[x]
      /\ chs' \in [Sets -> SUBSET Watchers]
  BY <1>1, <1>3
<1>5. UNCHANGED <<journal, rewritten, generation, log, watchers>>
  BY DEF Watch
<1>6. \A x \in Watchers : Len(notify'[x]) <= Buffer
  <2>1. Len(<<>>) = 0 /\ 0 <= Buffer
    BY WatchBounds
  <2>2. \A x \in Watchers \ {w} : Len(notify'[x]) <= Buffer
    BY <1>4 DEF TypeOK
  <2> QED
    BY <1>4, <2>1, <2>2
<1>7. /\ Moves(w) /\ watch'[w].pc = "add"
      /\ client' \in [Watchers -> ClientRec]
      /\ excuse' \in [Watchers -> SUBSET {"dropped", "overtaken", "straddled", "unlinked"}]
      /\ \A x \in Watchers \ {w} : client'[x] = client[x] /\ excuse'[x] = excuse[x]
      /\ \/ /\ client'[w] = client[w] /\ excuse'[w] = excuse[w]
            /\ watch'[w].from = LastSeen(w)
         \/ client'[w].got = <<>> /\ client'[w].old /\ watch'[w].from = 0
  <2>1. CASE /\ watch' = [watch EXCEPT ![w] = [NewWatch EXCEPT !.pc = "add", !.from = LastOr(client[w].got, 0)]]
             /\ UNCHANGED <<client, excuse>>
    <3> DEFINE new == [NewWatch EXCEPT !.pc = "add", !.from = LastSeen(w)]
    <3>1. new \in WatchRec /\ new.pc = "add" /\ new.from = LastSeen(w)
      BY <1>1 DEF NewWatch, WatchRec, WatchPc
    <3>2. watch' = [watch EXCEPT ![w] = new]
      BY <2>1 DEF LastSeen
    <3> HIDE DEF new
    <3> QED
      BY <1>1, <2>1, <3>1, <3>2 DEF Moves
  <2>2. CASE /\ watch' = [watch EXCEPT ![w] = [NewWatch EXCEPT !.pc = "add"]]
             /\ client' = [client EXCEPT ![w] = NewClient]
             /\ excuse' = [excuse EXCEPT ![w] = {}]
    <3> DEFINE new == [NewWatch EXCEPT !.pc = "add"]
    <3>1. new \in WatchRec /\ new.pc = "add" /\ new.from = 0
      BY <1>1 DEF NewWatch, WatchRec, WatchPc
    <3>2. NewClient \in ClientRec /\ NewClient.got = <<>> /\ NewClient.old
      BY <1>1 DEF NewClient, ClientRec
    <3>3. watch' = [watch EXCEPT ![w] = new]
      BY <2>2
    <3> HIDE DEF new
    <3> QED
      BY <1>1, <2>2, <3>1, <3>2, <3>3 DEF Moves
  <2> QED
    BY <2>1, <2>2 DEF Watch
<1>8. TypeOK'
  BY <1>2, <1>3, <1>4, <1>5, <1>6, <1>7 DEF TypeOK, Moves, WatchRec, ClientRec, StepRec
<1> QED
  BY <1>2, <1>4, <1>5, <1>7, <1>8

LEMMA WatchKeeps == ASSUME IInv, NEW w \in Watchers, Watch(w) PROVE IInv'
<1>1. TypeOK /\ NoticeInv /\ TypeOK'
  BY WatchEffect DEF IInv
<1>2. \A s \in Steps : /\ step'[s].to = step[s].to \ {w}
                       /\ step[s].to = {w} => step'[s].fan = "no"
                       /\ step[s].to # {w} => step'[s].fan = step[s].fan /\ step'[s].event = step[s].event
  BY <1>1, WatchEffect
<1>3. NoticeInv'
  <2>1. \A x \in Watchers : ~client'[x].old => rewritten
    BY <1>1, WatchEffect DEF NoticeInv
  <2> QED
    BY <1>1, <1>2, <2>1, WatchEffect DEF NoticeInv
<1>4. ASSUME NEW x \in Watchers
      PROVE  /\ Announcing(x)' = IF x = w THEN {s \in Steps : step[s].fan = "load"} ELSE Announcing(x)
             /\ \A s \in Announcing(x)' : step'[s].event = step[s].event
  BY <1>1, <1>2 DEF Announcing, NoticeInv
<1>5. ASSUME NEW x \in Watchers \ {w} PROVE Undisturbed(x)
  <2>1. watch'[x] = watch[x] /\ Known(x)' = Known(x)
    BY <1>1, WatchEffect DEF Moves, Known
  <2> QED
    BY <1>1, <1>4, <2>1, WatchEffect DEF Undisturbed
<1>6. QueueInv(w)'
  BY <1>1, WatchEffect DEF QueueInv, Queued
<1>7. CASE client'[w] = client[w] /\ excuse'[w] = excuse[w] /\ watch'[w].from = LastSeen(w)
  <2>1. /\ Seen(w)' = Seen(w) /\ LastSeen(w)' = LastSeen(w) /\ Known(w)' = Known(w) /\ ~Reading(w)'
    BY <1>1, <1>7, WatchEffect DEF Seen, LastSeen, Known, Reading
  <2>2. OrderInv(w)'
    BY <1>7, <2>1 DEF OrderInv, IInv
  <2>3. CoverInv(w)'
    BY <1>7, <2>1 DEF CoverInv, IInv
  <2> QED
    BY <1>1, <1>3, <1>5, <1>6, <2>2, <2>3, UndisturbedKeeps DEF IInv
<1>8. CASE client'[w].got = <<>> /\ client'[w].old /\ watch'[w].from = 0
  <2>1. Seen(w)' = {} /\ LastSeen(w)' = 0 /\ ~Reading(w)'
    BY <1>1, <1>8, WatchEffect DEF Seen, LastSeen, LastOr, Reading
  <2>2. OrderInv(w)'
    BY <1>8, <2>1 DEF OrderInv
  <2>3. CoverInv(w)'
    BY <2>1 DEF CoverInv
  <2> QED
    BY <1>1, <1>3, <1>5, <1>6, <2>2, <2>3, UndisturbedKeeps DEF IInv
<1> QED
  BY <1>1, <1>7, <1>8, WatchEffect

\* A watch that starts from an offset has no event between it and its cursor.
LEMMA StartsAt ==
  ASSUME TypeOK, NoticeInv, NEW from \in 0..Len(log), NEW bytes \in BOOLEAN
  PROVE  /\ StartOffset(from, bytes, StepEvents) \in 0..from
         /\ \A n \in StepEvents : n <= from => n <= StartOffset(from, bytes, StepEvents)
         /\ StepEvents \subseteq 1..Len(log) /\ StepEvents = {n \in DOMAIN journal : EventOf(journal, n)}
<1>1. /\ Len(log) \in Nat /\ Len(journal) \in Nat /\ Len(journal) <= Len(log)
      /\ DOMAIN journal = 1..Len(journal)
  BY DEF TypeOK, NoticeInv
<1>2. StepEvents \subseteq 1..Len(log) /\ StepEvents = {n \in DOMAIN journal : EventOf(journal, n)}
  BY <1>1 DEF StepEvents, EventOf
<1> DEFINE S == {n \in StepEvents : n <= from}
           m == MaxOr(S, 0)
<1>3. S \in SUBSET (1..Len(log)) /\ S \subseteq 1..Len(log)
  BY <1>2
<1>4. m \in Nat /\ (S = {} => m = 0) /\ (S # {} => m \in S) /\ \A n \in S : n <= m
  <2> HIDE DEF S
  <2> QED
    BY <1>1, <1>3, MaxOrBounds
<1>5. StartOffset(from, bytes, StepEvents) = IF bytes THEN m ELSE from
  BY DEF StartOffset
<1> HIDE DEF m
<1>6. m \in 0..from /\ \A n \in StepEvents : n <= from => n <= m
  BY <1>1, <1>3, <1>4
<1>7. from \in 0..from /\ \A n \in StepEvents : n <= from => n <= from
  BY <1>1
<1> QED
  BY <1>2, <1>5, <1>6, <1>7

LEMMA ReadFramesEffect ==
  ASSUME TypeOK, NoticeInv, NEW w \in Watchers, ReadFrames(w)
  PROVE  /\ TypeOK' /\ Moves(w) /\ At(w, "read") /\ watch'[w].pc = "meta"
         /\ watch'[w].cursor \in 0..watch[w].from
         /\ \A n \in StepEvents : n <= watch[w].from => n <= watch'[w].cursor
         /\ watch'[w].todo = {n \in StepEvents : n > watch'[w].cursor}
         /\ client'[w].got = client[w].got /\ (client'[w].old <=> ~rewritten)
         /\ excuse[w] \subseteq excuse'[w]
         /\ "straddled" \notin excuse'[w] =>
              /\ watch[w].from > 0 => (client[w].old <=> ~rewritten)
              /\ rewritten => notify[w] = <<>>
         /\ \A x \in Watchers \ {w} : client'[x] = client[x] /\ excuse'[x] = excuse[x]
         /\ UNCHANGED <<journal, rewritten, log, notify, step>>
<1>1. /\ Len(log) \in Nat /\ watch \in [Watchers -> WatchRec] /\ client \in [Watchers -> ClientRec]
      /\ excuse \in [Watchers -> SUBSET {"dropped", "overtaken", "straddled", "unlinked"}]
      /\ rewritten \in BOOLEAN /\ watch[w].from \in 0..Len(log)
  BY Fresh DEF TypeOK, ClientRec
<1>2. PICK bytes \in BOOLEAN :
        watch' = [watch EXCEPT ![w].pc = "meta", ![w].from = 0,
                               ![w].cursor = StartOffset(watch[w].from, bytes, StepEvents),
                               ![w].todo = {n \in StepEvents : n > StartOffset(watch[w].from, bytes, StepEvents)}]
  BY DEF ReadFrames
<1> DEFINE c == StartOffset(watch[w].from, bytes, StepEvents)
           later == {n \in StepEvents : n > c}
<1>3. /\ c \in 0..watch[w].from /\ (\A n \in StepEvents : n <= watch[w].from => n <= c)
      /\ StepEvents \subseteq 1..Len(log)
  BY <1>1, StartsAt
<1>4. watch' = [watch EXCEPT ![w].pc = "meta", ![w].from = 0, ![w].cursor = c, ![w].todo = later]
  BY <1>2
<1>5. later = {n \in StepEvents : n > c} /\ later \in SUBSET (1..Len(log))
  BY <1>3
<1> HIDE DEF c, later
<1>6. c \in 0..Len(log) /\ 0 \in 0..Len(log)
  BY <1>1, <1>3
<1>7. watch' \in [Watchers -> WatchRec]
  <2>1. /\ watch[w] \in WatchRec /\ "meta" \in WatchPc
        /\ watch' = [watch EXCEPT ![w] = [@ EXCEPT !.pc = "meta", !.from = 0, !.cursor = c, !.todo = later]]
    BY <1>1, <1>4 DEF WatchPc
  <2> DEFINE new == [watch[w] EXCEPT !.pc = "meta", !.from = 0, !.cursor = c, !.todo = later]
  <2>2. new \in WatchRec
    BY <1>5, <1>6, <2>1 DEF WatchRec
  <2>3. watch' = [watch EXCEPT ![w] = new]
    BY <2>1
  <2> HIDE DEF new
  <2> QED
    BY <1>1, <2>2, <2>3
<1>8. watch'[w].pc = "meta" /\ watch'[w].cursor = c /\ watch'[w].todo = later
  BY <1>1, <1>4 DEF WatchRec
<1>9. Moves(w)
  BY <1>1, <1>4, <1>7 DEF Moves
<1>10. client' = [client EXCEPT ![w].old = ~rewritten]
  BY DEF ReadFrames
<1>11. /\ client' \in [Watchers -> ClientRec]
       /\ client'[w].got = client[w].got /\ client'[w].old = ~rewritten
       /\ \A x \in Watchers \ {w} : client'[x] = client[x]
  BY <1>1, <1>10 DEF ClientRec
<1>12. /\ excuse' \in [Watchers -> SUBSET {"dropped", "overtaken", "straddled", "unlinked"}]
       /\ excuse[w] \subseteq excuse'[w]
       /\ \A x \in Watchers \ {w} : excuse'[x] = excuse[x]
       /\ "straddled" \notin excuse'[w] =>
            ~(\/ (watch[w].from > 0 /\ client[w].old = rewritten)
              \/ (rewritten /\ notify[w] # <<>>))
  BY <1>1 DEF ReadFrames
<1>13. client[w].old \in BOOLEAN
  BY <1>1 DEF ClientRec
<1>14. "straddled" \notin excuse'[w] =>
         /\ watch[w].from > 0 => (client[w].old <=> ~rewritten)
         /\ rewritten => notify[w] = <<>>
  BY <1>1, <1>12, <1>13
<1>15. At(w, "read") /\ UNCHANGED <<journal, rewritten, generation, log, calls, watchers, chs, notify, step>>
  BY DEF ReadFrames, files, table
<1>16. TypeOK'
  BY <1>7, <1>11, <1>12, <1>15 DEF TypeOK, WatchRec, ClientRec
<1> QED
  BY <1>3, <1>5, <1>8, <1>9, <1>11, <1>12, <1>14, <1>15, <1>16

\* Others than w are not disturbed by a step of its watch.
LEMMA OthersUndisturbed ==
  ASSUME NEW w \in Watchers, Moves(w), NEW x \in Watchers \ {w},
         client'[x] = client[x], excuse'[x] = excuse[x], notify'[x] = notify[x],
         UNCHANGED <<journal, log, step>>
  PROVE  Undisturbed(x)
BY DEF Moves, Undisturbed, Known, Announcing

LEMMA ReadFramesKeeps == ASSUME IInv, NEW w \in Watchers, ReadFrames(w) PROVE IInv'
<1>1. TypeOK /\ NoticeInv /\ OrderInv(w) /\ CoverInv(w) /\ QueueInv(w)
  BY DEF IInv
<1>2. NoticeInv'
  BY <1>1, ReadFramesEffect DEF NoticeInv
<1>3. ASSUME NEW x \in Watchers \ {w} PROVE Undisturbed(x)
  BY <1>1, ReadFramesEffect, OthersUndisturbed
<1>4. /\ Seen(w)' = Seen(w) /\ LastSeen(w)' = LastSeen(w) /\ Queued(w)' = Queued(w)
      /\ Announcing(w)' = Announcing(w)
      /\ Known(w)' = journal /\ DOMAIN journal = 1..Len(journal)
  <2>1. Seen(w)' = Seen(w) /\ LastSeen(w)' = LastSeen(w)
    BY <1>1, ReadFramesEffect DEF Seen, LastSeen
  <2>2. Queued(w)' = Queued(w) /\ Announcing(w)' = Announcing(w)
    BY <1>1, ReadFramesEffect DEF Queued, Announcing
  <2>3. /\ journal' = journal /\ log' = log /\ (client'[w].old <=> ~rewritten)
    BY <1>1, ReadFramesEffect
  <2>4. Known(w)' = journal
    BY <1>1, <2>3 DEF Known, NoticeInv
  <2> QED
    BY <1>1, <2>1, <2>2, <2>4 DEF TypeOK
<1>5. QueueInv(w)'
  BY <1>1, <1>4, ReadFramesEffect DEF QueueInv
<1> DEFINE c == watch'[w].cursor
<1>6. /\ c \in 0..watch[w].from /\ watch[w].from \in 0..Len(log) /\ Len(log) \in Nat
      /\ (\A n \in StepEvents : n <= watch[w].from => n <= c)
      /\ watch'[w].todo = {n \in StepEvents : n > c}
      /\ watch'[w].todo \in SUBSET (1..Len(log))
      /\ StepEvents \subseteq 1..Len(log) /\ StepEvents = {n \in DOMAIN journal : EventOf(journal, n)}
  <2>1. watch[w].from \in 0..Len(log) /\ Len(log) \in Nat
    BY <1>1 DEF TypeOK
  <2> QED
    BY <1>1, <2>1, StartsAt, ReadFramesEffect
<1> HIDE DEF c
<1>7. ASSUME "straddled" \notin excuse'[w]
      PROVE  /\ watch[w].from = LastSeen(w) /\ (LastSeen(w) > 0 => Known(w)' = Known(w))
             /\ \A n \in Seen(w) : EventOf(journal, n)
  <2>1. "straddled" \notin excuse[w] /\ At(w, "read")
    BY <1>1, <1>7, ReadFramesEffect
  <2>2. watch[w].from = LastSeen(w) /\ \A n \in Seen(w) : EventOf(Known(w), n)
    BY <1>1, <2>1 DEF OrderInv, At
  <2>3. LastSeen(w) > 0 => Known(w)' = Known(w)
    BY <1>1, <1>7, <2>2, ReadFramesEffect DEF Known
  <2>4. ~(LastSeen(w) > 0) => Seen(w) = {}
    <3>1. client[w].got # <<>> => LastSeen(w) \in 1..Len(log)
      BY <1>1, Bounds
    <3> QED
      BY <1>6, <3>1 DEF Seen
  <2> QED
    BY <1>4, <2>2, <2>3, <2>4
<1>8. OrderInv(w)'
  <2> SUFFICES ASSUME "straddled" \notin excuse'[w] PROVE OrderInv(w)'
    BY DEF OrderInv
  <2>1. LastSeen(w) <= c
    <3>1. CASE client[w].got = <<>>
      BY <1>1, <1>6, <3>1, Bounds
    <3>2. CASE client[w].got # <<>>
      <4>1. LastSeen(w) \in StepEvents
        BY <1>1, <1>6, <1>7, <3>2, Bounds DEF EventOf
      <4> QED
        BY <1>6, <1>7, <4>1
    <3> QED
      BY <3>1, <3>2
  <2>2. LastSeen(w) \in 0..Len(log)
    BY <1>1, Bounds
  <2>3. \A n \in watch'[w].todo : EventOf(journal, n) /\ LastSeen(w) < n /\ ~(n <= c)
    BY <1>6, <2>1, <2>2
  <2>4. ~client'[w].old => notify'[w] = <<>>
    BY <1>1, ReadFramesEffect
  <2>5. \A i, j \in DOMAIN client'[w].got : i < j => client'[w].got[i] < client'[w].got[j]
    BY <1>1, ReadFramesEffect DEF OrderInv
  <2>6. watch'[w].pc = "meta" /\ Reading(w)'
    BY <1>1, ReadFramesEffect DEF Reading
  <2> QED
    BY <1>4, <1>7, <2>1, <2>3, <2>4, <2>5, <2>6 DEF OrderInv, At, c
<1>9. CoverInv(w)'
  <2> SUFFICES ASSUME excuse'[w] = {} PROVE CoverInv(w)'
    BY DEF CoverInv
  <2>1. excuse[w] = {} /\ "straddled" \notin excuse'[w] /\ LastSeen(w) \in 0..Len(log)
    BY <1>1, ReadFramesEffect, Bounds
  <2>2. \A n \in 1..LastSeen(w) : IsEvent(journal[n]) => n \in Seen(w)
    BY <1>1, <1>4, <1>7, <2>1 DEF CoverInv
  <2> DEFINE m == MaxOr(watch'[w].todo, c)
  <2>3. /\ m \in Nat /\ (watch'[w].todo = {} => m = c) /\ (watch'[w].todo # {} => m \in watch'[w].todo)
        /\ \A n \in watch'[w].todo : n <= m
    <3> DEFINE S == watch'[w].todo
    <3>1. S \in SUBSET (1..Len(log)) /\ c \in Nat
      BY <1>6
    <3> HIDE DEF S
    <3>2. /\ MaxOr(S, c) \in Nat /\ (S = {} => MaxOr(S, c) = c) /\ (S # {} => MaxOr(S, c) \in S)
          /\ \A n \in S : n <= MaxOr(S, c)
      BY <1>6, <3>1, MaxOrBounds
    <3> QED
      BY <3>2 DEF S
  <2>4. Top(w)' = m
    BY <1>1, ReadFramesEffect DEF Top, At, c
  <2> HIDE DEF m
  <2>5. c <= m
    BY <1>6, <2>3
  <2>6. ASSUME NEW n \in DOMAIN journal, IsEvent(journal[n]) PROVE Covered(w, n)'
    <3>1. n \in StepEvents /\ n \in 1..Len(log)
      BY <1>6, <2>6 DEF EventOf
    <3>2. CASE n <= c
      <4>1. n \in Seen(w) /\ n <= m
        BY <1>6, <1>7, <2>1, <2>2, <2>3, <2>5, <2>6, <3>1, <3>2
      <4> QED
        BY <1>4, <2>4, <4>1 DEF Covered
    <3>3. CASE ~(n <= c)
      <4>1. n \in watch'[w].todo
        BY <1>6, <3>1, <3>3
      <4>2. n <= m
        BY <2>3, <4>1
      <4> QED
        BY <2>4, <4>1, <4>2 DEF Covered
    <3> QED
      BY <3>2, <3>3
  <2> QED
    BY <1>4, <2>2, <2>6 DEF CoverInv
<1> QED
  BY <1>1, <1>2, <1>3, <1>5, <1>8, <1>9, UndisturbedKeeps, ReadFramesEffect DEF IInv

LEMMA ReadGenerationEffect ==
  ASSUME TypeOK, NEW w \in Watchers, ReadGeneration(w)
  PROVE  /\ TypeOK' /\ Moves(w) /\ At(w, "meta") /\ watch'[w].pc = "stream"
         /\ watch'[w].todo = watch[w].todo /\ watch'[w].cursor = Top(w)
         /\ excuse[w] \subseteq excuse'[w]
         /\ \A x \in Watchers \ {w} : excuse'[x] = excuse[x]
         /\ UNCHANGED <<journal, rewritten, log, notify, step, client>>
<1>1. /\ Len(log) \in Nat /\ watch \in [Watchers -> WatchRec] /\ generation \in 0..1
      /\ excuse \in [Watchers -> SUBSET {"dropped", "overtaken", "straddled", "unlinked"}]
      /\ Top(w) \in 0..Len(log)
  BY Fresh, Bounds DEF TypeOK
<1>2. At(w, "meta") /\ Top(w) = MaxOr(watch[w].todo, watch[w].cursor)
  BY DEF ReadGeneration, Top
<1> DEFINE new == [watch[w] EXCEPT !.pc = "stream", !.gen = generation, !.cursor = Top(w)]
<1>3. watch' = [watch EXCEPT ![w] = new]
  BY <1>1, <1>2 DEF ReadGeneration
<1>4. new \in WatchRec /\ new.pc = "stream" /\ new.todo = watch[w].todo /\ new.cursor = Top(w)
  <2> DEFINE m == Top(w)
  <2>1. watch[w] \in WatchRec /\ m \in 0..Len(log)
    BY <1>1
  <2> HIDE DEF m
  <2> QED
    BY <1>1, <2>1 DEF WatchRec, WatchPc, m
<1> HIDE DEF new
<1>5. watch' \in [Watchers -> WatchRec] /\ Moves(w) /\ watch'[w] = new
  BY <1>1, <1>3, <1>4 DEF Moves
<1>6. /\ excuse' \in [Watchers -> SUBSET {"dropped", "overtaken", "straddled", "unlinked"}]
      /\ excuse[w] \subseteq excuse'[w]
      /\ \A x \in Watchers \ {w} : excuse'[x] = excuse[x]
  BY <1>1 DEF ReadGeneration
<1>7. UNCHANGED <<journal, rewritten, generation, log, calls, watchers, chs, notify, step, client>>
  BY DEF ReadGeneration, files, table
<1>8. TypeOK'
  BY <1>5, <1>6, <1>7 DEF TypeOK, WatchRec
<1> QED
  BY <1>2, <1>4, <1>5, <1>6, <1>7, <1>8

LEMMA ReadGenerationKeeps == ASSUME IInv, NEW w \in Watchers, ReadGeneration(w) PROVE IInv'
<1>1. TypeOK /\ NoticeInv /\ OrderInv(w) /\ CoverInv(w) /\ QueueInv(w)
  BY DEF IInv
<1>2. NoticeInv'
  BY <1>1, ReadGenerationEffect DEF NoticeInv
<1>3. ASSUME NEW x \in Watchers \ {w} PROVE Undisturbed(x)
  BY <1>1, ReadGenerationEffect, OthersUndisturbed
<1>4. /\ Seen(w)' = Seen(w) /\ LastSeen(w)' = LastSeen(w) /\ Queued(w)' = Queued(w)
      /\ Announcing(w)' = Announcing(w) /\ Known(w)' = Known(w)
  BY <1>1, ReadGenerationEffect DEF Seen, LastSeen, Queued, Announcing, Known
<1>5. Top(w)' = Top(w) /\ Reading(w) /\ Reading(w)'
  BY <1>1, ReadGenerationEffect DEF Top, Reading, At
<1>6. QueueInv(w)'
  BY <1>1, <1>4, ReadGenerationEffect DEF QueueInv
<1>7. /\ watch[w].cursor \in 0..Len(log) /\ Top(w) \in 0..Len(log) /\ Len(log) \in Nat
      /\ watch[w].todo \in SUBSET (1..Len(log)) /\ LastSeen(w) \in 0..Len(log)
  BY <1>1, Bounds DEF TypeOK
<1>8. /\ watch[w].todo = {} => Top(w) = watch[w].cursor
      /\ watch[w].todo # {} => Top(w) \in watch[w].todo
      /\ \A n \in watch[w].todo : n <= Top(w)
  <2> DEFINE S == watch[w].todo
             d == watch[w].cursor
  <2>1. Top(w) = MaxOr(S, d) /\ S \in SUBSET (1..Len(log)) /\ d \in Nat
    BY <1>1, <1>7, ReadGenerationEffect DEF Top
  <2> HIDE DEF S, d
  <2>2. /\ S = {} => MaxOr(S, d) = d
        /\ S # {} => MaxOr(S, d) \in S
        /\ \A n \in S : n <= MaxOr(S, d)
    BY <1>7, <2>1, MaxOrBounds
  <2> QED
    BY <2>1, <2>2 DEF S, d
<1>9. OrderInv(w)'
  <2> SUFFICES ASSUME "straddled" \notin excuse'[w] PROVE OrderInv(w)'
    BY DEF OrderInv
  <2>1. "straddled" \notin excuse[w]
    BY <1>1, ReadGenerationEffect
  <2>2. /\ LastSeen(w) <= watch[w].cursor
        /\ \A n \in watch[w].todo : EventOf(Known(w), n) /\ LastSeen(w) < n
        /\ ~client[w].old => notify[w] = <<>>
    BY <1>1, <1>5, <2>1 DEF OrderInv
  <2>3. LastSeen(w) <= Top(w)
    <3>1. CASE watch[w].todo = {}
      BY <1>8, <2>2, <3>1
    <3>2. CASE watch[w].todo # {}
      <4>1. LastSeen(w) < Top(w)
        BY <1>8, <2>2, <3>2
      <4> QED
        BY <1>7, <4>1
    <3> QED
      BY <3>1, <3>2
  <2> QED
    BY <1>1, <1>4, <1>8, <2>1, <2>2, <2>3, ReadGenerationEffect DEF OrderInv, At
<1>10. CoverInv(w)'
  <2> SUFFICES ASSUME excuse'[w] = {} PROVE CoverInv(w)'
    BY DEF CoverInv
  <2>1. excuse[w] = {}
    BY <1>1, ReadGenerationEffect
  <2>2. ASSUME NEW n, Covered(w, n) PROVE Covered(w, n)'
    BY <1>1, <1>4, <1>5, <2>2, ReadGenerationEffect DEF Covered
  <2> QED
    BY <1>1, <1>4, <1>5, <2>1, <2>2 DEF CoverInv
<1> QED
  BY <1>1, <1>2, <1>3, <1>6, <1>9, <1>10, UndisturbedKeeps, ReadGenerationEffect DEF IInv

LEMMA SendEffect ==
  ASSUME TypeOK, NEW w \in Watchers, Send(w)
  PROVE  /\ TypeOK' /\ Moves(w) /\ At(w, "stream") /\ watch'[w].pc = "stream"
         /\ watch'[w].cursor = watch[w].cursor /\ client'[w].old = client[w].old
         /\ \E m \in watch[w].todo :
              /\ m \in 1..Len(log) /\ \A n \in watch[w].todo : m <= n
              /\ watch'[w].todo = watch[w].todo \ {m}
              /\ client'[w].got = Append(client[w].got, m)
         /\ \A x \in Watchers \ {w} : client'[x] = client[x]
         /\ UNCHANGED <<journal, rewritten, log, notify, step, excuse>>
<1>1. /\ Len(log) \in Nat /\ watch \in [Watchers -> WatchRec] /\ client \in [Watchers -> ClientRec]
      /\ watch[w].todo \in SUBSET (1..Len(log)) /\ watch[w].todo # {}
  BY Fresh DEF TypeOK, ClientRec, Send
<1> DEFINE m == Min(watch[w].todo)
<1>2. m \in watch[w].todo /\ \A n \in watch[w].todo : m <= n
  <2> DEFINE S == watch[w].todo
  <2>1. S \in SUBSET Nat /\ S # {}
    BY <1>1
  <2> HIDE DEF S
  <2>2. Min(S) \in S /\ \A n \in S : Min(S) <= n
    BY <2>1, MinOfNaturals
  <2> QED
    BY <2>2 DEF S
<1>3. /\ client' = [client EXCEPT ![w].got = Append(@, m), ![w].gen = watch[w].gen]
      /\ watch' = [watch EXCEPT ![w].todo = @ \ {m}]
  BY DEF Send
<1> HIDE DEF m
<1>4. m \in 1..Len(log)
  BY <1>1, <1>2
<1>5. watch' \in [Watchers -> WatchRec]
  BY <1>1, <1>3 DEF WatchRec
<1>6. /\ watch'[w].pc = watch[w].pc /\ watch'[w].cursor = watch[w].cursor
      /\ watch'[w].todo = watch[w].todo \ {m}
  BY <1>1, <1>3 DEF WatchRec
<1>7. Moves(w)
  BY <1>1, <1>3, <1>5 DEF Moves
<1>8. /\ client' \in [Watchers -> ClientRec]
      /\ client'[w].got = Append(client[w].got, m) /\ client'[w].old = client[w].old
      /\ \A x \in Watchers \ {w} : client'[x] = client[x]
  <2>1. client[w].got \in Seq(1..Len(log)) /\ watch[w].gen \in 0..1
    BY <1>1 DEF ClientRec, WatchRec
  <2>2. Append(client[w].got, m) \in Seq(1..Len(log))
    BY <1>4, <2>1
  <2> QED
    BY <1>1, <1>3, <2>1, <2>2 DEF ClientRec
<1>9. At(w, "stream") /\ UNCHANGED <<journal, rewritten, generation, log, calls, watchers, chs, notify, step, excuse>>
  BY DEF Send, files, table
<1>10. TypeOK'
  BY <1>5, <1>8, <1>9 DEF TypeOK, WatchRec, ClientRec
<1> QED
  BY <1>2, <1>4, <1>6, <1>7, <1>8, <1>9, <1>10 DEF At

LEMMA SendKeeps == ASSUME IInv, NEW w \in Watchers, Send(w) PROVE IInv'
<1>1. TypeOK /\ NoticeInv /\ OrderInv(w) /\ CoverInv(w) /\ QueueInv(w)
  BY DEF IInv
<1>2. NoticeInv'
  BY <1>1, SendEffect DEF NoticeInv
<1>3. ASSUME NEW x \in Watchers \ {w} PROVE Undisturbed(x)
  BY <1>1, SendEffect, OthersUndisturbed
<1>4. PICK m \in watch[w].todo :
        /\ m \in 1..Len(log) /\ \A n \in watch[w].todo : m <= n
        /\ watch'[w].todo = watch[w].todo \ {m}
        /\ client'[w].got = Append(client[w].got, m)
  BY <1>1, SendEffect
<1>5. /\ client[w].got \in Seq(1..Len(log)) /\ Len(log) \in Nat /\ Len(client[w].got) \in Nat
      /\ watch[w].todo \in SUBSET (1..Len(log)) /\ watch[w].cursor \in 0..Len(log)
      /\ DOMAIN client[w].got = 1..Len(client[w].got)
  BY <1>1 DEF TypeOK
<1>6. /\ DOMAIN client'[w].got = 1..(Len(client[w].got) + 1)
      /\ Len(client'[w].got) = Len(client[w].got) + 1 /\ client'[w].got # <<>>
      /\ client'[w].got[Len(client[w].got) + 1] = m
      /\ \A i \in DOMAIN client[w].got : client'[w].got[i] = client[w].got[i]
  BY <1>4, <1>5
<1>7. Seen(w)' = Seen(w) \cup {m}
  <2>1. /\ DOMAIN client'[w].got = DOMAIN client[w].got \cup {Len(client[w].got) + 1}
        /\ Len(client[w].got) + 1 \in DOMAIN client'[w].got
    BY <1>5, <1>6
  <2> QED
    BY <1>6, <2>1 DEF Seen
<1>8. LastSeen(w)' = m
  BY <1>6 DEF LastSeen, LastOr, Last
<1>9. /\ Queued(w)' = Queued(w) /\ Announcing(w)' = Announcing(w) /\ Known(w)' = Known(w)
      /\ Top(w) = watch[w].cursor /\ Top(w)' = Top(w) /\ Reading(w) /\ Reading(w)'
  BY <1>1, SendEffect DEF Queued, Announcing, Known, Top, Reading, At
<1>10. QueueInv(w)'
  BY <1>1, <1>9, SendEffect DEF QueueInv
<1>11. OrderInv(w)'
  <2> SUFFICES ASSUME "straddled" \notin excuse[w] PROVE OrderInv(w)'
    BY <1>1, SendEffect DEF OrderInv
  <2>1. /\ \A i, j \in DOMAIN client[w].got : i < j => client[w].got[i] < client[w].got[j]
        /\ \A n \in Seen(w) : EventOf(Known(w), n)
        /\ LastSeen(w) <= watch[w].cursor
        /\ \A n \in watch[w].todo : /\ EventOf(Known(w), n) /\ LastSeen(w) < n
                                    /\ n <= watch[w].cursor
        /\ ~client[w].old => notify[w] = <<>>
    BY <1>1, <1>9, SendEffect DEF OrderInv
  <2>2. \A i \in DOMAIN client[w].got : client[w].got[i] <= LastSeen(w)
    <3> SUFFICES ASSUME NEW i \in DOMAIN client[w].got PROVE client[w].got[i] <= LastSeen(w)
      OBVIOUS
    <3>1. LastSeen(w) = client[w].got[Len(client[w].got)] /\ Len(client[w].got) \in DOMAIN client[w].got
      BY <1>5 DEF LastSeen, LastOr, Last
    <3>2. client[w].got[i] \in 1..Len(log) /\ client[w].got[Len(client[w].got)] \in 1..Len(log)
      BY <1>5, <3>1
    <3>3. i = Len(client[w].got) \/ i < Len(client[w].got)
      BY <1>5
    <3> QED
      BY <2>1, <3>1, <3>2, <3>3
  <2>3. LastSeen(w) < m /\ LastSeen(w) \in 0..Len(log)
    BY <1>1, <2>1, Bounds
  <2>4. \A i \in DOMAIN client[w].got : client[w].got[i] \in 1..Len(log) /\ client[w].got[i] < m
    BY <1>4, <1>5, <2>2, <2>3
  <2>5. \A i, j \in DOMAIN client'[w].got : i < j => client'[w].got[i] < client'[w].got[j]
    <3> SUFFICES ASSUME NEW i \in DOMAIN client'[w].got, NEW j \in DOMAIN client'[w].got, i < j
                 PROVE  client'[w].got[i] < client'[w].got[j]
      OBVIOUS
    <3>1. i \in DOMAIN client[w].got /\ (j \in DOMAIN client[w].got \/ j = Len(client[w].got) + 1)
      BY <1>5, <1>6
    <3> QED
      BY <1>6, <2>1, <2>4, <3>1
  <2>6. \A n \in Seen(w)' : EventOf(Known(w)', n)
    BY <1>7, <1>9, <2>1
  <2>7. \A n \in watch'[w].todo :
          EventOf(Known(w)', n) /\ m < n /\ n <= watch'[w].cursor
    <3> SUFFICES ASSUME NEW n \in watch'[w].todo
                 PROVE  EventOf(Known(w)', n) /\ m < n /\ n <= watch'[w].cursor
      OBVIOUS
    <3>1. n \in watch[w].todo /\ n # m /\ m <= n /\ n \in 1..Len(log)
      BY <1>4, <1>5
    <3> QED
      BY <1>1, <1>4, <1>9, <2>1, <3>1, SendEffect
  <2>8. m <= watch'[w].cursor /\ watch'[w].pc = "stream" /\ (~client'[w].old => notify'[w] = <<>>)
    BY <1>1, <2>1, SendEffect
  <2> QED
    BY <1>8, <2>5, <2>6, <2>7, <2>8 DEF OrderInv, At
<1>12. CoverInv(w)'
  <2> SUFFICES ASSUME excuse[w] = {} PROVE CoverInv(w)'
    BY <1>1, SendEffect DEF CoverInv
  <2>1. /\ \A n \in DOMAIN Known(w) : IsEvent(Known(w)[n]) => Covered(w, n)
        /\ EventOf(Known(w), m) /\ m <= Top(w) /\ Top(w) \in Nat
    BY <1>1, <1>5, <1>9, SendEffect DEF OrderInv, CoverInv
  <2>2. ASSUME NEW n, Covered(w, n) PROVE Covered(w, n)'
    BY <1>1, <1>4, <1>7, <1>9, <2>2, SendEffect DEF Covered
  <2>3. ASSUME NEW n \in 1..m, IsEvent(Known(w)[n]) PROVE n \in Seen(w)'
    <3>1. n \in DOMAIN Known(w)
      <4>1. journal \in Seq(Frame) /\ log \in Seq(Frame)
        BY <1>1 DEF TypeOK
      <4> QED
        BY <1>4, <2>1, <4>1 DEF EventOf, Known
    <3>2. n <= Top(w) /\ n \in Seen(w) \cup watch[w].todo
      BY <1>4, <2>1, <2>3, <3>1 DEF Covered
    <3>3. n \in watch[w].todo => n = m
      BY <1>4
    <3> QED
      BY <1>7, <3>2, <3>3
  <2> QED
    BY <1>8, <1>9, <2>1, <2>2, <2>3 DEF CoverInv
<1> QED
  BY <1>1, <1>2, <1>3, <1>10, <1>11, <1>12, UndisturbedKeeps, SendEffect DEF IInv

LEMMA ReceiveEffect ==
  ASSUME TypeOK, NEW w \in Watchers, Receive(w)
  PROVE  /\ TypeOK' /\ Moves(w) /\ At(w, "stream") /\ watch'[w].pc = "stream"
         /\ watch[w].todo = {} /\ notify[w] # <<>> /\ notify'[w] = Tail(notify[w])
         /\ IF Head(notify[w]) <= watch[w].cursor THEN watch' = watch
            ELSE watch'[w].cursor = Head(notify[w]) /\ watch'[w].todo = {Head(notify[w])}
         /\ \A x \in Watchers \ {w} : notify'[x] = notify[x]
         /\ UNCHANGED <<journal, rewritten, log, step, client, excuse>>
<1>1. /\ Len(log) \in Nat /\ watch \in [Watchers -> WatchRec]
      /\ notify \in [Watchers -> Seq(1..Len(log))] /\ notify[w] # <<>>
  BY Fresh DEF TypeOK, Receive
<1> DEFINE n == Head(notify[w])
<1>2. /\ n \in 1..Len(log) /\ Tail(notify[w]) \in Seq(1..Len(log))
      /\ Len(Tail(notify[w])) = Len(notify[w]) - 1 /\ Len(notify[w]) \in Nat
  BY <1>1
<1>3. /\ watch' = IF n <= watch[w].cursor THEN watch
                  ELSE [watch EXCEPT ![w].cursor = n, ![w].todo = {n}, ![w].gen = 0]
      /\ notify' = [notify EXCEPT ![w] = Tail(notify[w])]
  BY DEF Receive
<1> HIDE DEF n
<1>4. /\ notify' \in [Watchers -> Seq(1..Len(log))] /\ notify'[w] = Tail(notify[w])
      /\ \A x \in Watchers : Len(notify'[x]) <= Buffer
      /\ \A x \in Watchers \ {w} : notify'[x] = notify[x]
  BY <1>1, <1>2, <1>3, WatchBounds DEF TypeOK
<1>5. watch' \in [Watchers -> WatchRec]
  <2> DEFINE new == [watch[w] EXCEPT !.cursor = n, !.todo = {n}, !.gen = 0]
  <2>1. new \in WatchRec
    <3>1. watch[w] \in WatchRec /\ n \in 0..Len(log) /\ {n} \in SUBSET (1..Len(log)) /\ 0 \in 0..1
      BY <1>1, <1>2
    <3> QED
      BY ONLY <3>1 DEF WatchRec
  <2>2. ~(n <= watch[w].cursor) => watch' = [watch EXCEPT ![w] = new]
    BY <1>1, <1>3 DEF WatchRec
  <2> HIDE DEF new
  <2>3. watch' = watch \/ watch' = [watch EXCEPT ![w] = new]
    BY <1>3, <2>2
  <2> QED
    BY <1>1, <2>1, <2>3
<1>6. /\ watch'[w].pc = watch[w].pc
      /\ ~(n <= watch[w].cursor) => watch'[w].cursor = n /\ watch'[w].todo = {n}
  BY <1>1, <1>3 DEF WatchRec
<1>7. Moves(w)
  BY <1>1, <1>3, <1>5 DEF Moves
<1>8. /\ At(w, "stream") /\ watch[w].todo = {}
      /\ UNCHANGED <<journal, rewritten, generation, log, calls, watchers, chs, step, client, excuse>>
  BY DEF Receive, files, table
<1>9. TypeOK'
  BY <1>4, <1>5, <1>8 DEF TypeOK, WatchRec
<1> QED
  BY <1>1, <1>3, <1>4, <1>6, <1>7, <1>8, <1>9 DEF At, n

LEMMA TailShifts ==
  ASSUME NEW S, NEW s \in Seq(S), s # <<>>
  PROVE  /\ 1 \in DOMAIN s /\ Head(s) = s[1]
         /\ \A i \in DOMAIN Tail(s) : i \in Nat \ {0} /\ i + 1 \in DOMAIN s /\ Tail(s)[i] = s[i + 1]
         /\ \A i \in DOMAIN s : i = 1 \/ (i - 1 \in DOMAIN Tail(s) /\ s[i] = Tail(s)[i - 1])
<1>1. /\ Len(s) \in Nat /\ Len(s) >= 1 /\ DOMAIN s = 1..Len(s) /\ Head(s) = s[1]
      /\ DOMAIN Tail(s) = 1..(Len(s) - 1) /\ \A i \in DOMAIN Tail(s) : Tail(s)[i] = s[i + 1]
  OBVIOUS
<1> DEFINE l == Len(s)
           t == Tail(s)
<1> HIDE DEF l, t
<1>2. \A i \in DOMAIN t : i \in Nat \ {0} /\ i + 1 \in DOMAIN s
  <2> SUFFICES ASSUME NEW i \in 1..(l - 1) PROVE i \in Nat \ {0} /\ i + 1 \in 1..l
    BY <1>1 DEF l, t
  <2> QED
    BY <1>1 DEF l
<1>3. \A i \in DOMAIN s : i = 1 \/ (i - 1 \in DOMAIN t /\ (i - 1) + 1 = i)
  <2> SUFFICES ASSUME NEW i \in 1..l PROVE i = 1 \/ (i - 1 \in 1..(l - 1) /\ (i - 1) + 1 = i)
    BY <1>1 DEF l, t
  <2> QED
    BY <1>1 DEF l
<1>4. 1 \in DOMAIN s
  BY <1>1
<1> QED
  BY <1>1, <1>2, <1>3, <1>4 DEF t

LEMMA ReceiveKeeps == ASSUME IInv, NEW w \in Watchers, Receive(w) PROVE IInv'
<1>1. TypeOK /\ NoticeInv /\ OrderInv(w) /\ CoverInv(w) /\ QueueInv(w)
  BY DEF IInv
<1>2. NoticeInv'
  BY <1>1, ReceiveEffect DEF NoticeInv
<1>3. ASSUME NEW x \in Watchers \ {w} PROVE Undisturbed(x)
  BY <1>1, ReceiveEffect, OthersUndisturbed
<1> DEFINE n == Head(notify[w])
           rest == Tail(notify[w])
<1>4. /\ notify[w] \in Seq(1..Len(log)) /\ notify[w] # <<>> /\ Len(log) \in Nat /\ notify'[w] = rest
      /\ 1 \in DOMAIN notify[w] /\ n = notify[w][1]
      /\ \A i \in DOMAIN rest : /\ i \in Nat \ {0} /\ i + 1 \in DOMAIN notify[w]
                                /\ rest[i] = notify[w][i + 1]
      /\ \A i \in DOMAIN notify[w] :
           i = 1 \/ (i - 1 \in DOMAIN rest /\ notify[w][i] = rest[i - 1])
  <2>1. notify[w] \in Seq(1..Len(log)) /\ notify[w] # <<>> /\ Len(log) \in Nat /\ notify'[w] = rest
    BY <1>1, ReceiveEffect DEF TypeOK
  <2> QED
    BY <2>1, TailShifts
<1> HIDE DEF n, rest
<1>5. Queued(w) = {n} \cup Queued(w)' /\ n \in 1..Len(log)
  <2>1. n \in 1..Len(log)
    BY <1>4
  <2>2. Queued(w)' = {rest[i] : i \in DOMAIN rest}
    BY <1>4 DEF Queued
  <2>3. ASSUME NEW k \in Queued(w) PROVE k \in {n} \cup Queued(w)'
    <3>1. PICK i \in DOMAIN notify[w] : k = notify[w][i]
      BY DEF Queued
    <3>2. CASE i = 1
      BY <1>4, <3>1, <3>2
    <3>3. CASE i - 1 \in DOMAIN rest /\ notify[w][i] = rest[i - 1]
      BY <2>2, <3>1, <3>3
    <3> QED
      BY <1>4, <3>2, <3>3
  <2>4. \A k \in Queued(w)' : k \in Queued(w)
    BY <1>4, <2>2 DEF Queued
  <2>5. n \in Queued(w)
    BY <1>4 DEF Queued
  <2> QED
    BY <2>1, <2>3, <2>4, <2>5
<1>6. "overtaken" \notin excuse[w] => \A k \in Queued(w)' : n < k
  <2> SUFFICES ASSUME "overtaken" \notin excuse[w], NEW i \in DOMAIN rest PROVE n < rest[i]
    BY <1>4 DEF Queued
  <2>1. 1 \in DOMAIN notify[w] /\ i + 1 \in DOMAIN notify[w] /\ rest[i] = notify[w][i + 1]
    BY <1>4
  <2>2. 1 < i + 1
    <3>1. i \in Nat \ {0}
      BY <1>4
    <3> QED
      BY <3>1
  <2>3. notify[w][1] < notify[w][i + 1]
    BY <1>1, <2>1, <2>2 DEF QueueInv
  <2> QED
    BY <1>4, <2>1, <2>3
<1>7. /\ Seen(w)' = Seen(w) /\ LastSeen(w)' = LastSeen(w) /\ Announcing(w)' = Announcing(w)
      /\ Known(w)' = Known(w) /\ Reading(w) /\ Reading(w)'
      /\ Top(w) = watch[w].cursor /\ Top(w)' = watch'[w].cursor
  BY <1>1, ReceiveEffect DEF Seen, LastSeen, Announcing, Known, Reading, Top, At
<1>8. QueueInv(w)'
  <2>1. "overtaken" \notin excuse[w] =>
          \A i, j \in DOMAIN rest : i < j => rest[i] < rest[j]
    <3> SUFFICES ASSUME "overtaken" \notin excuse[w], NEW i \in DOMAIN rest, NEW j \in DOMAIN rest, i < j
                 PROVE  rest[i] < rest[j]
      OBVIOUS
    <3>1. i \in Nat /\ j \in Nat
      BY <1>4
    <3>2. i + 1 < j + 1
      BY <3>1
    <3> QED
      BY <1>1, <1>4, <3>2 DEF QueueInv
  <2> QED
    BY <1>1, <1>4, <1>5, <1>7, <2>1, ReceiveEffect DEF QueueInv
<1>9. OrderInv(w)'
  <2> SUFFICES ASSUME "straddled" \notin excuse[w] PROVE OrderInv(w)'
    BY <1>1, ReceiveEffect DEF OrderInv
  <2>1. /\ \A i, j \in DOMAIN client[w].got : i < j => client[w].got[i] < client[w].got[j]
        /\ \A k \in Seen(w) : EventOf(Known(w), k)
        /\ LastSeen(w) <= watch[w].cursor
        /\ client[w].old
    BY <1>1, <1>4, <1>7 DEF OrderInv
  <2>2. EventOf(Known(w), n)
    BY <1>1, <1>4, <1>5, <2>1 DEF QueueInv, EventOf, Known, TypeOK
  <2>3. LastSeen(w) \in 0..Len(log) /\ watch[w].cursor \in 0..Len(log)
    BY <1>1, Bounds DEF TypeOK
  <2>4. CASE n <= watch[w].cursor
    <3>1. watch' = watch
      BY <1>1, <2>4, ReceiveEffect DEF n
    <3> QED
      BY <1>1, <1>7, <2>1, <3>1, ReceiveEffect DEF OrderInv, At
  <2>5. CASE ~(n <= watch[w].cursor)
    <3>1. watch'[w].cursor = n /\ watch'[w].todo = {n} /\ watch'[w].pc = "stream"
      BY <1>1, <2>5, ReceiveEffect DEF n
    <3>2. LastSeen(w) < n /\ LastSeen(w) <= n /\ n <= n
      BY <1>5, <2>1, <2>3, <2>5
    <3> QED
      BY <1>1, <1>7, <2>1, <2>2, <3>1, <3>2, ReceiveEffect DEF OrderInv, At
  <2> QED
    BY <2>4, <2>5
<1>10. CoverInv(w)'
  <2> SUFFICES ASSUME excuse[w] = {} PROVE CoverInv(w)'
    BY <1>1, ReceiveEffect DEF CoverInv
  <2>1. /\ \A k \in 1..LastSeen(w) : IsEvent(Known(w)[k]) => k \in Seen(w)
        /\ \A k \in DOMAIN Known(w) : IsEvent(Known(w)[k]) => Covered(w, k)
        /\ watch[w].todo = {} /\ watch[w].cursor \in 0..Len(log)
    BY <1>1, <1>7, ReceiveEffect DEF CoverInv, TypeOK
  <2>2. CASE n <= watch[w].cursor
    <3>1. watch' = watch
      BY <1>1, <2>2, ReceiveEffect DEF n
    <3>2. ASSUME NEW k, Covered(w, k) PROVE Covered(w, k)'
      <4>1. n \notin Queued(w)' => (k \in Queued(w) => k \in Queued(w)' \/ k = n)
        BY <1>5
      <4>2. k <= Top(w) => Covered(w, k)'
        BY <1>7, <3>1, <3>2, <4>1 DEF Covered
      <4>3. ~(k <= Top(w)) => k # n /\ (k \in Queued(w) => k \in Queued(w)')
        BY <1>5, <1>7, <2>2
      <4> QED
        BY <1>1, <1>7, <3>1, <3>2, <4>2, <4>3, ReceiveEffect DEF Covered
    <3> QED
      BY <1>7, <2>1, <3>2 DEF CoverInv
  <2>3. CASE ~(n <= watch[w].cursor)
    <3>1. watch'[w].cursor = n /\ watch'[w].todo = {n}
      BY <1>1, <2>3, ReceiveEffect DEF n
    <3>2. \A s \in Announcing(w) : n < step[s].event
      BY <1>1, <1>5, <2>3 DEF QueueInv
    <3>3. ASSUME NEW k \in DOMAIN Known(w), Covered(w, k) PROVE Covered(w, k)'
      <4>0. k \in Nat
        BY <1>1 DEF TypeOK, Known
      <4>1. CASE k <= watch[w].cursor
        <5>1. k \in Seen(w) /\ k <= n
          BY <1>5, <1>7, <2>1, <2>3, <3>3, <4>0, <4>1 DEF Covered
        <5> QED
          BY <1>7, <3>1, <5>1 DEF Covered
      <4>2. CASE k = n
        BY <1>5, <1>7, <3>1, <4>2 DEF Covered
      <4>3. CASE ~(k <= watch[w].cursor) /\ k # n
        <5>1. k \in Queued(w)' \/ \E s \in Announcing(w) : k = step[s].event
          BY <1>5, <1>7, <3>3, <4>3 DEF Covered
        <5>2. n < k
          BY <1>6, <3>2, <5>1
        <5>3. ~(k <= n)
          BY <1>5, <4>0, <5>2
        <5> QED
          BY <1>1, <1>7, <3>1, <5>1, <5>3, ReceiveEffect DEF Covered
      <4> QED
        BY <4>1, <4>2, <4>3
    <3> QED
      BY <1>7, <2>1, <3>3 DEF CoverInv
  <2> QED
    BY <2>2, <2>3
<1> QED
  BY <1>1, <1>2, <1>3, <1>8, <1>9, <1>10, UndisturbedKeeps, ReceiveEffect DEF IInv

-----------------------------------------------------------------------------
\* The invariant

LEMMA InitHolds == Init => IInv
<1> SUFFICES ASSUME Init PROVE IInv
  OBVIOUS
<1> USE DEF Init
<1>1. Len(log) = 0 /\ journal \in Seq(Frame) /\ <<>> \in Seq(1..0)
  OBVIOUS
<1>2. TypeOK
  <2>1. NewStep \in StepRec /\ NewWatch \in WatchRec /\ NewClient \in ClientRec
    BY <1>1 DEF NewStep, StepRec, Phase, Fanning, NewWatch, WatchRec, WatchPc, NewClient, ClientRec
  <2>2. step \in [Steps -> StepRec] /\ watch \in [Watchers -> WatchRec] /\ client \in [Watchers -> ClientRec]
    BY <2>1
  <2>3. 0 \in 0..MaxWatches /\ Len(<<>>) <= Buffer
    BY WatchBounds
  <2>4. notify \in [Watchers -> Seq(1..Len(log))] /\ \A w \in Watchers : Len(notify[w]) <= Buffer
    BY <1>1, <2>3
  <2>5. chs \in [Sets -> SUBSET Watchers] /\ calls \in 0..MaxWatches
        /\ excuse \in [Watchers -> SUBSET {"dropped", "overtaken", "straddled", "unlinked"}]
    BY <2>3
  <2>6. rewritten \in BOOLEAN
    OBVIOUS
  <2>8. generation \in 0..1 /\ watchers \in Sets \cup {None}
    OBVIOUS
  <2>7. journal \in Seq(Frame) /\ log \in Seq(Frame)
    BY <1>1
  <2> HIDE DEF Init
  <2> QED
    BY <2>2, <2>4, <2>5, <2>6, <2>7, <2>8 DEF TypeOK, StepRec, WatchRec, ClientRec
<1>3. NoticeInv
  BY <1>1 DEF NoticeInv, NewStep, NewClient
<1>4. ASSUME NEW w \in Watchers PROVE QueueInv(w) /\ OrderInv(w) /\ CoverInv(w)
  <2>1. /\ notify[w] = <<>> /\ client[w].got = <<>> /\ watch[w].pc = "idle"
        /\ Queued(w) = {} /\ Seen(w) = {} /\ LastSeen(w) = 0 /\ ~Reading(w)
    BY DEF NewClient, NewWatch, Queued, Seen, LastSeen, LastOr, Reading
  <2> QED
    BY <2>1 DEF QueueInv, OrderInv, CoverInv
<1> QED
  BY <1>2, <1>3, <1>4 DEF IInv

LEMMA StepKeeps == IInv /\ [Next]_vars => IInv'
<1> SUFFICES ASSUME IInv, [Next]_vars PROVE IInv'
  OBVIOUS
<1>1. TypeOK /\ NoticeInv
  BY DEF IInv
<1>2. ASSUME NEW s \in Steps, AppendStep(s) \/ AppendSignal(s) PROVE IInv'
  <2>1. PICK frame \in Frame : Grows(s, frame)
    BY <1>1, <1>2, AppendStepGrows, AppendSignalGrows
  <2>2. Len(log) < MaxFrames
    BY <1>2 DEF AppendStep, AppendSignal
  <2> QED
    BY <2>1, <2>2, GrowsKeeps
<1>3. ASSUME NEW s \in Steps, FanOut(s) PROVE IInv'
  BY <1>3, CopyKeeps, OfferKeeps DEF FanOut
<1>4. CASE Compact \/ RaiseGeneration
  BY <1>4, CompactKeeps, RaiseKeeps
<1>5. ASSUME NEW w \in Watchers, Watch(w) \/ Send(w) PROVE IInv'
  BY <1>5, WatchKeeps, SendKeeps
<1>6. ASSUME NEW w \in Watchers, ReadFails(w) \/ Cancel(w) PROVE IInv'
  BY <1>1, <1>6, ReadFailsDrifts, CancelDrifts, DriftsKeep
<1>7. ASSUME NEW w \in Watchers, Serve(w) PROVE IInv'
  <2>1. CASE ReadFrames(w) \/ ReadGeneration(w) \/ Receive(w)
    BY <2>1, ReadFramesKeeps, ReadGenerationKeeps, ReceiveKeeps
  <2>2. CASE AddSet(w) \/ Join(w) \/ Stop(w) \/ LoadOwnSet(w) \/ Leave(w) \/ DropSet(w)
    <3>1. Drifts(w)
      BY <1>1, <2>2, AddSetDrifts, JoinDrifts, StopDrifts, LoadOwnSetDrifts, LeaveDrifts, DropSetDrifts
    <3> QED
      BY <3>1, DriftsKeep
  <2> QED
    BY <1>7, <2>1, <2>2 DEF Serve
<1>8. CASE UNCHANGED vars
  <2>1. TypeOK' /\ NoticeInv'
    BY <1>1, <1>8 DEF vars, TypeOK, NoticeInv
  <2>2. ASSUME NEW x \in Watchers PROVE Undisturbed(x)
    BY <1>8 DEF vars, Undisturbed, Known, Announcing
  <2> QED
    BY <2>1, <2>2, UndisturbedKeeps DEF IInv
<1> QED
  BY <1>2, <1>3, <1>4, <1>5, <1>6, <1>7, <1>8 DEF Next

LEMMA InvAlways == Spec => []IInv
BY InitHolds, StepKeeps, PTL DEF Spec

-----------------------------------------------------------------------------
\* Theorems

\* A watcher's channel never holds more than its buffer, and what it holds, what a
\* watch has to send and what a client has seen are offsets that appends returned.
THEOREM OffsetsAreOfAppends == Spec => []TypeOK
<1>1. IInv => TypeOK
  BY DEF IInv
<1> QED
  BY <1>1, InvAlways, PTL

\* WatchSteps and sendStepWatch: a client hears of an event from the journal and
\* from its step, and yet sees events in the order of their offsets, none twice,
\* however often it reconnects.
THEOREM EventsComeInOrder == Spec => []InOrder
<1>1. IInv => InOrder
  BY DEF IInv, OrderInv, InOrder
<1> QED
  BY <1>1, InvAlways, PTL

\* Up to the last event a client saw it has seen them all, unless one was dropped
\* for a full buffer, announced after a later one, lost with an unlinked set, or
\* read across a compaction.
THEOREM NothingIsLeftOut == Spec => []NoGap
<1>1. IInv => NoGap
  BY DEF IInv, CoverInv, NoGap, LastSeen
<1> QED
  BY <1>1, InvAlways, PTL

\* A watch at rest, with no step announcing anything, has sent every event of the
\* journal: none is stranded between loadStepEvents and notifyStepWatchers.
THEOREM WatchCatchesUp == Spec => []CaughtUp
<1>1. IInv => CaughtUp
  <2> SUFFICES ASSUME IInv, NEW w \in Watchers, At(w, "stream"), watch[w].todo = {},
                      notify[w] = <<>>, excuse[w] = {}, \A s \in Steps : step[s].fan = "no",
                      NEW n \in DOMAIN Known(w), IsEvent(Known(w)[n])
               PROVE  n \in Seen(w)
    BY DEF CaughtUp
  <2>1. Covered(w, n)
    BY DEF IInv, CoverInv, Reading, At
  <2>2. Queued(w) = {} /\ Announcing(w) = {}
    BY DEF Queued, Announcing
  <2> QED
    BY <2>1, <2>2 DEF Covered
<1> QED
  BY <1>1, InvAlways, PTL
=============================================================================
