------------------------------ MODULE StepWatch ------------------------------
(***************************************************************************)
(* WatchSteps (task.go): the fan-out of one run's step events to watchers. *)
(*                                                                         *)
(*   - a step goroutine appends a frame to the journal (appendStep) and    *)
(*     then, no lock held, offers the event to every watcher it finds;     *)
(*   - CompleteStep appends signal frames, which take an offset and are    *)
(*     no events;                                                          *)
(*   - a watcher joins the run's stepWatchSet, reads the journal from the  *)
(*     start, sends what lies behind its cursor, then what arrives;        *)
(*   - compactJournal, at the run's end, rewrites the journal and after    *)
(*     that raises its generation.                                         *)
(*                                                                         *)
(* Offsets are positions in the journal. A frame has one size here, so its *)
(* ByteOffset is its Offset. A stepWatchSet that nothing refers to is      *)
(* garbage and its name is used again.                                     *)
(*                                                                         *)
(* The client is the one the documentation describes: it comes back with   *)
(* the last offset it saw while TaskInfo.JournalGeneration is the one the  *)
(* event carried, and from 0 otherwise.                                    *)
(***************************************************************************)
EXTENDS Naturals, Sequences, SequencesExt

CONSTANTS Steps,       \* steps the task runs, each in a goroutine
          Suspending,  \* those whose fn may return ErrStepPending
          Watchers,    \* clients, each with one watch at a time
          Sets,        \* names of stepWatchSet objects
          None,
          Buffer,      \* capacity of a watcher's notify channel (watchStepsBuf)
          MaxWatches,  \* WatchSteps calls
          MaxFrames    \* appends to the journal

ASSUME SomeSuspend == Suspending \subseteq Steps
ASSUME NoneIsNoSet == None \notin Sets
ASSUME WatchBounds == Buffer \in Nat \ {0} /\ MaxWatches \in Nat /\ MaxFrames \in Nat

VARIABLES
  journal,     \* frames of journal.log
  rewritten,   \* journal.log is the compacted one
  generation,  \* meta.json: JournalGeneration
  watchers,    \* Engine.watchers: the run's stepWatchSet, or None
  chs,         \* its channels, of every set object
  notify,      \* each watcher's notify channel: offsets of events
  step,        \* each step goroutine: its place, and the event it fans out
  watch,       \* each WatchSteps call
  client,      \* what each client has seen
  calls,       \* number of WatchSteps calls
  log,         \* history: every frame in the order of the appends
  excuse       \* history: what may excuse a gap in what a client saw

vars == <<journal, rewritten, generation, watchers, chs, notify, step, watch, client,
          calls, log, excuse>>

Kind == {"started", "waiting", "outcome", "signal"}
Frame == [kind : Kind, step : Steps]
Phase == {"idle", "running", "suspended", "resumed", "done"}
Fanning == {"no", "load", "send"}
WatchPc == {"idle", "add", "join", "read", "meta", "stream", "load", "leave", "drop"}

\* phase: the step's own progress; fan, event, to: notifyStepWatchers
NewStep == [phase |-> "idle", fan |-> "no", event |-> 0, to |-> {}]
\* from: the offset asked for; todo: events to send, in the order of their offsets;
\* gen: the Generation they carry
NewWatch == [pc |-> "idle", set |-> None, from |-> 0, cursor |-> 0, todo |-> {},
             gen |-> 0, cancelled |-> FALSE]
\* got: offsets received; gen: Generation of the last; old: they are offsets of
\* the journal before compaction
NewClient == [got |-> <<>>, gen |-> 0, old |-> TRUE]

TypeOK ==
  /\ journal \in Seq(Frame) /\ log \in Seq(Frame)
  /\ rewritten \in BOOLEAN
  /\ generation \in 0..1
  /\ watchers \in Sets \cup {None}
  /\ chs \in [Sets -> SUBSET Watchers]
  /\ notify \in [Watchers -> Seq(1..Len(log))]
  /\ \A w \in Watchers : Len(notify[w]) <= Buffer
  /\ step \in [Steps -> [phase : Phase, fan : Fanning, event : 0..Len(log),
                         to : SUBSET Watchers]]
  /\ watch \in [Watchers -> [pc : WatchPc, set : Sets \cup {None}, from : 0..Len(log),
                             cursor : 0..Len(log), todo : SUBSET (1..Len(log)), gen : 0..1,
                             cancelled : BOOLEAN]]
  /\ client \in [Watchers -> [got : Seq(1..Len(log)), gen : 0..1, old : BOOLEAN]]
  /\ calls \in 0..MaxWatches
  /\ excuse \in [Watchers -> SUBSET {"dropped", "overtaken", "straddled", "unlinked"}]

Init ==
  /\ journal = <<>> /\ log = <<>>
  /\ rewritten = FALSE
  /\ generation = 0
  /\ watchers = None
  /\ chs = [o \in Sets |-> {}]
  /\ notify = [w \in Watchers |-> <<>>]
  /\ step = [s \in Steps |-> NewStep]
  /\ watch = [w \in Watchers |-> NewWatch]
  /\ client = [w \in Watchers |-> NewClient]
  /\ calls = 0
  /\ excuse = [w \in Watchers |-> {}]

files == <<journal, rewritten, generation, log, calls>>
table == <<watchers, chs>>

-----------------------------------------------------------------------------
\* Appending and notifying

\* What a step may append next, and where that leaves it. The STARTED record is
\* best-effort (persistStarted): a step may go on without it.
Stage(s) ==
  LET outcome == <<"outcome", "done">>
      ran     == {outcome} \cup (IF s \in Suspending THEN {<<"waiting", "suspended">>} ELSE {})
  IN  CASE step[s].phase = "idle" -> ran \cup {<<"started", "running">>}
        [] step[s].phase = "running" -> ran
        [] step[s].phase = "resumed" -> {outcome}
        [] OTHER -> {}

Write(frame) == /\ journal' = Append(journal, frame)
                /\ log' = Append(log, frame)

\* As it would be if only the outcome of a step were announced.
AppendQuietly(s) ==
  /\ step[s].fan = "no" /\ Len(log) < MaxFrames /\ ~rewritten
  /\ \E stage \in Stage(s) :
       /\ Write([kind |-> stage[1], step |-> s])
       /\ step' = [step EXCEPT ![s].phase = stage[2],
                               ![s].fan = IF stage[1] = "outcome" THEN "load" ELSE "no",
                               ![s].event = Len(journal) + 1]
  /\ UNCHANGED <<rewritten, generation, calls, table, notify, watch, client, excuse>>

\* appendStep: the frame is in the journal; the notification is still to come.
AppendStep(s) ==
  /\ step[s].fan = "no" /\ Len(log) < MaxFrames /\ ~rewritten
  /\ \E stage \in Stage(s) :
       /\ Write([kind |-> stage[1], step |-> s])
       /\ step' = [step EXCEPT ![s].phase = stage[2], ![s].fan = "load",
                               ![s].event = Len(journal) + 1]
  /\ UNCHANGED <<rewritten, generation, calls, table, notify, watch, client, excuse>>

\* CompleteStep for a suspended step: appendSignal notifies nobody.
AppendSignal(s) ==
  /\ step[s].phase = "suspended" /\ Len(log) < MaxFrames /\ ~rewritten
  /\ Write([kind |-> "signal", step |-> s])
  /\ step' = [step EXCEPT ![s].phase = "resumed"]
  /\ UNCHANGED <<rewritten, generation, calls, table, notify, watch, client, excuse>>

\* w's watch is in the set that a step would find.
Linked(w) == watchers # None /\ w \in chs[watchers]

Quiet(s) == [step EXCEPT ![s].fan = "no", ![s].event = 0]

\* notifyStepWatchers loads the set and copies its channels. The two are one step:
\* whoever joins or leaves the loaded set in between does so before the copy, and
\* whoever joins a newer set finds the event in the journal.
CopyChannels(s) ==
  /\ step[s].fan = "load"
  /\ LET to == IF watchers = None THEN {} ELSE chs[watchers] IN
     step' = IF to = {} THEN Quiet(s) ELSE [step EXCEPT ![s].fan = "send", ![s].to = to]
  /\ excuse' = [w \in Watchers |-> excuse[w] \cup
                  IF watch[w].pc \in {"read", "meta", "stream"} /\ ~Linked(w) THEN {"unlinked"} ELSE {}]
  /\ UNCHANGED <<files, table, notify, watch, client>>

\* An earlier event is still on its way to w.
Overtaking(s, w) ==
  \E t \in Steps : /\ step[t].fan # "no" /\ step[t].event < step[s].event
                   /\ step[t].fan = "send" => w \in step[t].to

\* As it would be if the channel grew instead of losing the event.
OfferAlways(s, w) ==
  /\ step[s].fan = "send" /\ w \in step[s].to
  /\ step' = [(IF step[s].to = {w} THEN Quiet(s) ELSE step) EXCEPT ![s].to = @ \ {w}]
  /\ notify' = [notify EXCEPT ![w] = Append(@, step[s].event)]
  /\ UNCHANGED <<files, table, watch, client, excuse>>

\* The send of a select with a default: a full buffer loses the event.
Offer(s, w) ==
  /\ step[s].fan = "send" /\ w \in step[s].to
  /\ step' = [(IF step[s].to = {w} THEN Quiet(s) ELSE step) EXCEPT ![s].to = @ \ {w}]
  /\ IF Len(notify[w]) < Buffer
     THEN notify' = [notify EXCEPT ![w] = Append(@, step[s].event)]
     ELSE UNCHANGED notify
  /\ excuse' = [excuse EXCEPT ![w] = @ \cup (IF Len(notify[w]) < Buffer THEN {} ELSE {"dropped"})
                                       \cup (IF Overtaking(s, w) THEN {"overtaken"} ELSE {})]
  /\ UNCHANGED <<files, table, watch, client>>

-----------------------------------------------------------------------------
\* Compaction

Latest(s) == {i \in DOMAIN journal : /\ journal[i].step = s
                                     /\ journal[i].kind \in {"waiting", "outcome"}
                                     /\ \A j \in i+1..Len(journal) :
                                          journal[j].step = s => journal[j].kind \in {"started", "signal"}}
Signals == {i \in DOMAIN journal : journal[i].kind = "signal"}

\* compactJournal, after waitInFlight: the latest record of each step in any
\* order, then the signals in theirs. A step without an outcome was not called, gave
\* up its wait, or could not append, which leaves no frame and notifies nobody.
Compact ==
  /\ ~rewritten /\ \A s \in Steps : step[s].fan = "no"
  /\ \E order \in SetToSeqs(Signals \cup UNION {Latest(s) : s \in Steps}) :
       /\ \A a, b \in DOMAIN order :
            a < b /\ order[a] \in Signals => order[b] \in Signals /\ order[a] < order[b]
       /\ journal' = [i \in DOMAIN order |-> journal[order[i]]]
  /\ rewritten' = TRUE
  /\ UNCHANGED <<generation, log, calls, table, notify, step, watch, client, excuse>>

RaiseGeneration ==
  /\ rewritten /\ generation = 0
  /\ generation' = 1
  /\ UNCHANGED <<journal, rewritten, log, calls, table, notify, step, watch, client, excuse>>

-----------------------------------------------------------------------------
\* A watch

At(w, pc) == watch[w].pc = pc
LastOr(seq, default) == IF seq = <<>> THEN default ELSE Last(seq)
MaxOr(S, default) == IF S = {} THEN default ELSE Max(S)

\* The client calls WatchSteps, from its last offset or from the start. The call
\* makes a new notify channel; what a step still sends to the one of an earlier
\* watch, nobody receives.
Watch(w) ==
  /\ At(w, "idle") /\ calls < MaxWatches
  /\ calls' = calls + 1
  /\ \/ /\ client[w].got # <<>> /\ client[w].gen = generation
        /\ watch' = [watch EXCEPT ![w] = [NewWatch EXCEPT !.pc = "add", !.from = LastOr(client[w].got, 0)]]
        /\ UNCHANGED <<client, excuse>>
     \/ /\ watch' = [watch EXCEPT ![w] = [NewWatch EXCEPT !.pc = "add"]]
        /\ client' = [client EXCEPT ![w] = NewClient]
        /\ excuse' = [excuse EXCEPT ![w] = {}]
  /\ notify' = [notify EXCEPT ![w] = <<>>]
  /\ chs' = [o \in Sets |-> chs[o] \ {w}]
  /\ step' = [s \in Steps |-> [step[s] EXCEPT
                !.to = @ \ {w}, !.fan = IF step[s].to = {w} THEN "no" ELSE @,
                !.event = IF step[s].to = {w} THEN 0 ELSE @]]
  /\ UNCHANGED <<journal, rewritten, generation, log, watchers>>

Garbage(o) == /\ o # watchers
              /\ \A w \in Watchers : watch[w].set # o

\* addStepWatcher: LoadOrStore, then join under the set's mutex.
AddSet(w) ==
  /\ At(w, "add")
  /\ \/ /\ watchers # None
        /\ watch' = [watch EXCEPT ![w].pc = "join", ![w].set = watchers]
        /\ UNCHANGED table
     \/ /\ watchers = None
        /\ \E o \in Sets : Garbage(o)
        /\ LET o == CHOOSE o \in Sets : Garbage(o) IN
           /\ watchers' = o
           /\ chs' = [chs EXCEPT ![o] = {}]
           /\ watch' = [watch EXCEPT ![w].pc = "join", ![w].set = o]
  /\ UNCHANGED <<files, notify, step, client, excuse>>

Join(w) ==
  /\ At(w, "join")
  /\ chs' = [chs EXCEPT ![watch[w].set] = @ \cup {w}]
  /\ watch' = [watch EXCEPT ![w].pc = "read", ![w].set = None]
  /\ UNCHANGED <<files, watchers, notify, step, client, excuse>>

IsEvent(frame) == frame.kind # "signal"

\* The offsets loadStepEvents reports: signals count and are left out.
StepEvents == {i \in DOMAIN journal : IsEvent(journal[i])}

\* As it would be if a byte offset counted as seen with the event after it.
StartNext(from, bytes, events) ==
  IF bytes THEN MaxOr({n \in events : n <= from + 1}, 0) ELSE from

\* watchStartOffset
StartOffset(from, bytes, events) ==
  IF bytes THEN MaxOr({n \in events : n <= from}, 0) ELSE from

\* loadStepEvents first reads the frames. The cursor is settled with them. An
\* offset, or an event waiting in the channel, may be of the journal before
\* compaction while the frames are of the one after.
ReadFrames(w) ==
  /\ At(w, "read")
  /\ \E bytes \in {b \in BOOLEAN : b => watch[w].from > 0} :
       LET cursor == StartOffset(watch[w].from, bytes, StepEvents)
       IN  watch' = [watch EXCEPT ![w].pc = "meta", ![w].from = 0, ![w].cursor = cursor,
                                  ![w].todo = {n \in StepEvents : n > cursor}]
  /\ excuse' = [excuse EXCEPT ![w] =
                  @ \cup IF \/ (watch[w].from > 0 /\ client[w].old = rewritten)
                           \/ (rewritten /\ notify[w] # <<>>)
                        THEN {"straddled"} ELSE {}]
  /\ client' = [client EXCEPT ![w].old = ~rewritten]
  /\ UNCHANGED <<files, table, notify, step>>

\* Then the generation, which becomes that of every event read.
ReadGeneration(w) ==
  /\ At(w, "meta")
  /\ watch' = [watch EXCEPT ![w].pc = "stream", ![w].gen = generation,
                            ![w].cursor = MaxOr(watch[w].todo, @)]
  /\ excuse' = [excuse EXCEPT ![w] =
                  @ \cup IF client[w].old /\ generation = 1 THEN {"straddled"} ELSE {}]
  /\ UNCHANGED <<files, table, notify, step, client>>

\* One of the two reads fails: WatchSteps returns the error.
ReadFails(w) ==
  /\ At(w, "read") \/ At(w, "meta")
  /\ watch' = [watch EXCEPT ![w].pc = "load", ![w].todo = {}]
  /\ UNCHANGED <<files, table, notify, step, client, excuse>>

\* sendStepWatch: the client takes the next event, or the buffer of its channel
\* does, which the client can read also after the watch has ended.
Send(w) ==
  /\ At(w, "stream") /\ watch[w].todo # {}
  /\ client' = [client EXCEPT ![w].got = Append(@, Min(watch[w].todo)),
                              ![w].gen = watch[w].gen]
  /\ watch' = [watch EXCEPT ![w].todo = @ \ {Min(@)}]
  /\ UNCHANGED <<files, table, notify, step, excuse>>

\* As it would be without the comparison with the cursor.
ReceiveAll(w) ==
  /\ At(w, "stream") /\ watch[w].todo = {} /\ notify[w] # <<>>
  /\ watch' = [watch EXCEPT ![w].cursor = Head(notify[w]), ![w].todo = {Head(notify[w])}, ![w].gen = 0]
  /\ notify' = [notify EXCEPT ![w] = Tail(@)]
  /\ UNCHANGED <<files, table, step, client, excuse>>

\* A live event: skipped when the cursor is past it. Its Generation is 0, whatever
\* meta.json says.
Receive(w) ==
  /\ At(w, "stream") /\ watch[w].todo = {} /\ notify[w] # <<>>
  /\ LET n == Head(notify[w]) IN
     watch' = IF n <= watch[w].cursor THEN watch
              ELSE [watch EXCEPT ![w].cursor = n, ![w].todo = {n}, ![w].gen = 0]
  /\ notify' = [notify EXCEPT ![w] = Tail(@)]
  /\ UNCHANGED <<files, table, step, client, excuse>>

\* The client cancels its ctx, or the engine is closed. Until the watch streams
\* nobody would look.
Cancel(w) ==
  /\ At(w, "stream") /\ ~watch[w].cancelled
  /\ watch' = [watch EXCEPT ![w].cancelled = TRUE]
  /\ UNCHANGED <<files, table, notify, step, client, excuse>>

\* As it would be if only a watch with nothing to send looked at its ctx.
StopWhenIdle(w) ==
  /\ At(w, "stream") /\ watch[w].cancelled /\ watch[w].todo = {}
  /\ watch' = [watch EXCEPT ![w].pc = "load"]
  /\ UNCHANGED <<files, table, notify, step, client, excuse>>

\* Noticed while it waits for an event, and while it waits for the client.
Stop(w) ==
  /\ At(w, "stream") /\ watch[w].cancelled
  /\ watch' = [watch EXCEPT ![w].pc = "load", ![w].todo = {}]
  /\ UNCHANGED <<files, table, notify, step, client, excuse>>

\* removeStepWatcher: load the set by key, leave it, delete the key if it was the
\* last.
LoadOwnSet(w) ==
  /\ At(w, "load")
  /\ watch' = [watch EXCEPT ![w] = IF watchers = None THEN NewWatch
                                   ELSE [@ EXCEPT !.pc = "leave", !.set = watchers]]
  /\ UNCHANGED <<files, table, notify, step, client, excuse>>

Leave(w) ==
  /\ At(w, "leave")
  /\ chs' = [chs EXCEPT ![watch[w].set] = @ \ {w}]
  /\ watch' = [watch EXCEPT ![w] = IF chs[@.set] \subseteq {w} THEN [@ EXCEPT !.pc = "drop"]
                                   ELSE NewWatch]
  /\ UNCHANGED <<files, watchers, notify, step, client, excuse>>

DropSet(w) ==
  /\ At(w, "drop")
  /\ watchers' = None
  /\ watch' = [watch EXCEPT ![w] = NewWatch]
  /\ UNCHANGED <<files, chs, notify, step, client, excuse>>

-----------------------------------------------------------------------------
FanOut(s) == CopyChannels(s) \/ \E w \in Watchers : Offer(s, w)

Serve(w) == \/ AddSet(w) \/ Join(w) \/ ReadFrames(w) \/ ReadGeneration(w)
            \/ Receive(w) \/ Stop(w) \/ LoadOwnSet(w) \/ Leave(w) \/ DropSet(w)

Next ==
  \/ \E s \in Steps : \/ AppendStep(s) \/ AppendSignal(s) \/ FanOut(s)
  \/ Compact \/ RaiseGeneration
  \/ \E w \in Watchers : Watch(w) \/ ReadFails(w) \/ Send(w) \/ Cancel(w) \/ Serve(w)

Spec == Init /\ [][Next]_vars

\* Goroutines that are not blocked run. A watch whose ctx is done ends although
\* events keep coming: select chooses among the ready cases at random. Nothing is
\* assumed of the clients.
Fairness ==
  /\ \A s \in Steps : WF_vars(FanOut(s))
  /\ \A w \in Watchers : WF_vars(Serve(w)) /\ WF_vars(Stop(w))

FairSpec == Spec /\ Fairness

-----------------------------------------------------------------------------
\* Properties

\* The frames that the offsets a client has seen are positions of.
Known(w) == IF client[w].old THEN log ELSE journal
Seen(w) == {client[w].got[i] : i \in DOMAIN client[w].got}

\* task.go:801-802 ("Already-written events after that point are sent first, then
\* each new event as it is persisted"), over reconnections too: up to the last
\* event it saw, a client has seen them all, as long as its buffer held, no event
\* was announced ahead of an earlier one, its set was not unlinked under it, and
\* compaction did not fall between its reads of frames and generation.
NoGap ==
  \A w \in Watchers : excuse[w] = {} =>
    \A n \in 1..LastOr(client[w].got, 0) :
      IsEvent(Known(w)[n]) => n \in Seen(w)

\* Events come in journal order and none twice, though a watcher hears of an
\* event both from the journal and from its step.
InOrder ==
  \A w \in Watchers : "straddled" \notin excuse[w] =>
    \A i, j \in DOMAIN client[w].got : i < j => client[w].got[i] < client[w].got[j]

\* Once the steps have fanned out and the watch has nothing more to read or send,
\* its client has seen every event of the journal, unless it is excused.
CaughtUp ==
  \A w \in Watchers :
    /\ At(w, "stream") /\ watch[w].todo = {} /\ notify[w] = <<>> /\ excuse[w] = {}
    /\ \A s \in Steps : step[s].fan = "no"
    => \A n \in DOMAIN Known(w) : IsEvent(Known(w)[n]) => n \in Seen(w)

\* task.go:802-803: "The channel closes when ctx is cancelled or the engine
\* closes", also when nobody receives from it.
WatchCloses == \A w \in Watchers : watch[w].cancelled ~> At(w, "idle")
=============================================================================
