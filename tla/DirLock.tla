------------------------------ MODULE DirLock ------------------------------
(***************************************************************************)
(* Who may use a data directory (lock.go; NewEngine, NewReadOnlyEngine and *)
(* Close in engine.go). An opener passes two gates, each in a step of its  *)
(* own, and leaves them in the opposite order:                             *)
(*                                                                         *)
(*   - occupancy: the table of its process, behind occupancyMu;            *)
(*   - the flock on <dataDir>/.lock, which excludes other processes. On    *)
(*     some platforms it is granted twice inside one process, so between   *)
(*     openers of one process nothing is assumed of it here.               *)
(*                                                                         *)
(* A process may be killed at any time: its flocks go with it.             *)
(***************************************************************************)
EXTENDS Naturals, FiniteSets

CONSTANTS Writers,   \* calls of NewEngine and the engines they return
          Readers,   \* calls of NewReadOnlyEngine and theirs
          Processes  \* the set of openers of each process

Openers == Writers \cup Readers

ASSUME WritersAreNotReaders == Writers \cap Readers = {}
ASSUME FiniteOpeners == IsFiniteSet(Openers)
ASSUME EveryOpenerHasAProcess == \A o \in Openers : \E p \in Processes : o \in p
ASSUME ProcessesPartition ==
  /\ \A p \in Processes : p \subseteq Openers
  /\ \A p, q \in Processes : p # q => p \cap q = {}

VARIABLES
  occupancy,  \* of each process: engines and readers it has let in
  flock,      \* openers whose flock is granted
  opener      \* where each opener is

dirVars == <<occupancy, flock, opener>>

OpenerPc == {"closed", "acquire", "probe", "sweep", "open", "closing", "unlock", "vacate"}

DirTypeOK ==
  /\ occupancy \in [Processes -> [writers : Nat, readers : Nat]]
  /\ flock \subseteq Openers
  /\ opener \in [Openers -> OpenerPc]

Vacant == [writers |-> 0, readers |-> 0]

DirInit ==
  /\ occupancy = [p \in Processes |-> Vacant]
  /\ flock = {}
  /\ opener = [o \in Openers |-> "closed"]

ProcessOf(o) == CHOOSE p \in Processes : o \in p
Goes(o, from, to) == opener[o] = from /\ opener' = [opener EXCEPT ![o] = to]

\* occupyExclusive and occupyShared. When they refuse, ErrEngineLocked is returned
\* and nothing changes.
Occupy(o) ==
  LET p == ProcessOf(o) IN
  /\ Goes(o, "closed", "acquire")
  /\ IF o \in Writers
     THEN /\ occupancy[p] = Vacant
          /\ occupancy' = [occupancy EXCEPT ![p].writers = 1]
     ELSE /\ occupancy[p].writers = 0
          /\ occupancy' = [occupancy EXCEPT ![p].readers = @ + 1]
  /\ UNCHANGED flock

\* As it would be if NewEngine asked for a shared lock.
AlwaysShared(o, h) == h \in Readers

Compatible(o, h) == o \in Readers /\ h \in Readers

\* acquireLock: granted in one of its tries.
Acquire(o) ==
  /\ Goes(o, "acquire", IF o \in Writers THEN "probe" ELSE "open")
  /\ \A h \in flock \ ProcessOf(o) : Compatible(o, h)
  /\ flock' = flock \cup {o}
  /\ UNCHANGED occupancy

\* As it would be if an error of acquireLock were returned at once.
GiveUpAtOnce(o) == Goes(o, "acquire", "closed") /\ UNCHANGED <<occupancy, flock>>

\* acquireLock: timed out or cancelled.
GiveUp(o) == Goes(o, "acquire", "vacate") /\ UNCHANGED <<occupancy, flock>>

\* ensureWritable, which may find the directory not writable.
Probe(o) ==
  /\ o \in Writers
  /\ Goes(o, "probe", "sweep") \/ Goes(o, "probe", "unlock")
  /\ UNCHANGED <<occupancy, flock>>

\* sweepTmpFiles and sweepOrphanRunDirs; then NewEngine returns.
Sweep(o) == Goes(o, "sweep", "open") /\ UNCHANGED <<occupancy, flock>>

\* Engine.Close closes stopCh and waits for what runs.
BeginClose(o) == o \in Writers /\ Goes(o, "open", "closing") /\ UNCHANGED <<occupancy, flock>>
EndClose(o) == Goes(o, "closing", "unlock") /\ UNCHANGED <<occupancy, flock>>

\* ReadOnlyEngine.Close
CloseReader(o) == o \in Readers /\ Goes(o, "open", "unlock") /\ UNCHANGED <<occupancy, flock>>

\* releaseLock
Unlock(o) ==
  /\ Goes(o, "unlock", "vacate")
  /\ flock' = flock \ {o}
  /\ UNCHANGED occupancy

\* releaseOccupancy
Vacate(o) ==
  LET p == ProcessOf(o) IN
  /\ Goes(o, "vacate", "closed")
  /\ occupancy' = IF o \in Writers THEN [occupancy EXCEPT ![p].writers = @ - 1]
                  ELSE [occupancy EXCEPT ![p].readers = @ - 1]
  /\ UNCHANGED flock

Kill(p) ==
  /\ \E o \in p : opener[o] # "closed"
  /\ occupancy' = [occupancy EXCEPT ![p] = Vacant]
  /\ flock' = flock \ p
  /\ opener' = [o \in Openers |-> IF o \in p THEN "closed" ELSE opener[o]]

DirStep(o) == \/ Occupy(o) \/ Acquire(o) \/ GiveUp(o) \/ Probe(o)
              \/ CloseReader(o) \/ Unlock(o) \/ Vacate(o)

DirNext ==
  \/ \E o \in Openers : DirStep(o) \/ Sweep(o) \/ BeginClose(o) \/ EndClose(o)
  \/ \E p \in Processes : Kill(p)

DirSpec == DirInit /\ [][DirNext]_dirVars

-----------------------------------------------------------------------------
\* Properties

\* Between the two: it may touch the directory.
Inside(o) == opener[o] \in {"probe", "sweep", "open", "closing", "unlock"}

\* engine.go:239-240 ("Fails with ErrEngineLocked if another Engine or
\* ReadOnlyEngine holds the directory"): an engine is alone with the directory,
\* whichever gate keeps the other out.
Exclusive ==
  \A w \in Writers, o \in Openers : Inside(w) /\ Inside(o) => w = o

\* The table counts the openers of the process that are past it and not back: one
\* release too few would lock the directory up for as long as the process lives,
\* one too many would let a second engine in.
OccupancyCounts ==
  \A p \in Processes :
    /\ occupancy[p].writers = Cardinality({o \in p \cap Writers : opener[o] # "closed"})
    /\ occupancy[p].readers = Cardinality({o \in p \cap Readers : opener[o] # "closed"})
=============================================================================
