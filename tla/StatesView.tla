----------------------------- MODULE StatesView -----------------------------
(***************************************************************************)
(* What the block cache promises (Versions/StatesView): there are up to    *)
(* three states of the tree.  The persistent one and, once written, the    *)
(* frozen one stay as they are on disk at known locations, whatever else   *)
(* happens to the disk; the frozen one is a copy of the ephemeral one at   *)
(* some moment; the ephemeral one changes only by operations of the tree.  *)
(* A crash leaves what is at the known locations.                          *)
(***************************************************************************)
CONSTANTS
  Loc,            \* locations of a whole state on disk
  None,
  SMInit(_),      \* initial states of the tree,
  SMNext(_, _)    \* and its steps

VARIABLES
  disk,             \* [Loc -> a state, or None]
  persistentLoc, frozenLoc,       \* locations or None
  frozenState, ephemeralState     \* states or None

vars == <<disk, persistentLoc, frozenLoc, frozenState, ephemeralState>>

Init ==
  /\ \E loc \in Loc : disk[loc] # None /\ SMInit(disk[loc])
  /\ persistentLoc = None /\ frozenLoc = None
  /\ frozenState = None /\ ephemeralState = None

ObtainPersistentLoc ==
  /\ persistentLoc = None
  /\ \E loc \in Loc :
       /\ disk[loc] # None
       /\ persistentLoc' = loc /\ ephemeralState' = disk[loc]
  /\ UNCHANGED <<disk, frozenLoc, frozenState>>

Advance ==
  /\ ephemeralState # None /\ ephemeralState' # None
  /\ SMNext(ephemeralState, ephemeralState')
  /\ UNCHANGED <<disk, persistentLoc, frozenLoc, frozenState>>

KnownLocs ==
  IF persistentLoc = None THEN {loc \in Loc : disk[loc] # None}
  ELSE {persistentLoc, frozenLoc} \ {None}

DiskChangesPreservesPersistentAndFrozen ==
  \A loc \in KnownLocs : disk[loc] # None /\ disk'[loc] = disk[loc]

Crash ==
  /\ DiskChangesPreservesPersistentAndFrozen
  /\ persistentLoc' = None /\ frozenLoc' = None
  /\ frozenState' = None /\ ephemeralState' = None

Freeze ==
  /\ frozenLoc' = None /\ frozenState' = ephemeralState
  /\ UNCHANGED <<disk, persistentLoc, ephemeralState>>

DiskChange ==
  /\ DiskChangesPreservesPersistentAndFrozen
  /\ UNCHANGED <<persistentLoc, frozenLoc, frozenState, ephemeralState>>

ProvideFrozenLoc ==
  /\ frozenLoc = None /\ frozenState # None
  /\ \E loc \in Loc : frozenLoc' = loc /\ disk[loc] = frozenState
  /\ UNCHANGED <<disk, persistentLoc, frozenState, ephemeralState>>

ForgetOld ==
  /\ persistentLoc' = frozenLoc
  /\ frozenLoc' = None /\ frozenState' = None
  /\ UNCHANGED <<disk, ephemeralState>>

Next ==
  \/ ObtainPersistentLoc \/ Advance \/ Crash \/ Freeze
  \/ DiskChange \/ ProvideFrozenLoc \/ ForgetOld

Spec == Init /\ [][Next]_vars
=============================================================================
