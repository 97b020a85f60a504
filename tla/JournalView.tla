---------------------------- MODULE JournalView ----------------------------
(***************************************************************************)
(* What the journal half of the store promises (Versions/JournalView):     *)
(* the committer, its in-memory journal and the journal region of the disk *)
(* seen as five sequences of entries.                                      *)
(*                                                                         *)
(*   s1 ---j1--->            s1: the map stored at persistentLoc           *)
(*          s2 ---j2--->     s2: the frozen map, stored at frozenLoc once  *)
(*                               the block cache has reported it           *)
(*                 s3 -j3->  s3: the ephemeral map; j3 is left to replay   *)
(*   ----gamma-----> -delta->  gamma leads from s1 to the end of the       *)
(*                             frozen or written journal, delta is newer   *)
(***************************************************************************)
EXTENDS Sequences, SyncStatus

CONSTANTS Entry,      \* journal entries: one insertion of a key and a value
          Loc,        \* where an indirection table (a version of the map) is stored
          SyncId,     \* identifiers of sync requests
          None        \* absent value of an Option<..>

VARIABLES j1, j2, j3, gamma, delta, persistentLoc, frozenLoc, syncReqs

vars == <<j1, j2, j3, gamma, delta, persistentLoc, frozenLoc, syncReqs>>

Init ==
  /\ j1 = <<>> /\ j2 = <<>> /\ j3 = <<>> /\ gamma = <<>> /\ delta = <<>>
  /\ persistentLoc \in Loc
  /\ frozenLoc = None
  /\ syncReqs = <<>>

-----------------------------------------------------------------------------
\* The block cache has stored the frozen map at loc.
ObtainFrozenLoc(loc) ==
  /\ frozenLoc' = loc
  /\ UNCHANGED <<j1, j2, j3, gamma, delta, persistentLoc, syncReqs>>

\* The committer has heard that the frozen map became the persistent one.
CleanUp ==
  /\ frozenLoc = persistentLoc
  /\ frozenLoc' = None
  /\ UNCHANGED <<j1, j2, j3, gamma, delta, persistentLoc, syncReqs>>

\* Only s1 and j1 survive; j1 must be replayed.
Crash ==
  /\ j2' = j1 /\ j3' = j1 /\ gamma' = j1 /\ delta' = <<>>
  /\ frozenLoc' = None
  /\ syncReqs' = <<>>
  /\ UNCHANGED <<j1, persistentLoc>>

\* The frozen map and the journal after it become persistent.
Move1to2 ==
  /\ frozenLoc # None
  /\ j1' = j2 /\ gamma' = j2
  /\ persistentLoc' = frozenLoc
  /\ syncReqs' = SyncReqs2to1(syncReqs)
  /\ UNCHANGED <<j2, j3, delta, frozenLoc>>

\* A mistake: the block cache freezes again before it has been told that what it
\* froze last is now what a crash goes back to.
Move2to3BeforeCleanUp ==
  /\ j2' = j3
  /\ gamma' = gamma \o delta /\ delta' = <<>>
  /\ frozenLoc' = None
  /\ syncReqs' = SyncReqs3to2(syncReqs)
  /\ UNCHANGED <<j1, j3, persistentLoc>>

\* The block cache freezes its ephemeral map.
Move2to3 ==
  /\ frozenLoc # persistentLoc
  /\ j2' = j3
  /\ gamma' = gamma \o delta /\ delta' = <<>>
  /\ frozenLoc' = None
  /\ syncReqs' = SyncReqs3to2(syncReqs)
  /\ UNCHANGED <<j1, j3, persistentLoc>>

\* The journal alone becomes persistent, up to the end of gamma.
ExtendLog1 ==
  /\ j1' = gamma
  /\ syncReqs' = SyncReqs2to1(syncReqs)
  /\ UNCHANGED <<j2, j3, gamma, delta, persistentLoc, frozenLoc>>

\* The in-memory journal joins what the next commit makes persistent.
ExtendLog2 ==
  /\ j2' = j2 \o delta
  /\ gamma' = gamma \o delta /\ delta' = <<>>
  /\ syncReqs' = SyncReqs3to2(syncReqs)
  /\ UNCHANGED <<j1, j3, persistentLoc, frozenLoc>>

\* A new entry, only once nothing is left to replay.
Move3(e) ==
  /\ j3 = <<>>
  /\ delta' = Append(delta, e)
  /\ UNCHANGED <<j1, j2, j3, gamma, persistentLoc, frozenLoc, syncReqs>>

\* One entry replayed in order.
Replay ==
  /\ j3 # <<>>
  /\ j3' = Tail(j3)
  /\ UNCHANGED <<j1, j2, gamma, delta, persistentLoc, frozenLoc, syncReqs>>

PushSync(id) ==
  /\ id \notin DOMAIN syncReqs
  /\ syncReqs' = PushReq(syncReqs, id)
  /\ UNCHANGED <<j1, j2, j3, gamma, delta, persistentLoc, frozenLoc>>

\* A sync returns to its caller only from State1.
PopSync(id) ==
  /\ id \in DOMAIN syncReqs
  /\ syncReqs[id] = "State1"
  /\ syncReqs' = PopReq(syncReqs, id)
  /\ UNCHANGED <<j1, j2, j3, gamma, delta, persistentLoc, frozenLoc>>

Next ==
  \/ \E loc \in Loc : ObtainFrozenLoc(loc)
  \/ CleanUp
  \/ Crash
  \/ Move1to2
  \/ Move2to3
  \/ ExtendLog1
  \/ ExtendLog2
  \/ \E e \in Entry : Move3(e)
  \/ Replay
  \/ \E id \in SyncId : PushSync(id) \/ PopSync(id)

Spec == Init /\ [][Next]_vars
=============================================================================
