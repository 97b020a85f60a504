------------------------ MODULE ThreeStateVersioned ------------------------
(***************************************************************************)
(* Crash safety (MapSpec/ThreeStateVersioned over MapSpec): a client sees  *)
(* the newest of three versions of the map.  A crash goes back to the      *)
(* oldest, and a sync returns only when the version it is waiting for, or  *)
(* a newer one, has become the oldest.                                     *)
(***************************************************************************)
EXTENDS SyncStatus

CONSTANTS Key, Value, EmptyValue, SyncId

VARIABLES
  s1,     \* persistent
  s2,     \* frozen
  s3,     \* ephemeral: what queries answer from
  outstandingSyncReqs

vars == <<s1, s2, s3, outstandingSyncReqs>>

SM == INSTANCE MapSpec WITH view <- s3

Init ==
  /\ SM!Init
  /\ s1 = s3 /\ s2 = s3
  /\ outstandingSyncReqs = <<>>

Crash ==
  /\ s2' = s1 /\ s3' = s1
  /\ outstandingSyncReqs' = <<>>
  /\ UNCHANGED s1

Move1to2 ==
  /\ s1' = s2
  /\ outstandingSyncReqs' = SyncReqs2to1(outstandingSyncReqs)
  /\ UNCHANGED <<s2, s3>>

Move2to3 ==
  /\ s2' = s3
  /\ outstandingSyncReqs' = SyncReqs3to2(outstandingSyncReqs)
  /\ UNCHANGED <<s1, s3>>

Move3 ==
  /\ SM!Next
  /\ UNCHANGED <<s1, s2, outstandingSyncReqs>>

PushSync(id) ==
  /\ id \notin DOMAIN outstandingSyncReqs
  /\ outstandingSyncReqs' = PushReq(outstandingSyncReqs, id)
  /\ UNCHANGED <<s1, s2, s3>>

PopSync(id) ==
  /\ id \in DOMAIN outstandingSyncReqs
  /\ outstandingSyncReqs[id] = "State1"
  /\ outstandingSyncReqs' = PopReq(outstandingSyncReqs, id)
  /\ UNCHANGED <<s1, s2, s3>>

Next ==
  \/ Crash \/ Move1to2 \/ Move2to3 \/ Move3
  \/ \E id \in SyncId : PushSync(id) \/ PopSync(id)

Spec == Init /\ [][Next]_vars
=============================================================================
