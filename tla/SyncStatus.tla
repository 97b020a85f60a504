---------------------------- MODULE SyncStatus ----------------------------
(***************************************************************************)
(* The status of an outstanding sync request and the two bulk upgrades,    *)
(* from Versions' ThreeStateTypes and the loops of CommitterImpl.          *)
(*                                                                         *)
(*   State3  some data the request covers is only in memory                *)
(*   State2  everything it covers is frozen or written, not yet committed  *)
(*   State1  everything it covers survives a crash; popSync may succeed    *)
(***************************************************************************)
EXTENDS Naturals, Maps

SyncReqStatus == {"State1", "State2", "State3"}

\* Mistakes the properties must tell apart: the loop upgrades every request,
\* or none.
SyncReqsAllTo1(reqs) == [id \in DOMAIN reqs |-> "State1"]

SyncReqsKept(reqs) == reqs

SyncReqs2to1(reqs) ==
  [id \in DOMAIN reqs |-> IF reqs[id] = "State2" THEN "State1" ELSE reqs[id]]

SyncReqs3to2(reqs) ==
  [id \in DOMAIN reqs |-> IF reqs[id] = "State3" THEN "State2" ELSE reqs[id]]

\* A mistake: a new request counts as if what it covers were frozen already.
PushReqAsFrozen(reqs, id) == Put(reqs, id, "State2")

\* A new request is in State3; a popped one leaves the map.
PushReq(reqs, id) == Put(reqs, id, "State3")

PopReq(reqs, id) == Without(reqs, id)
=============================================================================
