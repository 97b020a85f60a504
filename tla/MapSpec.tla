------------------------------ MODULE MapSpec ------------------------------
(***************************************************************************)
(* What the store promises (MapSpec/MapSpec): a map from every key to a    *)
(* value, the default one where nothing was written.                       *)
(***************************************************************************)
EXTENDS Naturals

CONSTANTS Key, Value, EmptyValue

VARIABLE view       \* [Key -> Value]

Init == view = [k \in Key |-> EmptyValue]

Write(key, value) == view' = [view EXCEPT ![key] = value]

Next == \E key \in Key, value \in Value : Write(key, value)

Spec == Init /\ [][Next]_view

\* A bound is a key and whether it is in the range itself.
InRange(start, key, end) ==
  /\ start.key < key \/ (start.inclusive /\ start.key = key)
  /\ key < end.key \/ (end.inclusive /\ key = end.key)

NonEmptyRange(start, end) ==
  start.key < end.key \/ (start.inclusive /\ end.inclusive /\ start.key = end.key)

\* The results are all the keys with a value between start and end, in order.
SuccAnswer(start, results, end) ==
  LET has(key) == \E i \in DOMAIN results : results[i].key = key
  IN  /\ NonEmptyRange(start, end)
      /\ \A i \in DOMAIN results :
           /\ InRange(start, results[i].key, end)
           /\ results[i].value = view[results[i].key] /\ results[i].value # EmptyValue
      /\ \A i, j \in DOMAIN results : i < j => results[i].key < results[j].key
      /\ \A key \in Key :
           InRange(start, key, end) /\ view[key] # EmptyValue => has(key)
=============================================================================
