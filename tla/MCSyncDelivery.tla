--------------------------- MODULE MCSyncDelivery ---------------------------
(* Instances of SyncDelivery for TLC: a batch of two operations, sent up to  *)
(* three times, which is once more than what can get lost; four events, two  *)
(* of them in one millisecond of two microseconds.                           *)
EXTENDS SyncDelivery, TLC

CONSTANTS b1, o1, o2, e1, e2, e3, e4

OpsOfBatch == b1 :> <<o1, o2>>
Stamps == e1 :> 2 @@ e2 :> 3 @@ e3 :> 4 @@ e4 :> 7

\* Pushing and pulling share no state.
PushOrPull ==
  {[batches |-> {b1}, events |-> {}], [batches |-> {}, events |-> {e1, e2, e3, e4}]}

PullOnly == {[batches |-> {}, events |-> {e3, e4}]}

\* The cursor's truncation leaves at most one event of its millisecond after it, so a
\* page of two always makes progress.
ASSUME PagesMakeProgress ==
  \A e \in Events : Cardinality({f \in Events : f # e /\ Stamp[f] \div Tick = Stamp[e] \div Tick}) < Limit
=============================================================================
