------------------------- MODULE MCThreadSafeQueue -------------------------
(* Model values and bounds for ThreadSafeQueue.                            *)
EXTENDS ThreadSafeQueue
CONSTANTS e1, e2, c1, c2
MCElements == {e1, e2}
MCConsumers == {c1, c2}
=============================================================================
