--------------------------- MODULE MCThreadMaster ---------------------------
(* Instances of ThreadMaster for TLC.                                      *)
EXTENDS ThreadMaster

\* A peer with two timers, a reader and a writer, and a work queue.
PeerAndQueue == {"t_connect", "t_holdtime", "t_read", "t_write", "wq"}
Kinds == [t_connect |-> "TIMER", t_holdtime |-> "TIMER", t_read |-> "READ",
          t_write |-> "WRITE", wq |-> "BACKGROUND"]
Args == [s \in PeerAndQueue |-> IF s = "wq" THEN "wq" ELSE "peer"]
Fdes == [s \in PeerAndQueue |-> IF s \in {"t_read", "t_write"} THEN 1 ELSE 0]
Times == [t_connect |-> {1}, t_holdtime |-> {2}, t_read |-> {0},
          t_write |-> {0}, wq |-> {0}]

\* Heaps for PqueueCorrect.
HeapSize == 7
HeapKeys == 1..3
HeapOf(n) == [array |-> [k \in 1..n |-> k], index |-> [k \in 1..HeapSize |-> k]]

Sound(q, key, nodes) ==
    /\ HeapOrdered(q.array, key) /\ IndexExact(q)
    /\ Range(q.array) = nodes /\ Len(q.array) = Cardinality(nodes)

\* The operations of pqueue.c on every heap of up to HeapSize - 1 nodes with
\* keys in HeapKeys leave a heap with exact indexes and the nodes expected.
\* (This is about no state; it is evaluated before anything is scheduled.)
PqueueCorrect ==
    running = MAIN /\ m.type[1] = "NONE" =>
    \A n \in 0..HeapSize - 1 : \A key \in [1..n + 1 -> HeapKeys] :
        HeapOrdered(HeapOf(n).array, key) =>
            /\ Sound(pqueue_enqueue(n + 1, HeapOf(n), key), key, 1..n + 1)
            /\ \A k \in 1..n :
                  Sound(pqueue_remove_at(k, HeapOf(n), key), key, (1..n) \ {k})
=============================================================================
