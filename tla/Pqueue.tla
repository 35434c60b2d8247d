------------------------------- MODULE Pqueue -------------------------------
(***************************************************************************)
(* The binary heap of Quagga's timers (lib/pqueue.c).  A queue is a record *)
(* of the array and the index each node was told through the update        *)
(* callback.  Positions start at 1, so the parent of k is k \div 2.        *)
(***************************************************************************)
EXTENDS Integers, Sequences, SequencesExt

\* The cmp() of the queue is the order of the keys.
PARENT_OF(k) == k \div 2
LEFT_OF(k) == 2 * k
RIGHT_OF(k) == 2 * k + 1
HAVE_CHILD(array, k) == 2 * k <= Len(array)

\* What both loops do once the path of the node is known: the node goes to
\* the end of the path, the others move up one place, all are told.
Rotate(q, path) ==
    LET n == Len(path)
        node == q.array[path[1]]
        moved == [i \in 1..n |-> IF i < n THEN q.array[path[i + 1]] ELSE node]
        At(k) == CHOOSE i \in 1..n : path[i] = k
    IN  [array |-> [k \in DOMAIN q.array |->
                      IF k \in Range(path) THEN moved[At(k)] ELSE q.array[k]],
         index |-> [x \in DOMAIN q.index |->
                      IF x \in Range(moved) THEN path[CHOOSE i \in 1..n : moved[i] = x]
                      ELSE q.index[x]]]

trickle_up(index, q, key) ==
    LET tmp == q.array[index]
        up[k \in 1..index] ==
            IF k > 1 /\ key[tmp] < key[q.array[PARENT_OF(k)]]
            THEN <<k>> \o up[PARENT_OF(k)] ELSE <<k>>
    IN  Rotate(q, up[index])

trickle_down(index, q, key) ==
    LET a == q.array
        tmp == a[index]
        which(k) == IF RIGHT_OF(k) <= Len(a) /\ key[a[LEFT_OF(k)]] > key[a[RIGHT_OF(k)]]
                    THEN RIGHT_OF(k) ELSE LEFT_OF(k)
        down[k \in 1..Len(a)] ==
            IF HAVE_CHILD(a, k) /\ key[a[which(k)]] <= key[tmp]
            THEN <<k>> \o down[which(k)] ELSE <<k>>
    IN  Rotate(q, down[index])

pqueue_enqueue(data, q, key) ==
    LET n == Len(q.array) + 1
    IN  trickle_up(n, [array |-> Append(q.array, data),
                       index |-> [q.index EXCEPT ![data] = n]], key)

\* Variant of pqueue_remove_at that never moves the last node up.
RemoveAtDownOnly(index, q, key) ==
    LET n == Len(q.array)
        cut == [q EXCEPT !.array = Front([@ EXCEPT ![index] = q.array[n]])]
    IN  IF index = n THEN cut ELSE trickle_down(index, cut, key)

\* The last node takes the place of the one removed and then its own.  The
\* last node itself just leaves the array: it is not above its parent.
pqueue_remove_at(index, q, key) ==
    LET n == Len(q.array)
        last == q.array[n]
        cut == [q EXCEPT !.array = Front([@ EXCEPT ![index] = last])]
    IN  IF index = n THEN cut
        ELSE IF index > 1 /\ key[last] < key[cut.array[PARENT_OF(index)]]
        THEN trickle_up(index, cut, key)
        ELSE trickle_down(index, cut, key)

\* Dequeuing is removing the top, which has no parent to compare with.
pqueue_dequeue(q, key) == pqueue_remove_at(1, q, key)

-----------------------------------------------------------------------------
\* No node is before its parent.
HeapOrdered(array, key) ==
    \A k \in 2..Len(array) : key[array[PARENT_OF(k)]] <= key[array[k]]

\* Each node in the array knows where it is.
IndexExact(q) == \A k \in 1..Len(q.array) : q.index[q.array[k]] = k
=============================================================================
