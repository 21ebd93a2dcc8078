--------------------------------- MODULE Heap ---------------------------------
(***************************************************************************)
(* The priority queue of k_task.c: a binary heap of TCBs in pq[0 .. size-1]*)
(* ordered by priority and, within a priority, by degree (the ticket a     *)
(* task took when it last joined the queue).  The heap is the sequence q   *)
(* with pq[i] = q[i + 1] and size = Len(q); its elements are task ids.     *)
(*                                                                         *)
(* The keys are a record with functions prio and degree, because several   *)
(* callers change a key first and repair the heap afterwards.              *)
(***************************************************************************)
EXTENDS Integers, Sequences

(* The state in which a loop ends that begins in state s and goes from     *)
(* each state to that of round, until a round changes nothing.             *)
Loop(round, s) ==
  LET end[u \in DOMAIN round] == IF round[u] = u THEN u ELSE end[round[u]]
  IN  end[s]

parent(i) == (i - 1) \div 2
left_child(i) == 2 * i + 1
right_child(i) == 2 * i + 2

(* Mutants of compare: a task is no later than its equals; equals are in   *)
(* no order.                                                               *)
compareNoLater(keys, a, b) == keys.prio[a] <= keys.prio[b]
comparePrio(keys, a, b) == keys.prio[a] < keys.prio[b]

(* TRUE iff a runs before b.  PRIO_NULL is the greatest priority number.   *)
compare(keys, a, b) ==
  \/ keys.prio[a] < keys.prio[b]
  \/ keys.prio[a] = keys.prio[b] /\ keys.degree[a] < keys.degree[b]

(* pq[i] of the code.                                                      *)
Pq(q, i) == q[i + 1]

swap(q, i, j) == [q EXCEPT ![i + 1] = Pq(q, j), ![j + 1] = Pq(q, i)]

(* One round of max_heapify: the position whose task goes to i.            *)
largest(keys, q, i) ==
  LET better(c, than) == c < Len(q) /\ compare(keys, Pq(q, c), Pq(q, than))
      l == IF better(left_child(i), i) THEN left_child(i) ELSE i
  IN  IF better(right_child(i), l) THEN right_child(i) ELSE l

(* Mutant of max_heapify: one round only.                                  *)
max_heapify_once(keys, q, i) ==
  LET l == largest(keys, q, i) IN IF l = i THEN q ELSE swap(q, i, l)

max_heapify(keys, q, i) ==
  LET round == [s \in [q : Seq(Int), i : Nat] |->
                  LET l == largest(keys, s.q, s.i)
                  IN  IF l = s.i THEN s ELSE [q |-> swap(s.q, s.i, l), i |-> l]]
  IN  Loop(round, [q |-> q, i |-> i]).q

(* One round of the loops of enqueue and k_tsk_set_prio that move up.      *)
Misplaced(keys, q, i) == i # 0 /\ compare(keys, Pq(q, i), Pq(q, parent(i)))

sift_up(keys, q, i) ==
  LET round == [s \in {u \in [q : Seq(Int), i : Nat] : u.i < Len(u.q)} |->
                  IF Misplaced(keys, s.q, s.i)
                  THEN [q |-> swap(s.q, parent(s.i), s.i), i |-> parent(s.i)] ELSE s]
  IN  Loop(round, [q |-> q, i |-> i]).q

enqueue(keys, q, t) == sift_up(keys, Append(q, t), Len(q))

(* Mutant of dequeue: the last task does not take the place of the first.  *)
dequeue_last(keys, q) ==
  IF Len(q) = 1 THEN q ELSE max_heapify(keys, SubSeq(q, 1, Len(q) - 1), 0)

(* The only task of the queue is never removed.                            *)
dequeue(keys, q) ==
  IF Len(q) = 1 THEN q
  ELSE max_heapify(keys, [SubSeq(q, 1, Len(q) - 1) EXCEPT ![1] = q[Len(q)]], 0)

(* The heap property.                                                      *)
IsHeap(keys, q) ==
  \A i \in 1 .. Len(q) - 1 : ~compare(keys, Pq(q, i), Pq(q, parent(i)))
===============================================================================
