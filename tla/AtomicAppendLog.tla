--------------------------- MODULE AtomicAppendLog ---------------------------
(***************************************************************************)
(* What the event streams promise: one log per partition to which commits   *)
(* are appended, each once and in all its partitions at the same moment, so *)
(* that the order of the commits is the same in every partition they share. *)
(***************************************************************************)
EXTENDS Integers, Sequences

CONSTANTS Partitions, Commits

VARIABLE log

Init == log = [p \in Partitions |-> <<>>]

Stored(c) == \E p \in Partitions : \E i \in DOMAIN log[p] : log[p][i] = c

\* The log of p after is the log before and then a block of c, which may be empty.
AppendsBlock(p, c) ==
  /\ Len(log'[p]) >= Len(log[p])
  /\ SubSeq(log'[p], 1, Len(log[p])) = log[p]
  /\ \A i \in Len(log[p]) + 1 .. Len(log'[p]) : log'[p][i] = c

Next ==
  \E c \in Commits :
    /\ ~Stored(c)
    /\ DOMAIN log' = Partitions
    /\ \A p \in Partitions : AppendsBlock(p, c)

Spec == Init /\ [][Next]_log

\* What readers of several partitions may rely on: two commits come in the same
\* order in every partition, and neither in the midst of the other.
SameOrder ==
  \A p, q \in Partitions :
    \A i, j \in DOMAIN log[p], k, l \in DOMAIN log[q] :
      /\ log[p][i] = log[q][k] /\ log[p][j] = log[q][l]
      /\ log[p][i] # log[p][j]
      /\ i < j
      => k < l
=============================================================================
