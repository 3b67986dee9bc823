------------------------------- MODULE Deques -------------------------------
(***************************************************************************)
(* The deque operations that the queue managers use, on sequences.         *)
(***************************************************************************)
EXTENDS Integers, Sequences, Functions

(* The elements of s that are in S, in their order: a deque rebuilt by a   *)
(* comprehension.  It is SelectSeq as a recursive function, which proofs   *)
(* can unfold.                                                             *)
Keep(s, S) ==
  LET kept[n \in 0..Len(s)] ==
        IF n = 0 THEN << >>
        ELSE IF s[n] \in S THEN Append(kept[n - 1], s[n]) ELSE kept[n - 1]
  IN  kept[Len(s)]

(* A deviation: the head is popped and not put back.                       *)
RotatePopOnly(s) == IF s = << >> THEN s ELSE Tail(s)

Rotate(s) == Append(Tail(s), Head(s))            \* deque.rotate(-1)

IndexIn(s, x) == CHOOSE i \in DOMAIN s : s[i] = x
=============================================================================
