------------------------------- MODULE Fence --------------------------------
(***************************************************************************)
(* The stores a producer makes into queue slots, and wmb()                 *)
(* (include/aoip/utils.h).  The slots are plain memory shared by two       *)
(* threads without a lock, so the order in which one thread's stores       *)
(* become visible to the other is part of the program.  Here a store goes  *)
(* to a set first, wbuf of the two data paths, and reaches the slots       *)
(* later; stores to different places reach them in any order.  That is     *)
(* weaker than the ordering of the x86-64 the code is built for, so        *)
(* whatever holds here rests on the fence alone.                           *)
(***************************************************************************)
EXTENDS Integers

(* The members of struct aoip_queue_slot some thread reads. *)
Field == {"len", "seq", "data"}

Cleared == [f \in Field |-> 0]

(* S with one more store; a later store to the same place supersedes an    *)
(* earlier one.                                                            *)
Store(S, i, f, v) ==
  {w \in S : w.at # i \/ w.field # f} \cup {[at |-> i, field |-> f, val |-> v]}

(* The slots once the store w is visible. *)
Drained(slot, w) == [slot EXCEPT ![w.at] = [@ EXCEPT ![w.field] = w.val]]

wmb_empty(S) == TRUE   \* mutated form: the #else branch of utils.h

(* The fence is passed when every earlier store is visible. *)
wmb(S) == S = {}
=============================================================================
