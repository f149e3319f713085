----------------------------- MODULE AppMemory -----------------------------
(***************************************************************************)
(* What an application sees of device memory: blocks that it allocates,    *)
(* writes and frees, and that keep their address, size and content         *)
(* otherwise.  Checkpoints and restores do not appear:                     *)
(* docs/design-memory-address-checkpoint.md promises that "the process     *)
(* continues without ever having observed the round-trip".                 *)
(***************************************************************************)
EXTENDS Integers

CONSTANTS Slots, Sizes, Values, Junk

VARIABLE mem             \* per slot: the block's size, 0 if there is none, and content

Absent == [size |-> 0, content |-> Junk]

Init == mem = [a \in Slots |-> Absent]

Alloc(a, n) == /\ mem[a] = Absent
               /\ mem' = [mem EXCEPT ![a] = [size |-> n, content |-> Junk]]
Store(a, v) == mem[a] # Absent /\ mem' = [mem EXCEPT ![a].content = v]
Free(a)     == mem[a] # Absent /\ mem' = [mem EXCEPT ![a] = Absent]

Next == \E a \in Slots : \/ \E n \in Sizes : Alloc(a, n)
                         \/ \E v \in Values : Store(a, v)
                         \/ Free(a)

Spec == Init /\ [][Next]_mem
=============================================================================
