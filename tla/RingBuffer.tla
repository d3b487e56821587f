----------------------------- MODULE RingBuffer -----------------------------
(***************************************************************************)
(* runtime/ring_buffer.py: the exact, uncompressed buffer of the most      *)
(* recent tokens of one request in one layer.  A key/value pair is         *)
(* abstracted to the sequence number of its token; Zero is a zeroed slot.  *)
(*                                                                         *)
(* A ring is a record with the fields of the class: the host counters      *)
(* write_pos and count, and count_tensor, the device copy of count that    *)
(* the attention kernels mask with.                                        *)
(***************************************************************************)
EXTENDS Integers, Sequences

CONSTANT Capacity       \* ring_buffer_capacity, the number of slots

ASSUME CapacityAssumption == Capacity \in Nat \ {0}

Zero == -1
Slot == 0 .. Capacity - 1

Ring == [slots : [Slot -> Nat \cup {Zero}], write_pos : Nat,
         count : 0 .. Capacity, count_tensor : 0 .. Capacity]

EmptyRing == [slots |-> [p \in Slot |-> Zero], write_pos |-> 0,
              count |-> 0, count_tensor |-> 0]

Pos(r) == r.write_pos % Capacity

IsFull(r) == r.count >= Capacity

\* What one iteration of write() clones before it overwrites the slot.
Evicted(r) == IF IsFull(r) THEN <<r.slots[Pos(r)]>> ELSE <<>>

(* Mutants: the counter is not capped; the device counter is not synced.   *)
WriteTokenUncapped(r, tok) ==
    [slots        |-> [r.slots EXCEPT ![Pos(r)] = tok],
     write_pos    |-> r.write_pos + 1,
     count        |-> r.count + 1,
     count_tensor |-> r.count_tensor]
SyncCounterForgotten(r) == r

\* One iteration of write(): the device counter is not touched.
WriteToken(r, tok) ==
    [slots        |-> [r.slots EXCEPT ![Pos(r)] = tok],
     write_pos    |-> r.write_pos + 1,
     count        |-> IF IsFull(r) THEN r.count ELSE r.count + 1,
     count_tensor |-> r.count_tensor]

\* _count_tensor.fill_(_count), the last statement of both writers.
SyncCounter(r) == [r EXCEPT !.count_tensor = r.count]

\* Mutant of WriteSingleGraph: only write() fills the device counter.
WriteSingleGraphUnsynced(r, tok) == WriteToken(r, tok)

\* write_single_graph(): like one write(), but the evicted token is not kept.
WriteSingleGraph(r, tok) == SyncCounter(WriteToken(r, tok))

\* read_all(): slot order as long as count <= Capacity, which is always; the
\* branch that would reorder by age is translated although it is never taken.
ReadAll(r) ==
    IF r.count <= Capacity
    THEN [i \in 1 .. r.count |-> r.slots[i - 1]]
    ELSE [i \in 1 .. Capacity |-> r.slots[(r.write_pos + i - 1) % Capacity]]

\* The slots _recent_buffer_kernel attends to: those below the device counter.
KernelSlots(r) == {p \in Slot : p < r.count_tensor}

-----------------------------------------------------------------------------
(* Vocabulary of the properties.                                           *)

LiveSlots(r) == {p \in Slot : p < r.count}

RecentTokens(r) == {r.slots[p] : p \in LiveSlots(r)}

\* The valid tokens, oldest first.
ByAge(r) ==
    [i \in 1 .. r.count |->
        r.slots[(r.write_pos - r.count + i - 1) % Capacity]]

=============================================================================
