--------------------------- MODULE CircularBuffer ---------------------------
(***************************************************************************)
(* The ring of lib/ab/circularbuffer.hpp as operators on a record: the     *)
(* slots of the vector, how many are in use, the oldest one (start) and    *)
(* the one the next element goes to (end).                                 *)
(***************************************************************************)
EXTENDS Integers, Sequences

CONSTANTS
  Capacity, (* data.size(): 10 in the program                           *)
  Items,    (* what the ring holds                                      *)
  NoItem    (* a slot that was never written                            *)

ASSUME CapacityAssumption == Capacity \in Nat \ {0}

Slots == 0 .. Capacity - 1

Ring ==
  [data : [Slots -> Items \cup {NoItem}],
   count : 0 .. Capacity, start : Slots, end : Slots]

EmptyRing ==
  [data |-> [s \in Slots |-> NoItem], count |-> 0, start |-> 0, end |-> 0]

IsFull(b) == b.count = Capacity

(* A discard that moves start but leaves the count alone. *)
DiscardKeepingCount(b) ==
  [data |-> b.data, count |-> b.count,
   start |-> (b.start + 1) % Capacity, end |-> b.end]

(* discard(1): drops the oldest element, if there is one. *)
Discard(b) ==
  LET c == IF b.count < 1 THEN b.count ELSE 1
  IN  [data |-> b.data, count |-> b.count - c,
       start |-> (b.start + c) % Capacity, end |-> b.end]

(* add: a full ring makes room by dropping its oldest element. *)
Add(b, v) ==
  LET room == IF b.count >= Capacity THEN Discard(b) ELSE b
  IN  [data |-> [room.data EXCEPT ![room.end] = v], count |-> room.count + 1,
       start |-> room.start, end |-> (room.end + 1) % Capacity]

(* A read that starts one element late. *)
ReadOffByOne(b, skip) ==
  [i \in 1 .. b.count - skip |-> b.data[(b.start + skip + i) % Capacity]]

(* read(skip): the elements after the skip oldest ones, oldest first. *)
ReadAfter(b, skip) ==
  [i \in 1 .. b.count - skip |-> b.data[(b.start + skip + i - 1) % Capacity]]
=============================================================================
