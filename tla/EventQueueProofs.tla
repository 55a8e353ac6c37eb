-------------------------- MODULE EventQueueProofs --------------------------
(***************************************************************************)
(* Proofs about EventQueue, for every capacity of the ring, every set of   *)
(* events and browsers and every bound on the number of events.            *)
(***************************************************************************)
EXTENDS EventQueue, SequenceTheorems, TLAPS

(* What ties a browser's id to the log at each place of its loop. *)
ReaderInv ==
  \A b \in Browsers :
    /\ last[b] <= Len(log)
    /\ pc[b] = "ready" => last[b] < Len(log)
    /\ pc[b] = "replied" => /\ reply[b] \in Batches
                            /\ last[b] < reply[b].id
                            /\ reply[b].id <= Len(log)
    /\ pc[b] # "replied" => reply[b] = NoReply

IInv ==
  /\ TypeOK
  /\ RingHoldsNewest
  /\ NoSleepOverEvents
  /\ ReaderInv
  /\ ReplyMovesForward

-----------------------------------------------------------------------------
(* Indices of the ring never go around more than once, so the remainder is *)
(* a single subtraction.                                                   *)
LEMMA Wrap ==
  ASSUME NEW x \in Nat, x < 2 * Capacity
  PROVE  /\ x % Capacity = IF x < Capacity THEN x ELSE x - Capacity
         /\ x % Capacity \in Slots
BY CapacityAssumption DEF Slots

(* The same, for an index counted from a slot.                             *)
LEMMA WrapSum ==
  ASSUME NEW s \in Slots, NEW c \in 0 .. Capacity
  PROVE  /\ (s + c) % Capacity =
              IF s + c < Capacity THEN s + c ELSE s + c - Capacity
         /\ (s + c) % Capacity \in Slots
<1> DEFINE x == s + c
<1>1. x \in Nat /\ x < 2 * Capacity
  BY CapacityAssumption DEF Slots
<1> HIDE DEF x
<1>2. /\ x % Capacity = IF x < Capacity THEN x ELSE x - Capacity
      /\ x % Capacity \in Slots
  BY <1>1, Wrap
<1>3. QED BY <1>2, CapacityAssumption DEF x, Slots

(* A slot is its own remainder, also after going around once.              *)
LEMMA WrapSlot ==
  ASSUME NEW s \in Slots
  PROVE  s % Capacity = s /\ (s + Capacity) % Capacity = s
<1>1. /\ s \in Nat /\ s < Capacity
      /\ s + Capacity \in Nat /\ s + Capacity < 2 * Capacity
      /\ ~(s + Capacity < Capacity) /\ s + Capacity - Capacity = s
  BY CapacityAssumption DEF Slots
<1>2. s < 2 * Capacity
  BY <1>1, CapacityAssumption
<1>3. s % Capacity = s
  BY <1>1, <1>2, Wrap
<1>4. (s + Capacity) % Capacity = s
  BY <1>1, Wrap, CapacityAssumption DEF Slots
<1>5. QED BY <1>3, <1>4

(* Moving the start by d and counting i from there is counting i + d.      *)
LEMMA Shift ==
  ASSUME NEW s \in Slots, NEW d \in 0 .. 1, NEW i \in Nat, i + d <= Capacity
  PROVE  (((s + d) % Capacity) + i) % Capacity = (s + i + d) % Capacity
<1>1. s + d \in Nat /\ s + d < 2 * Capacity
  BY CapacityAssumption DEF Slots
<1>2. (s + d) % Capacity = IF s + d < Capacity THEN s + d ELSE s + d - Capacity
  BY <1>1, Wrap, CapacityAssumption DEF Slots
<1>3. s + i + d \in Nat /\ s + i + d < 2 * Capacity
  BY CapacityAssumption DEF Slots
<1>4. (s + i + d) % Capacity =
        IF s + i + d < Capacity THEN s + i + d ELSE s + i + d - Capacity
  BY <1>3, Wrap, CapacityAssumption DEF Slots
<1>5. CASE s + d < Capacity
  BY <1>2, <1>5 DEF Slots
<1>6. CASE ~(s + d < Capacity)
  <2>1. ((s + d) % Capacity) + i = s + i + d - Capacity
    BY <1>2, <1>6, CapacityAssumption DEF Slots
  <2>2. s + i + d - Capacity \in 0 .. Capacity - 1
    BY <1>6, CapacityAssumption DEF Slots
  <2>3. (s + i + d - Capacity) % Capacity = s + i + d - Capacity
    BY <2>2, Wrap, CapacityAssumption
  <2>4. QED BY <1>4, <2>1, <2>2, <2>3, CapacityAssumption DEF Slots
<1>7. QED BY <1>5, <1>6

(* One step after wrapping is wrapping after one step.                     *)
LEMMA WrapSucc ==
  ASSUME NEW s \in Slots, NEW c \in 0 .. Capacity
  PROVE  (s + c + 1) % Capacity = (((s + c) % Capacity) + 1) % Capacity
<1>1. s + c \in Nat /\ s + c < 2 * Capacity
  BY CapacityAssumption DEF Slots
<1>2. (s + c) % Capacity = IF s + c < Capacity THEN s + c ELSE s + c - Capacity
  BY <1>1, Wrap, CapacityAssumption DEF Slots
<1>3. CASE s + c < Capacity
  BY <1>2, <1>3 DEF Slots
<1>4. CASE s + c >= Capacity
  <2>1. (s + c - Capacity + 1) % Capacity =
          IF s + c - Capacity + 1 < Capacity
          THEN s + c - Capacity + 1 ELSE s + c - Capacity + 1 - Capacity
    BY <1>4, Wrap, CapacityAssumption DEF Slots
  <2>2. (s + c + 1) % Capacity = (s + c - Capacity + 1) % Capacity
    BY <1>4, CapacityAssumption DEF Slots
  <2>3. QED BY <1>2, <1>4, <2>2, CapacityAssumption DEF Slots
<1>5. QED BY <1>1, <1>3, <1>4, CapacityAssumption DEF Slots

(* Two different distances below Capacity reach two different slots.       *)
LEMMA Apart ==
  ASSUME NEW s \in Slots, NEW i \in 0 .. Capacity, NEW j \in 0 .. Capacity,
         i < j, j - i < Capacity
  PROVE  (s + i) % Capacity # (s + j) % Capacity
<1>1. (s + i) % Capacity = IF s + i < Capacity THEN s + i ELSE s + i - Capacity
  BY WrapSum
<1>2. (s + j) % Capacity = IF s + j < Capacity THEN s + j ELSE s + j - Capacity
  BY WrapSum
<1>3. QED BY <1>1, <1>2, CapacityAssumption DEF Slots

(* What add does to a ring whose end follows its start and its count: the  *)
(* new element goes behind the others, and a full ring drops its oldest.   *)
LEMMA AddIsAppend ==
  ASSUME NEW q \in Ring, NEW e \in Items,
         q.end = (q.start + q.count) % Capacity
  PROVE  LET r == Add(q, e)
             d == IF IsFull(q) THEN 1 ELSE 0
         IN  /\ r \in Ring
             /\ r.count = q.count + 1 - d
             /\ r.end = (r.start + r.count) % Capacity
             /\ r.data[(r.start + r.count - 1) % Capacity] = e
             /\ \A i \in 0 .. r.count - 2 :
                  r.data[(r.start + i) % Capacity]
                    = q.data[(q.start + i + d) % Capacity]
<1> DEFINE r == Add(q, e)
           d == IF IsFull(q) THEN 1 ELSE 0
<1>1. /\ q.count \in 0 .. Capacity /\ q.start \in Slots /\ q.end \in Slots
      /\ q.data \in [Slots -> Items \cup {NoItem}]
  BY DEF Ring
<1>2. /\ r.data = [q.data EXCEPT ![q.end] = e]
      /\ r.start = (q.start + d) % Capacity
      /\ r.end = (q.end + 1) % Capacity
      /\ r.count = q.count + 1 - d
      /\ r = [data |-> r.data, count |-> r.count,
              start |-> r.start, end |-> r.end]
  <2>1. CASE IsFull(q)
    BY <2>1, <1>1, CapacityAssumption DEF Add, Discard, IsFull, Ring
  <2>2. CASE ~IsFull(q)
    <3>1. (q.start + 0) % Capacity = q.start
      BY <1>1, WrapSlot DEF Slots
    <3>2. /\ ~(q.count >= Capacity) /\ d = 0
          /\ q.count + 1 - d = q.count + 1
      BY <1>1, <2>2, CapacityAssumption DEF IsFull
    <3>3. QED
      BY <3>1, <3>2 DEF Add
  <2>3. QED BY <2>1, <2>2
<1>3. d = IF q.count = Capacity THEN 1 ELSE 0
  BY DEF IsFull
<1> HIDE DEF r, d
<1>4. d \in 0 .. 1 /\ r.count \in 1 .. Capacity
  BY <1>1, <1>2, <1>3, CapacityAssumption
<1>5. r.start \in Slots /\ r.end \in Slots
  <2>1. q.start + d \in Nat /\ q.start + d < 2 * Capacity
    BY <1>1, <1>4, CapacityAssumption DEF Slots
  <2>2. q.end + 1 \in Nat /\ q.end + 1 < 2 * Capacity
    BY <1>1, CapacityAssumption DEF Slots
  <2>3. QED BY <1>2, <2>1, <2>2, Wrap
<1>6. r \in Ring
  <2>1. r.data \in [Slots -> Items \cup {NoItem}]
    BY <1>1, <1>2
  <2>2. QED BY <1>2, <1>4, <1>5, <2>1 DEF Ring
<1>7. r.end = (r.start + r.count) % Capacity
  <2>1. r.end = (q.start + q.count + 1) % Capacity
    BY <1>1, <1>2, WrapSucc
  <2>2. CASE q.count = Capacity
    <3>1. /\ r.start = (q.start + 1) % Capacity
          /\ r.count = Capacity
      BY <1>1, <1>2, <1>3, <2>2, CapacityAssumption
    <3>2. (r.start + Capacity) % Capacity = r.start
      BY <1>5, WrapSlot
    <3>3. q.end = q.start
      BY <1>1, <2>2, WrapSlot
    <3>4. QED BY <1>2, <3>1, <3>2, <3>3
  <2>3. CASE q.count # Capacity
    <3>1. /\ r.start = q.start % Capacity
          /\ r.count = q.count + 1
      BY <1>1, <1>2, <1>3, <2>3 DEF Slots
    <3>2. q.start % Capacity = q.start
      BY <1>1, WrapSlot
    <3>3. q.start + q.count + 1 = q.start + (q.count + 1)
      BY <1>1 DEF Slots
    <3>4. QED BY <2>1, <3>1, <3>2, <3>3
  <2>4. QED BY <2>2, <2>3
<1>8. (r.start + r.count - 1) % Capacity = q.end
  <2>1. r.count - 1 \in Nat /\ (r.count - 1) + d <= Capacity
    BY <1>1, <1>2, <1>3, <1>4
  <2>2. (r.start + (r.count - 1)) % Capacity
          = (q.start + (r.count - 1) + d) % Capacity
    BY <1>1, <1>2, <1>4, <2>1, Shift
  <2>3. /\ q.start + (r.count - 1) + d = q.start + q.count
        /\ r.start + (r.count - 1) = r.start + r.count - 1
    BY <1>1, <1>2, <1>4, <1>5 DEF Slots
  <2>4. QED BY <2>2, <2>3
<1>9. ASSUME NEW i \in 0 .. r.count - 2
      PROVE  r.data[(r.start + i) % Capacity]
               = q.data[(q.start + i + d) % Capacity]
  <2>1. /\ i \in Nat /\ i + d \in Nat
        /\ i + d < q.count /\ i + d <= Capacity
        /\ q.count - (i + d) < Capacity
    <3>1. CASE q.count = Capacity
      <4>1. d = 1 /\ r.count = Capacity
        BY <1>1, <1>2, <1>3, <3>1, CapacityAssumption
      <4>2. QED BY <3>1, <4>1, CapacityAssumption
    <3>2. CASE q.count # Capacity
      <4>1. d = 0 /\ r.count = q.count + 1
        BY <1>1, <1>2, <1>3, <3>2, CapacityAssumption
      <4>2. QED BY <1>1, <3>2, <4>1, CapacityAssumption
    <3>3. QED BY <3>1, <3>2
  <2>2. (r.start + i) % Capacity = (q.start + i + d) % Capacity
    BY <1>1, <1>2, <1>4, <2>1, Shift
  <2>3. q.start + (i + d) = q.start + i + d
    BY <1>1, <1>4, <2>1 DEF Slots
  <2>4. (q.start + (i + d)) % Capacity # (q.start + q.count) % Capacity
    BY <1>1, <1>4, <2>1, Apart
  <2>5. (q.start + i + d) % Capacity \in Slots
    <3>1. q.start \in Nat /\ q.start < Capacity /\ q.count <= Capacity
      BY <1>1, CapacityAssumption DEF Slots
    <3>2. i + d \in Nat /\ i + d < Capacity
      BY <1>1, <2>1, CapacityAssumption
    <3>3. q.start + (i + d) \in Nat /\ q.start + (i + d) < 2 * Capacity
      <4> HIDE DEF d
      <4>1. QED BY <3>1, <3>2, CapacityAssumption
    <3>4. QED BY <2>3, <3>3, Wrap
  <2>6. QED BY <1>1, <1>2, <2>2, <2>3, <2>4, <2>5
<1>10. r.data[(r.start + r.count - 1) % Capacity] = e
  BY <1>1, <1>2, <1>8
<1>11. QED BY <1>2, <1>6, <1>7, <1>9, <1>10 DEF r, d

-----------------------------------------------------------------------------
(* Pushing keeps the ring equal to the end of the log.                     *)
LEMMA PushKeepsRing ==
  ASSUME TypeOK, RingHoldsNewest, NEW e \in Items, PushEvent(e)
  PROVE  /\ queue' \in Ring /\ start_id' \in Nat /\ log' \in Seq(Items)
         /\ Len(log') = Len(log) + 1
         /\ RingHoldsNewest'
<1> DEFINE d == IF IsFull(queue) THEN 1 ELSE 0
<1>1. /\ queue \in Ring /\ queue.end = (queue.start + queue.count) % Capacity
      /\ start_id \in Nat /\ log \in Seq(Items)
      /\ queue.count \in 0 .. Capacity /\ queue.start \in Slots
      /\ start_id + queue.count = Len(log)
      /\ start_id > 0 => queue.count = Capacity
  BY DEF TypeOK, RingHoldsNewest, Ring
<1>2. /\ queue' = Add(queue, e) /\ log' = Append(log, e)
      /\ start_id' = start_id + d
  BY <1>1 DEF PushEvent
<1>3. /\ queue' \in Ring
      /\ queue'.count = queue.count + 1 - d
      /\ queue'.end = (queue'.start + queue'.count) % Capacity
      /\ queue'.data[(queue'.start + queue'.count - 1) % Capacity] = e
      /\ \A i \in 0 .. queue'.count - 2 :
           queue'.data[(queue'.start + i) % Capacity]
             = queue.data[(queue.start + i + d) % Capacity]
  BY <1>1, <1>2, AddIsAppend
<1>4. d = IF queue.count = Capacity THEN 1 ELSE 0
  BY DEF IsFull
<1> HIDE DEF d
<1>5. /\ Len(log') = Len(log) + 1 /\ log' \in Seq(Items)
      /\ \A k \in 1 .. Len(log) : log'[k] = log[k]
      /\ log'[Len(log) + 1] = e
  BY <1>1, <1>2
<1>6. /\ start_id' \in Nat
      /\ start_id' + queue'.count = Len(log')
      /\ start_id' > 0 => queue'.count = Capacity
      /\ queue'.count \in 1 .. Capacity
  <2>1. CASE queue.count = Capacity
    <3>1. /\ d = 1 /\ queue'.count = queue.count
          /\ start_id' = start_id + 1
      BY <1>1, <1>2, <1>3, <1>4, <2>1, CapacityAssumption
    <3>2. QED BY <1>1, <1>5, <2>1, <3>1, CapacityAssumption
  <2>2. CASE queue.count # Capacity
    <3>1. /\ d = 0 /\ queue'.count = queue.count + 1
          /\ start_id' = start_id
      BY <1>1, <1>2, <1>3, <1>4, <2>2, CapacityAssumption
    <3>2. QED BY <1>1, <1>5, <2>2, <3>1, CapacityAssumption
  <2>3. QED BY <2>1, <2>2
<1>7. ASSUME NEW i \in 0 .. queue'.count - 1
      PROVE  queue'.data[(queue'.start + i) % Capacity] = log'[start_id' + i + 1]
  <2>1. CASE i = queue'.count - 1
    <3>1. queue'.start + queue'.count - 1 = queue'.start + i
      BY <1>3, <1>6, <2>1 DEF Ring, Slots
    <3>2. start_id' + i + 1 = Len(log) + 1
      BY <1>1, <1>5, <1>6, <2>1
    <3>3. QED BY <1>3, <1>5, <3>1, <3>2
  <2>2. CASE i # queue'.count - 1
    <3>1. i \in 0 .. queue'.count - 2 /\ i + d \in 0 .. queue.count - 1
      BY <1>1, <1>3, <1>4, <1>6, <2>2
    <3>2. queue'.data[(queue'.start + i) % Capacity]
            = queue.data[(queue.start + i + d) % Capacity]
      BY <1>3, <3>1
    <3>3. queue.data[(queue.start + (i + d)) % Capacity]
            = log[start_id + (i + d) + 1]
      BY <3>1 DEF RingHoldsNewest
    <3>4. /\ queue.start + (i + d) = queue.start + i + d
          /\ start_id + (i + d) + 1 = start_id' + i + 1
          /\ start_id' + i + 1 \in 1 .. Len(log)
      <4>1. d \in 0 .. 1 /\ queue.start \in Nat
        BY <1>1, <1>4 DEF Slots
      <4>2. /\ start_id' = start_id + d /\ start_id \in Nat
            /\ i \in Nat /\ i + d <= queue.count - 1
            /\ queue.count \in Nat /\ start_id + queue.count = Len(log)
        BY <1>1, <1>2, <3>1
      <4>3. QED BY <4>1, <4>2
    <3>5. QED BY <1>5, <3>2, <3>3, <3>4
  <2>3. QED BY <2>1, <2>2
<1>8. QED BY <1>3, <1>5, <1>6, <1>7 DEF RingHoldsNewest

(* What getEvents reads: everything after the browser's id that is kept.   *)
LEMMA ReadIsWindow ==
  ASSUME TypeOK, RingHoldsNewest, NEW f \in Nat, f < Len(log)
  PROVE  LET skip == IF f > start_id THEN f - start_id ELSE 0
         IN  /\ skip < queue.count
             /\ ReadAfter(queue, skip) \in Seq(Items)
             /\ Len(ReadAfter(queue, skip)) = queue.count - skip
             /\ ReadAfter(queue, skip) = Promise!Available(f)
             /\ queue.count - skip =
                  IF Len(log) - f < Capacity THEN Len(log) - f ELSE Capacity
<1> DEFINE skip == IF f > start_id THEN f - start_id ELSE 0
           from == IF f > Len(log) - Capacity THEN f ELSE Len(log) - Capacity
           R == ReadAfter(queue, skip)
           S == SubSeq(log, from + 1, Len(log))
<1>1. /\ queue \in Ring /\ start_id \in Nat /\ log \in Seq(Items)
      /\ queue.count \in 0 .. Capacity /\ queue.start \in Slots
      /\ start_id + queue.count = Len(log)
      /\ start_id > 0 => queue.count = Capacity
  BY DEF TypeOK, RingHoldsNewest, Ring
<1>2. /\ skip \in Nat /\ skip < queue.count
      /\ start_id + skip = from
      /\ from \in 0 .. Len(log) - 1
      /\ queue.count - skip = Len(log) - from
      /\ queue.count - skip =
           IF Len(log) - f < Capacity THEN Len(log) - f ELSE Capacity
  BY <1>1, CapacityAssumption
<1> HIDE DEF skip, from
<1>3. R = [i \in 1 .. queue.count - skip |->
             queue.data[(queue.start + skip + i - 1) % Capacity]]
  BY DEF ReadAfter
<1>4. ASSUME NEW i \in 1 .. queue.count - skip
      PROVE  queue.data[(queue.start + skip + i - 1) % Capacity] = log[from + i]
  <2>1. skip + i - 1 \in 0 .. queue.count - 1
    BY <1>1, <1>2
  <2>2. queue.data[(queue.start + (skip + i - 1)) % Capacity]
          = log[start_id + (skip + i - 1) + 1]
    BY <2>1 DEF RingHoldsNewest
  <2>3. queue.start \in Int /\ skip \in Int /\ i \in Int /\ start_id \in Int
    BY <1>1, <1>2 DEF Slots
  <2>4. queue.start + (skip + i - 1) = queue.start + skip + i - 1
    BY <2>3
  <2>5. start_id + (skip + i - 1) + 1 = from + i
    BY <1>2, <2>3
  <2>6. QED BY <2>2, <2>4, <2>5
<1>5. R = [i \in 1 .. Len(log) - from |-> log[from + i]]
  BY <1>2, <1>3, <1>4
<1>6. Len(log) \in Nat /\ Len(log) - from \in Nat
  BY <1>1, <1>2
<1>7. /\ R \in Seq(Items) /\ Len(R) = Len(log) - from
  <2>1. \A i \in 1 .. Len(log) - from : log[from + i] \in Items
    BY <1>1, <1>2, <1>6
  <2>2. R \in [1 .. Len(log) - from -> Items]
    BY <1>5, <2>1
  <2>3. QED BY <1>5, <1>6, <2>2
<1>8. S = R
  <2>1. /\ from + 1 \in Int /\ Len(log) \in Int
        /\ \A i \in from + 1 .. Len(log) : log[i] \in Items
    BY <1>1, <1>2, <1>6
  <2>2. /\ S \in Seq(Items)
        /\ Len(S) = IF from + 1 <= Len(log)
                    THEN Len(log) - (from + 1) + 1 ELSE 0
        /\ \A i \in 1 .. Len(log) - (from + 1) + 1 :
             S[i] = log[from + 1 + i - 1]
    BY <2>1, SubSeqProperties
  <2>3. /\ Len(S) = Len(R)
        /\ \A i \in 1 .. Len(R) : S[i] = R[i]
    BY <1>2, <1>5, <1>6, <1>7, <2>2
  <2>4. QED BY <1>7, <2>2, <2>3, SeqEqual
<1>9. S = Promise!Available(f)
  BY DEF Promise!Available, Promise!Later, from
<1>10. QED BY <1>2, <1>7, <1>8, <1>9 DEF skip

-----------------------------------------------------------------------------
LEMMA InitInv == Init => IInv
<1> SUFFICES ASSUME Init PROVE IInv
  OBVIOUS
<1>1. EmptyRing \in Ring
  BY CapacityAssumption DEF EmptyRing, Ring, Slots
<1>2. TypeOK
  BY <1>1 DEF Init, TypeOK, Places
<1>3. RingHoldsNewest
  <2>1. 0 \in Slots
    BY CapacityAssumption DEF Slots
  <2>2. 0 % Capacity = 0
    BY <2>1, WrapSlot
  <2>3. QED BY <2>2 DEF Init, EmptyRing, RingHoldsNewest
<1>4. NoSleepOverEvents /\ ReaderInv /\ ReplyMovesForward
  BY DEF Init, NoSleepOverEvents, ReaderInv, ReplyMovesForward
<1>5. QED BY <1>2, <1>3, <1>4 DEF IInv

LEMMA NextInv == IInv /\ [Next]_vars => IInv'
<1> SUFFICES ASSUME IInv, [Next]_vars PROVE IInv'
  OBVIOUS
<1> USE DEF IInv
<1>1. /\ start_id \in Nat /\ queue.count \in Nat /\ Len(log) \in Nat
      /\ start_id + queue.count = Len(log) /\ CurrentId = Len(log)
      /\ \A b \in Browsers : last[b] \in Nat
  BY DEF TypeOK, RingHoldsNewest, Ring, CurrentId
<1>2. ASSUME NEW e \in Items, PushEvent(e)
      PROVE  IInv'
  <2>1. /\ queue' \in Ring /\ start_id' \in Nat /\ log' \in Seq(Items)
        /\ Len(log') = Len(log) + 1
        /\ RingHoldsNewest'
    BY <1>2, PushKeepsRing
  <2>2. /\ last' = last /\ reply' = reply
        /\ pc' = [b \in Browsers |->
                    IF pc[b] = "parked" THEN "asked" ELSE pc[b]]
    BY <1>2 DEF PushEvent, NotifyAll
  <2>3. TypeOK'
    BY <2>1, <2>2 DEF TypeOK, Places
  <2>4. NoSleepOverEvents' /\ ReplyMovesForward'
    BY <2>2 DEF NoSleepOverEvents, ReplyMovesForward
  <2>5. ReaderInv'
    <3> SUFFICES ASSUME NEW b \in Browsers
                 PROVE  /\ last[b] <= Len(log')
                        /\ pc'[b] = "ready" => last[b] < Len(log')
                        /\ pc'[b] = "replied" =>
                             /\ reply[b] \in Batches
                             /\ last[b] < reply[b].id
                             /\ reply[b].id <= Len(log')
                        /\ pc'[b] # "replied" => reply[b] = NoReply
      BY <2>2 DEF ReaderInv
    <3>1. /\ pc'[b] = "replied" <=> pc[b] = "replied"
          /\ pc'[b] = "ready" => pc[b] = "ready"
      BY <2>2
    <3>2. reply[b] \in Batches => reply[b].id \in Nat
      BY DEF Batches
    <3>3. QED BY <1>1, <2>1, <3>1, <3>2 DEF ReaderInv
  <2>6. QED BY <2>1, <2>3, <2>4, <2>5
<1>3. ASSUME NEW b \in Browsers, Ask(b)
      PROVE  IInv'
  <2>1. TypeOK'
    BY <1>3 DEF Ask, Go, TypeOK, Places
  <2>2. RingHoldsNewest'
    BY <1>3 DEF Ask, RingHoldsNewest
  <2>3. (NoSleepOverEvents /\ ReaderInv /\ ReplyMovesForward)'
    BY <1>3 DEF Ask, Go, TypeOK, NoSleepOverEvents, ReaderInv, ReplyMovesForward
  <2>4. QED BY <2>1, <2>2, <2>3
<1>4. ASSUME NEW b \in Browsers, WaitForEvent(b)
      PROVE  IInv'
  <2>1. TypeOK'
    BY <1>4 DEF WaitForEvent, Go, TypeOK, Places
  <2>2. RingHoldsNewest'
    BY <1>4 DEF WaitForEvent, RingHoldsNewest
  <2>3. (NoSleepOverEvents /\ ReaderInv /\ ReplyMovesForward)'
    BY <1>1, <1>4
       DEF WaitForEvent, Go, TypeOK, NoSleepOverEvents, ReaderInv, ReplyMovesForward
  <2>4. QED BY <2>1, <2>2, <2>3
<1>5. ASSUME NEW b \in Browsers, SpuriousWakeup(b)
      PROVE  IInv'
  <2>1. TypeOK'
    BY <1>5 DEF SpuriousWakeup, Go, TypeOK, Places
  <2>2. RingHoldsNewest'
    BY <1>5 DEF SpuriousWakeup, RingHoldsNewest
  <2>3. (NoSleepOverEvents /\ ReaderInv /\ ReplyMovesForward)'
    BY <1>5
       DEF SpuriousWakeup, Go, TypeOK, NoSleepOverEvents, ReaderInv, ReplyMovesForward
  <2>4. QED BY <2>1, <2>2, <2>3
<1>6. ASSUME NEW b \in Browsers, GetEvents(b)
      PROVE  IInv'
  <2> DEFINE skip == IF last[b] > start_id THEN last[b] - start_id ELSE 0
             data == ReadAfter(queue, skip)
  <2>1. pc[b] = "ready" /\ last[b] < Len(log) /\ last[b] \in Nat
    BY <1>1, <1>6 DEF GetEvents, ReaderInv
  <2>2. /\ skip < queue.count
        /\ data \in Seq(Items) /\ Len(data) = queue.count - skip
        /\ Len(data) =
             IF Len(log) - last[b] < Capacity THEN Len(log) - last[b] ELSE Capacity
    BY <2>1, ReadIsWindow
  <2>3. data # <<>>
    <3>1. Len(data) > 0
      BY <1>1, <2>1, <2>2, CapacityAssumption
    <3>2. QED BY <3>1
  <2> HIDE DEF data
  <2>4. /\ reply' = [reply EXCEPT ![b] = [id |-> Len(log), data |-> data]]
        /\ pc' = [pc EXCEPT ![b] = "replied"]
        /\ UNCHANGED <<queue, start_id, last, log>>
    BY <1>1, <1>6, <2>2 DEF GetEvents, Go, CurrentId, data
  <2>5. TypeOK'
    BY <1>1, <2>2, <2>4 DEF TypeOK, Places, Batches
  <2>6. RingHoldsNewest'
    BY <2>4 DEF RingHoldsNewest
  <2>7. NoSleepOverEvents'
    BY <2>4 DEF NoSleepOverEvents, TypeOK
  <2>8. ReaderInv'
    BY <1>1, <2>1, <2>2, <2>4 DEF ReaderInv, TypeOK, Batches
  <2>9. ReplyMovesForward'
    BY <1>1, <2>1, <2>2, <2>3, <2>4 DEF ReplyMovesForward, TypeOK
  <2>10. QED BY <2>5, <2>6, <2>7, <2>8, <2>9
<1>7. ASSUME NEW b \in Browsers, Process(b)
      PROVE  IInv'
  <2>1. reply[b] \in Batches /\ reply[b].id \in Nat /\ reply[b].id <= Len(log)
    BY <1>7 DEF Process, ReaderInv, Batches
  <2>2. TypeOK'
    BY <1>7, <2>1 DEF Process, Go, TypeOK, Places
  <2>3. RingHoldsNewest'
    BY <1>7 DEF Process, RingHoldsNewest
  <2>4. (NoSleepOverEvents /\ ReaderInv /\ ReplyMovesForward)'
    BY <1>7, <2>1
       DEF Process, Go, TypeOK, NoSleepOverEvents, ReaderInv, ReplyMovesForward
  <2>5. QED BY <2>2, <2>3, <2>4
<1>8. ASSUME NEW b \in Browsers, LoseConnection(b)
      PROVE  IInv'
  <2>1. TypeOK'
    BY <1>8 DEF LoseConnection, Go, TypeOK, Places
  <2>2. RingHoldsNewest'
    BY <1>8 DEF LoseConnection, RingHoldsNewest
  <2>3. (NoSleepOverEvents /\ ReaderInv /\ ReplyMovesForward)'
    BY <1>8
       DEF LoseConnection, Go, TypeOK, NoSleepOverEvents, ReaderInv, ReplyMovesForward
  <2>4. QED BY <2>1, <2>2, <2>3
<1>9. CASE UNCHANGED vars
  BY <1>9 DEF vars, TypeOK, RingHoldsNewest, NoSleepOverEvents, ReaderInv,
              ReplyMovesForward
<1>10. QED
  BY <1>2, <1>3, <1>4, <1>5, <1>6, <1>7, <1>8, <1>9 DEF Next

-----------------------------------------------------------------------------
LEMMA SpecInv == Spec => []IInv
BY InitInv, NextInv, PTL DEF Spec

(* Every variable keeps its type: no count, index or id leaves its range.  *)
THEOREM TypeCorrect == Spec => []TypeOK
<1>1. IInv => TypeOK
  BY DEF IInv
<1>2. QED BY <1>1, SpecInv, PTL

(* The ring and start_id always hold the newest events of the log, however *)
(* pushEvent and getEvents interleave.                                     *)
THEOREM RingCorrect == Spec => []RingHoldsNewest
<1>1. IInv => RingHoldsNewest
  BY DEF IInv
<1>2. QED BY <1>1, SpecInv, PTL

(* No request of getJSONStringBlock is parked while it could be answered.  *)
THEOREM NoLostWakeup == Spec => []NoSleepOverEvents
<1>1. IInv => NoSleepOverEvents
  BY DEF IInv
<1>2. QED BY <1>1, SpecInv, PTL

(* The answer to a blocking request is never empty and never goes back,    *)
(* although it is built after the mutex was released.                      *)
THEOREM AnswersMoveForward == Spec => []ReplyMovesForward
<1>1. IInv => ReplyMovesForward
  BY DEF IInv
<1>2. QED BY <1>1, SpecInv, PTL

(* Browsers can only observe what EventLog allows: the detailed queue,     *)
(* with its ring, its condition variable and its unlocked gap, implements  *)
(* the log with a window.                                                  *)
THEOREM RefinesEventLog == Spec => ImplementsEventLog
<1>1. Init => Promise!Init
  BY DEF Init, Promise!Init
<1>2. IInv /\ [Next]_vars => [Promise!Next]_(Promise!vars)
  <2> SUFFICES ASSUME IInv, [Next]_vars
               PROVE  [Promise!Next]_(Promise!vars)
    OBVIOUS
  <2> USE DEF IInv
  <2>1. ASSUME NEW e \in Items, PushEvent(e)
        PROVE  Promise!Record(e)
    BY <2>1 DEF PushEvent, Promise!Record
  <2>2. ASSUME NEW b \in Browsers, Ask(b) \/ WaitForEvent(b) \/ SpuriousWakeup(b)
        PROVE  UNCHANGED Promise!vars
    BY <2>2 DEF Ask, WaitForEvent, SpuriousWakeup, Promise!vars
  <2>3. ASSUME NEW b \in Browsers, GetEvents(b)
        PROVE  Promise!Fetch(b)
    <3> DEFINE skip == IF last[b] > start_id THEN last[b] - start_id ELSE 0
    <3>1. /\ pc[b] = "ready" /\ last[b] < Len(log) /\ last[b] \in Nat
          /\ reply[b] = NoReply
      BY <2>3 DEF GetEvents, ReaderInv, TypeOK
    <3>2. /\ skip < queue.count
          /\ ReadAfter(queue, skip) = Promise!Available(last[b])
      BY <3>1, ReadIsWindow
    <3>3. CurrentId = Len(log) /\ skip \in Int /\ queue.count \in Int
      BY <3>1 DEF CurrentId, RingHoldsNewest, TypeOK, Ring
    <3>4. reply' = [reply EXCEPT ![b] =
                      [id |-> Len(log), data |-> Promise!Available(last[b])]]
      BY <2>3, <3>2, <3>3 DEF GetEvents
    <3>5. QED BY <2>3, <3>1, <3>4 DEF GetEvents, Promise!Fetch
  <2>4. ASSUME NEW b \in Browsers, Process(b)
        PROVE  Promise!Consume(b)
    <3>1. reply[b] \in Batches /\ NoReply \notin Batches
      BY <2>4, NoReplyAssumption DEF Process, ReaderInv, Batches
    <3>2. QED BY <2>4, <3>1 DEF Process, Promise!Consume
  <2>5. ASSUME NEW b \in Browsers, LoseConnection(b)
        PROVE  Promise!Lose(b) \/ UNCHANGED Promise!vars
    <3>1. CASE reply[b] = NoReply
      BY <2>5, <3>1 DEF LoseConnection, Promise!vars, TypeOK
    <3>2. CASE reply[b] # NoReply
      BY <2>5, <3>2 DEF LoseConnection, Promise!Lose
    <3>3. QED BY <3>1, <3>2
  <2>6. CASE UNCHANGED vars
    BY <2>6 DEF vars, Promise!vars
  <2>7. QED
    BY <2>1, <2>2, <2>3, <2>4, <2>5, <2>6 DEF Next, Promise!Next
<1>3. QED
  BY <1>1, <1>2, SpecInv, PTL DEF Spec, ImplementsEventLog, Promise!Spec
=============================================================================
