----------------------------- MODULE EventQueue -----------------------------
(***************************************************************************)
(* lib/ab/eventqueue.cpp and the browser loop that empties it: threads of  *)
(* the server push events into a ring of Capacity slots; each browser      *)
(* long-polls GET /events?start=<last_event_id>, parked on a condition     *)
(* variable until there is something newer.                                *)
(*                                                                         *)
(* A critical section under EventQueue::mutex is one action.  The answer   *)
(* is NOT built in the critical section that ended the wait: the mutex is  *)
(* released and taken again, and producers run in between.                 *)
(***************************************************************************)
EXTENDS CircularBuffer

CONSTANTS
  Browsers,   (* browser tabs that follow the events            *)
  NoReply,    (* no answer is on its way                        *)
  MaxEvents   (* bound on the number of events pushed           *)

ASSUME EventBoundAssumption == MaxEvents \in Nat
ASSUME NoReplyAssumption == NoReply \notin [id : Nat, data : Seq(Items)]

VARIABLES
  queue,     (* CircularBuffer of the events                                *)
  start_id,  (* number of events discarded so far: id of the oldest kept    *)
  pc,        (* where each browser's polling loop is                        *)
  last,      (* last_event_id of each browser, also the request's start     *)
  reply,     (* the answer on its way to each browser                       *)
  log        (* history: every event ever pushed                            *)

vars == <<queue, start_id, pc, last, reply, log>>

(* sleep:   the browser's one-second timer runs                            *)
(* asked:   a server thread is about to evaluate the wait condition        *)
(* parked:  it waits on wait_for_event                                     *)
(* ready:   it left the wait and holds no lock                             *)
(* replied: the answer travels to the browser                              *)
(* lost:    the connection broke; the browser never polls again            *)
Places == {"sleep", "asked", "parked", "ready", "replied", "lost"}

Batches == [id : Nat, data : Seq(Items)]

CurrentId == start_id + queue.count

Go(b, to) == pc' = [pc EXCEPT ![b] = to]

Init ==
  /\ queue = EmptyRing
  /\ start_id = 0
  /\ pc = [b \in Browsers |-> "sleep"]
  /\ last = [b \in Browsers |-> 0]
  /\ reply = [b \in Browsers |-> NoReply]
  /\ log = <<>>

-----------------------------------------------------------------------------
(* notify_all: every parked thread goes back to its loop's condition. *)
NotifyAll ==
  pc' = [b \in Browsers |-> IF pc[b] = "parked" THEN "asked" ELSE pc[b]]

(* A pushEvent that forgets that a full ring drops an event. *)
PushWithoutStartId(e) ==
  /\ Len(log) < MaxEvents
  /\ queue' = Add(queue, e)
  /\ NotifyAll
  /\ log' = Append(log, e)
  /\ UNCHANGED <<start_id, last, reply>>

(* A pushEvent that notifies only when it finds the queue empty. *)
PushNotifyWhenEmpty(e) ==
  /\ Len(log) < MaxEvents
  /\ start_id' = IF IsFull(queue) THEN start_id + 1 ELSE start_id
  /\ queue' = Add(queue, e)
  /\ IF queue.count = 0 THEN NotifyAll ELSE UNCHANGED pc
  /\ log' = Append(log, e)
  /\ UNCHANGED <<last, reply>>

(* pushEvent, from the executor thread or a thread that serves a request. *)
PushEvent(e) ==
  /\ Len(log) < MaxEvents
  /\ start_id' = IF IsFull(queue) THEN start_id + 1 ELSE start_id
  /\ queue' = Add(queue, e)
  /\ NotifyAll
  /\ log' = Append(log, e)
  /\ UNCHANGED <<last, reply>>

(* The timer of checkEvents fires: GET /events?start=last_event_id. *)
Ask(b) ==
  /\ pc[b] = "sleep"
  /\ Go(b, "asked")
  /\ UNCHANGED <<queue, start_id, last, reply, log>>

(* A wait condition that compares with the count of the ring only. *)
WaitOnCount(b) ==
  /\ pc[b] = "asked"
  /\ Go(b, IF last[b] >= queue.count THEN "parked" ELSE "ready")
  /\ UNCHANGED <<queue, start_id, last, reply, log>>

(* A wait condition that lets a request pass when nothing is new. *)
WaitUnlessAhead(b) ==
  /\ pc[b] = "asked"
  /\ Go(b, IF last[b] > CurrentId THEN "parked" ELSE "ready")
  /\ UNCHANGED <<queue, start_id, last, reply, log>>

(* The loop of getJSONStringBlock: park, or leave with the mutex released. *)
WaitForEvent(b) ==
  /\ pc[b] = "asked"
  /\ Go(b, IF last[b] >= CurrentId THEN "parked" ELSE "ready")
  /\ UNCHANGED <<queue, start_id, last, reply, log>>

(* A condition variable may wake a thread for no reason. *)
SpuriousWakeup(b) ==
  /\ pc[b] = "parked"
  /\ Go(b, "asked")
  /\ UNCHANGED <<queue, start_id, last, reply, log>>

(* getEvents, under the mutex again: the current id, and what follows the  *)
(* browser's id if anything does.                                          *)
GetEvents(b) ==
  /\ pc[b] = "ready"
  /\ LET skip == IF last[b] > start_id THEN last[b] - start_id ELSE 0
     IN  reply' = [reply EXCEPT ![b] =
                     [id |-> CurrentId,
                      data |-> IF queue.count > skip
                               THEN ReadAfter(queue, skip)
                               ELSE <<>>]]
  /\ Go(b, "replied")
  /\ UNCHANGED <<queue, start_id, last, log>>

(* The callback of checkEvents: process, remember the id, arm the timer. *)
Process(b) ==
  /\ pc[b] = "replied"
  /\ last' = [last EXCEPT ![b] = reply[b].id]
  /\ reply' = [reply EXCEPT ![b] = NoReply]
  /\ Go(b, "sleep")
  /\ UNCHANGED <<queue, start_id, log>>

(* The request fails: $.get has no error callback, so nothing polls again. *)
LoseConnection(b) ==
  /\ pc[b] \in {"asked", "parked", "ready", "replied"}
  /\ reply' = [reply EXCEPT ![b] = NoReply]
  /\ Go(b, "lost")
  /\ UNCHANGED <<queue, start_id, last, log>>

Next ==
  \/ \E e \in Items : PushEvent(e)
  \/ \E b \in Browsers :
       \/ Ask(b) \/ WaitForEvent(b) \/ SpuriousWakeup(b)
       \/ GetEvents(b) \/ Process(b) \/ LoseConnection(b)

(* The browser's timer fires, a thread of the pool gets the mutex (no       *)
(* thread keeps it for long) and answers arrive.  Nothing makes producers   *)
(* push, wakes a thread without reason or breaks a connection.              *)
Fairness ==
  \A b \in Browsers :
    WF_vars(Ask(b)) /\ WF_vars(WaitForEvent(b))
      /\ WF_vars(GetEvents(b)) /\ WF_vars(Process(b))

Spec == Init /\ [][Next]_vars
FairSpec == Spec /\ Fairness

-----------------------------------------------------------------------------
TypeOK ==
  /\ queue \in Ring
  /\ start_id \in Nat
  /\ pc \in [Browsers -> Places]
  /\ last \in [Browsers -> Nat]
  /\ reply \in [Browsers -> Batches \cup {NoReply}]
  /\ log \in Seq(Items)

(* The ring and start_id together always hold the newest events: slot by   *)
(* slot, the ring is the end of everything pushed, nothing is dropped      *)
(* before the ring is full, and the id of the next event is the number of  *)
(* events pushed.                                                          *)
RingHoldsNewest ==
  /\ queue.end = (queue.start + queue.count) % Capacity
  /\ start_id + queue.count = Len(log)
  /\ start_id > 0 => queue.count = Capacity
  /\ \A i \in 0 .. queue.count - 1 :
       queue.data[(queue.start + i) % Capacity] = log[start_id + i + 1]

(* No lost wakeup: a thread is never parked while an event newer than what *)
(* its browser saw is in the queue, whatever happened between its check    *)
(* and the notification.                                                   *)
NoSleepOverEvents ==
  \A b \in Browsers : pc[b] = "parked" => last[b] >= Len(log)

(* Releasing the mutex between the wait and the read is harmless: the      *)
(* answer to a blocking request is never empty and never moves the browser *)
(* backwards, even when the ring was overwritten in between.               *)
ReplyMovesForward ==
  \A b \in Browsers :
    pc[b] = "replied" =>
      /\ reply[b].data # <<>>
      /\ last[b] < reply[b].id
      /\ Len(reply[b].data) = IF reply[b].id - last[b] < Capacity
                              THEN reply[b].id - last[b]
                              ELSE Capacity

(* Browsers see what EventLog promises: a gap-free, ordered part of the    *)
(* log, where only overwritten events can be missing.                      *)
Promise == INSTANCE EventLog WITH
             Window <- Capacity, Events <- Items, NoBatch <- NoReply,
             cursor <- last, inbox <- reply

ImplementsEventLog == Promise!Spec

(* Every event pushed is eventually behind the last_event_id of every      *)
(* browser whose connection holds.                                         *)
EveryEventReachesEveryBrowser ==
  \A b \in Browsers : \A n \in 1 .. MaxEvents :
    Len(log) >= n ~> (last[b] >= n \/ pc[b] = "lost")
=============================================================================
