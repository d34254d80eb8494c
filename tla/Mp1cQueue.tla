----------------------------- MODULE Mp1cQueue -----------------------------
(***************************************************************************)
(* husky::mp1c::queue (src/include/common/husky_queue.h): many producer    *)
(* processes and one consumer over a mapped file.  A producer reserves a   *)
(* slot by a compare-and-swap on w_cursor, copies its message and raises   *)
(* the slot's w_flag; the consumer waits for the flag of the slot at       *)
(* r_cursor, lowers it, advances and hands out a pointer into the slot.    *)
(* The file outlives the processes, so a producer that dies leaves its     *)
(* slot as it is, and a consumer that dies is followed by another one that *)
(* goes on from the cursors in the file.                                   *)
(*                                                                         *)
(* A message is the number of the reservation it was written for.          *)
(***************************************************************************)
EXTENDS Integers, Sequences

CONSTANTS
  Producers,
  Slots,        \* values of a cursor: 2^16 in the code
  MaxMessages,  \* bound on the reservations
  MaxLag,       \* reservations the consumer may be behind: see Reserve
  MaxCrashes,   \* bound on the producers that die inside enqueue()
  MaxRestarts   \* bound on the consumers that die

ASSUME Mp1cQueueAssumption ==
  /\ Slots \in Nat \ {0} /\ MaxMessages \in Nat
  /\ MaxLag \in 1..(Slots - 1)
  /\ MaxCrashes \in Nat /\ MaxRestarts \in Nat

VARIABLES
  w_cursor,   \* hdr.w_cursor
  r_cursor,   \* hdr.r_cursor
  w_flag,     \* payload.w_flag of each slot
  data,       \* payload.data of each slot
  pc,         \* where each producer stands in enqueue()
  turn,       \* the reservation of each producer's latest enqueue()
  cpc,        \* where the consumer stands in dequeue()
  hand,       \* the slot whose address dequeue() returned last
  reserved,   \* history: reservations so far
  taken,      \* history: messages the consumer has advanced past
  received,   \* history: what the consumer read through its pointers
  crashes, restarts,  \* history: processes that died
  wedged      \* history: a consumer died between lowering a flag and advancing

prodVars == <<pc, turn, crashes>>
consVars == <<cpc, hand, taken, received, restarts, wedged>>
vars == <<w_cursor, r_cursor, w_flag, data, prodVars, consVars, reserved>>

----------------------------------------------------------------------------
(* enqueue(). *)

(* What producers must be kept from by other means, for the queue never      *)
(* checks whether it is full: a slot is not reserved again before the        *)
(* consumer has done with the pointer it got into it.                        *)
LagAllows == reserved - taken + (IF cpc = "holding" THEN 1 ELSE 0) < MaxLag

(* Mutant: w_inc() is a plain increment, and one of two may be lost. *)
PlainIncrement(c) == IF reserved = 1 THEN c ELSE (c + 1) % Slots

(* Mutant: the cursor wraps one slot late. *)
OneSlotTooMany(c) == (c + 1) % (Slots + 1)

Increment(c) == (c + 1) % Slots

Reserve(p) ==
  /\ pc[p] = "idle"
  /\ reserved < MaxMessages /\ LagAllows
  /\ w_cursor' = Increment(w_cursor)
  /\ reserved' = reserved + 1
  /\ turn' = [turn EXCEPT ![p] = [slot |-> w_cursor, number |-> reserved + 1]]
  /\ pc' = [pc EXCEPT ![p] = "reserved"]
  /\ UNCHANGED <<r_cursor, w_flag, data, crashes, consVars>>

Copy(p) ==
  /\ pc[p] = "reserved"
  /\ data' = [data EXCEPT ![turn[p].slot] = turn[p].number]
  /\ pc' = [pc EXCEPT ![p] = "copied"]
  /\ UNCHANGED <<w_cursor, r_cursor, w_flag, turn, crashes, consVars, reserved>>

FinishWrite(p) ==
  /\ pc[p] = "copied"
  /\ w_flag' = [w_flag EXCEPT ![turn[p].slot] = TRUE]
  /\ pc' = [pc EXCEPT ![p] = "idle"]
  /\ UNCHANGED <<w_cursor, r_cursor, data, turn, crashes, consVars, reserved>>

ProducerDies(p) ==
  /\ pc[p] \in {"reserved", "copied"}
  /\ crashes < MaxCrashes
  /\ crashes' = crashes + 1
  /\ pc' = [pc EXCEPT ![p] = "dead"]
  /\ UNCHANGED <<w_cursor, r_cursor, w_flag, data, turn, consVars, reserved>>

----------------------------------------------------------------------------
(* dequeue(), and what the caller does with the pointer. *)

(* Mutant: the cursors are compared as if they never wrapped. *)
NeverWraps == w_cursor <= r_cursor

IsEmpty == w_cursor = r_cursor

Enter ==
  /\ cpc = "out" /\ ~IsEmpty
  /\ cpc' = "waiting"
  /\ UNCHANGED <<w_cursor, r_cursor, w_flag, data, prodVars, hand, taken, received,
                 restarts, wedged, reserved>>

(* Mutant: the consumer does not wait for the flag. *)
NoWait == TRUE

Ready == w_flag[r_cursor]

SeeFlag ==
  /\ cpc = "waiting" /\ Ready
  /\ cpc' = "ready"
  /\ UNCHANGED <<w_cursor, r_cursor, w_flag, data, prodVars, hand, taken, received,
                 restarts, wedged, reserved>>

(* Mutant: the flag stays up for the next lap. *)
FlagKept == UNCHANGED w_flag

FlagLowered == w_flag' = [w_flag EXCEPT ![r_cursor] = FALSE]

LowerFlag ==
  /\ cpc = "ready"
  /\ FlagLowered
  /\ cpc' = "lowered"
  /\ UNCHANGED <<w_cursor, r_cursor, data, prodVars, hand, taken, received,
                 restarts, wedged, reserved>>

(* Mutant: r_cursor moves before the address is taken from it. *)
NextSlot == Increment(r_cursor)

SlotTaken == r_cursor

Advance ==
  /\ cpc = "lowered"
  /\ hand' = SlotTaken
  /\ r_cursor' = Increment(r_cursor)
  /\ taken' = taken + 1
  /\ cpc' = "holding"
  /\ UNCHANGED <<w_cursor, w_flag, data, prodVars, received, restarts, wedged, reserved>>

ReadMessage ==
  /\ cpc = "holding"
  /\ received' = Append(received, data[hand])
  /\ cpc' = "out"
  /\ UNCHANGED <<w_cursor, r_cursor, w_flag, data, prodVars, hand, taken,
                 restarts, wedged, reserved>>

(* A new consumer starts from what the file holds. *)
ConsumerRestarts ==
  /\ cpc # "out" /\ restarts < MaxRestarts
  /\ restarts' = restarts + 1
  /\ cpc' = "out"
  /\ wedged' = (wedged \/ cpc = "lowered")
  /\ UNCHANGED <<w_cursor, r_cursor, w_flag, data, prodVars, hand, taken, received, reserved>>

----------------------------------------------------------------------------

Init ==
  /\ w_cursor = 0 /\ r_cursor = 0
  /\ w_flag = [s \in 0..(Slots - 1) |-> FALSE]
  /\ data = [s \in 0..(Slots - 1) |-> 0]
  /\ pc = [p \in Producers |-> "idle"]
  /\ turn = [p \in Producers |-> [slot |-> 0, number |-> 0]]
  /\ cpc = "out" /\ hand = 0
  /\ reserved = 0 /\ taken = 0 /\ received = <<>>
  /\ crashes = 0 /\ restarts = 0 /\ wedged = FALSE

Enqueue(p) == Copy(p) \/ FinishWrite(p)
Dequeue == Enter \/ SeeFlag \/ LowerFlag \/ Advance \/ ReadMessage

Next ==
  \/ \E p \in Producers : Reserve(p) \/ Enqueue(p) \/ ProducerDies(p)
  \/ Dequeue
  \/ ConsumerRestarts

(* A producer that lives finishes its enqueue(), and the consumer polls. *)
Fairness == WF_vars(Dequeue) /\ \A p \in Producers : WF_vars(Enqueue(p))

Spec == Init /\ [][Next]_vars /\ Fairness
----------------------------------------------------------------------------
(* Properties. *)

Writing == {p \in Producers : pc[p] \in {"reserved", "copied"}}

TypeOK ==
  /\ w_cursor \in 0..(Slots - 1) /\ r_cursor \in 0..(Slots - 1) /\ hand \in 0..(Slots - 1)
  /\ w_flag \in [0..(Slots - 1) -> BOOLEAN]
  /\ data \in [0..(Slots - 1) -> 0..MaxMessages]
  /\ pc \in [Producers -> {"idle", "reserved", "copied", "dead"}]
  /\ turn \in [Producers -> [slot : 0..(Slots - 1), number : 0..MaxMessages]]
  /\ cpc \in {"out", "waiting", "ready", "lowered", "holding"}
  /\ reserved \in 0..MaxMessages /\ taken \in 0..reserved
  /\ received \in Seq(0..MaxMessages)
  /\ crashes \in 0..MaxCrashes /\ restarts \in 0..MaxRestarts
  /\ wedged \in BOOLEAN

(* Nobody writes into a slot that another producer is writing, or that the  *)
(* consumer holds a pointer into.                                           *)
SlotHasOneUser ==
  /\ \A p, q \in Writing : p # q => turn[p].slot # turn[q].slot
  /\ cpc = "holding" => \A p \in Writing : turn[p].slot # hand

(* A raised flag stands for a message of this lap that has not been taken. *)
FlagMarksUnreadMessage ==
  \A s \in 0..(Slots - 1) : w_flag[s] => data[s] > taken /\ data[s] <= reserved

(* Messages arrive in the order of their reservations, none twice, none     *)
(* before it was written, and none is left out unless a consumer died with  *)
(* it.                                                                      *)
ReceivedInOrder ==
  /\ \A i \in 1..Len(received) : received[i] >= i /\ received[i] <= taken
  /\ \A i \in 2..Len(received) : received[i] > received[i - 1]
  /\ restarts = 0 => \A i \in 1..Len(received) : received[i] = i

(* Every reservation is taken in the end, unless a producer died before it  *)
(* published its own or an earlier one, or a consumer died between lowering *)
(* a flag and advancing past it.                                            *)
EveryMessageIsTaken ==
  \A n \in 1..MaxMessages :
    (reserved >= n) ~> \/ taken >= n
                       \/ \E p \in Producers : pc[p] = "dead" /\ turn[p].number <= n
                       \/ wedged
(* Seen from its users, the queue is the channel of MessageChannel: what a  *)
(* consumer reads through its pointers is the oldest message reserved and   *)
(* not yet read, and the death of a consumer loses at most the one it held. *)
InHand == IF cpc = "holding" THEN 1 ELSE 0

Unread == [i \in 1..(reserved - taken + InHand) |-> (taken - InHand) + i]

Channel == INSTANCE MessageChannel
             WITH Messages <- 1..MaxMessages,
                  pending <- Unread, delivered <- received, deaths <- restarts

ImplementsMessageChannel == Channel!Spec
============================================================================
