-------------------------- MODULE Mp1cQueueProofs --------------------------
(***************************************************************************)
(* Proofs about Mp1cQueue, for every set of producers, every number of     *)
(* slots, messages, crashes and restarts, and every lag the producers are  *)
(* kept to that is below the number of slots.                              *)
(*                                                                         *)
(* The invariant counts slots from r_cursor on: the slot that is k ahead   *)
(* of it is the one of message taken + 1 + k.  So a writer, a raised flag  *)
(* and the pointer the consumer holds are in slots of their own as long as *)
(* no more than MaxLag messages are on their way, across every wrap of the *)
(* cursors.                                                                *)
(***************************************************************************)
EXTENDS Mp1cQueue, SequenceTheorems, TLAPS

Cursor == 0..(Slots - 1)

(* How many slots s is ahead of r. *)
Ahead(s, r) == IF s >= r THEN s - r ELSE s - r + Slots

Held == IF cpc = "holding" THEN 1 ELSE 0

Lag ==
  /\ Ahead(w_cursor, r_cursor) = reserved - taken
  /\ (reserved - taken) + Held <= MaxLag
  /\ cpc \in {"waiting", "ready", "lowered"} => taken < reserved

WritersAhead ==
  \A p \in Writing :
    /\ turn[p].number \in (taken + 1)..reserved
    /\ Ahead(turn[p].slot, r_cursor) = turn[p].number - (taken + 1)
    /\ ~w_flag[turn[p].slot]
    /\ pc[p] = "copied" => data[turn[p].slot] = turn[p].number

OneWriter == \A p, q \in Writing : p # q => turn[p].slot # turn[q].slot

FlagsAhead ==
  \A s \in Cursor :
    w_flag[s] => /\ Ahead(s, r_cursor) < reserved - taken
                 /\ data[s] = (taken + 1) + Ahead(s, r_cursor)

ConsumersSlot ==
  /\ cpc = "ready" => w_flag[r_cursor]
  /\ cpc = "lowered" => /\ ~w_flag[r_cursor] /\ data[r_cursor] = taken + 1
                        /\ \A p \in Writing : turn[p].slot # r_cursor
  /\ cpc = "holding" => data[hand] = taken /\ Ahead(hand, r_cursor) = Slots - 1

Readings ==
  /\ Len(received) + Held <= taken
  /\ \A i \in 1..Len(received) : received[i] + Held <= taken
  /\ restarts = 0 => Len(received) + Held = taken

IInv ==
  /\ TypeOK
  /\ Lag
  /\ WritersAhead
  /\ OneWriter
  /\ FlagsAhead
  /\ ConsumersSlot
  /\ Readings
  /\ ReceivedInOrder

----------------------------------------------------------------------------
(* Lemmas about the cursors. *)

LEMMA SlotsPositive == Slots \in Nat /\ Slots >= 2 /\ MaxLag \in Nat /\ MaxLag <= Slots - 1
BY Mp1cQueueAssumption

LEMMA IncrementWraps ==
  ASSUME NEW c \in Cursor
  PROVE  /\ Increment(c) \in Cursor
         /\ Increment(c) = IF c = Slots - 1 THEN 0 ELSE c + 1
<1>1. CASE c = Slots - 1
  <2>1. c + 1 = Slots /\ Slots \in Nat \ {0}
    BY <1>1, SlotsPositive
  <2>2. \A n \in Nat \ {0} : n % n = 0
    OBVIOUS
  <2> QED
    BY <1>1, <2>1, <2>2, SlotsPositive DEF Increment, Cursor
<1>2. CASE c # Slots - 1
  <2>1. c + 1 \in Nat /\ c + 1 < Slots
    BY <1>2, SlotsPositive DEF Cursor
  <2>2. (c + 1) % Slots = c + 1
    BY <2>1, SlotsPositive
  <2> QED
    BY <1>2, <2>1, <2>2, SlotsPositive DEF Increment, Cursor
<1> QED
  BY <1>1, <1>2

LEMMA AheadInRange ==
  ASSUME NEW s \in Cursor, NEW r \in Cursor
  PROVE  /\ Ahead(s, r) \in Cursor
         /\ Ahead(s, r) = 0 <=> s = r
BY SlotsPositive DEF Ahead, Cursor

LEMMA AheadInjective ==
  ASSUME NEW s \in Cursor, NEW t \in Cursor, NEW r \in Cursor, Ahead(s, r) = Ahead(t, r)
  PROVE  s = t
BY SlotsPositive DEF Ahead, Cursor

(* The slot after s is one more ahead, unless it is r itself. *)
LEMMA AheadOfNextSlot ==
  ASSUME NEW s \in Cursor, NEW r \in Cursor, Ahead(s, r) < Slots - 1
  PROVE  Ahead(Increment(s), r) = Ahead(s, r) + 1
<1>1. Increment(s) = IF s = Slots - 1 THEN 0 ELSE s + 1
  BY IncrementWraps
<1> QED
  BY <1>1, SlotsPositive DEF Ahead, Cursor

(* Counted from the slot after r, everything is one less ahead, and r last. *)
LEMMA AheadOfNextReader ==
  ASSUME NEW s \in Cursor, NEW r \in Cursor
  PROVE  Ahead(s, Increment(r)) = IF s = r THEN Slots - 1 ELSE Ahead(s, r) - 1
<1>1. Increment(r) = IF r = Slots - 1 THEN 0 ELSE r + 1
  BY IncrementWraps
<1> QED
  BY <1>1, SlotsPositive DEF Ahead, Cursor

----------------------------------------------------------------------------

LEMMA InitIInv == Init => IInv
<1> SUFFICES ASSUME Init PROVE IInv
  OBVIOUS
<1> USE SlotsPositive, Mp1cQueueAssumption
<1>1. /\ w_cursor = 0 /\ r_cursor = 0 /\ hand = 0 /\ reserved = 0 /\ taken = 0
      /\ received = <<>> /\ Len(received) = 0 /\ cpc = "out"
      /\ crashes = 0 /\ restarts = 0 /\ wedged = FALSE
      /\ w_flag = [s \in Cursor |-> FALSE] /\ data = [s \in Cursor |-> 0]
  BY DEF Init, Cursor
<1>2. Writing = {}
  BY DEF Init, Writing
<1>3. TypeOK
  <2>1. received \in Seq(0..MaxMessages)
    BY <1>1
  <2>2. turn \in [Producers -> [slot : 0..(Slots - 1), number : 0..MaxMessages]]
    BY DEF Init
  <2>3. pc \in [Producers -> {"idle", "reserved", "copied", "dead"}]
    BY DEF Init
  <2>4. /\ w_flag \in [Cursor -> BOOLEAN] /\ data \in [Cursor -> 0..MaxMessages]
        /\ 0 \in Cursor /\ 0 \in 0..MaxCrashes /\ 0 \in 0..MaxRestarts /\ 0 \in 0..MaxMessages
        /\ 0 \in 0..0
    BY <1>1 DEF Cursor
  <2> HIDE SlotsPositive, Mp1cQueueAssumption
  <2> QED
    BY <1>1, <2>1, <2>2, <2>3, <2>4 DEF TypeOK, Cursor
<1>4. Lag
  BY <1>1 DEF Lag, Ahead, Held
<1>5. WritersAhead /\ OneWriter
  BY <1>2 DEF WritersAhead, OneWriter
<1>6. FlagsAhead /\ ConsumersSlot
  BY <1>1 DEF FlagsAhead, ConsumersSlot
<1>7. Readings /\ ReceivedInOrder
  BY <1>1 DEF Readings, Held, ReceivedInOrder
<1> QED
  BY <1>3, <1>4, <1>5, <1>6, <1>7 DEF IInv

(* Where a writer is, its slot is one between r_cursor and w_cursor. *)
LEMMA WriterTyped ==
  ASSUME IInv, NEW p \in Writing
  PROVE  /\ p \in Producers /\ turn[p].slot \in Cursor /\ turn[p].number \in 1..MaxMessages
         /\ Ahead(turn[p].slot, r_cursor) < reserved - taken
<1>1. /\ p \in Producers /\ turn[p].slot \in Cursor
      /\ reserved \in 0..MaxMessages /\ taken \in 0..reserved
  BY DEF Writing, IInv, TypeOK, Cursor
<1>2. /\ turn[p].number \in (taken + 1)..reserved
      /\ Ahead(turn[p].slot, r_cursor) = turn[p].number - (taken + 1)
  BY DEF IInv, WritersAhead
<1> QED
  BY <1>1, <1>2, Mp1cQueueAssumption

LEMMA ReceivedTyped ==
  ASSUME IInv
  PROVE  /\ Len(received) \in Nat /\ \A i \in 1..Len(received) : received[i] \in Nat
         /\ taken \in Nat
<1>1. received \in Seq(0..MaxMessages) /\ taken \in 0..reserved /\ reserved \in 0..MaxMessages
  BY DEF IInv, TypeOK
<1>2. Len(received) \in Nat
  BY <1>1, LenProperties
<1>3. \A i \in 1..Len(received) : received[i] \in 0..MaxMessages
  BY <1>1, ElementOfSeq
<1>4. \A n \in 0..MaxMessages : n \in Nat
  OBVIOUS
<1>5. taken \in Nat
  BY <1>1, Mp1cQueueAssumption
<1> QED
  BY <1>2, <1>3, <1>4, <1>5

(* The slot whose address the consumer holds is behind all the writers. *)
LEMMA NoWriterInHand ==
  ASSUME IInv, cpc = "holding", NEW p \in Writing
  PROVE  turn[p].slot # hand
<1>1. Ahead(hand, r_cursor) = Slots - 1
  BY DEF IInv, ConsumersSlot
<1>2. (reserved - taken) + 1 <= MaxLag
  BY DEF IInv, Lag, Held
<1>3. /\ Ahead(turn[p].slot, r_cursor) < reserved - taken
      /\ reserved \in 0..MaxMessages /\ taken \in 0..reserved
  BY WriterTyped DEF IInv, TypeOK
<1>4. reserved - taken < Slots - 1 /\ reserved - taken \in Int
  BY <1>2, <1>3, Mp1cQueueAssumption
<1>5. Ahead(turn[p].slot, r_cursor) # Slots - 1
  BY <1>3, <1>4, SlotsPositive
<1> QED
  BY <1>1, <1>5

LEMMA ReserveIInv ==
  ASSUME IInv, NEW p \in Producers, Reserve(p)
  PROVE  IInv'
<1> USE SlotsPositive
<1>1. /\ pc[p] = "idle" /\ pc' = [pc EXCEPT ![p] = "reserved"]
      /\ w_cursor' = Increment(w_cursor) /\ reserved' = reserved + 1
      /\ turn' = [turn EXCEPT ![p] = [slot |-> w_cursor, number |-> reserved + 1]]
      /\ UNCHANGED <<r_cursor, w_flag, data, crashes, cpc, hand, taken, received, restarts, wedged>>
      /\ reserved < MaxMessages /\ (reserved - taken) + Held < MaxLag
  BY DEF Reserve, LagAllows, Held, consVars
<1>2. /\ w_cursor \in Cursor /\ r_cursor \in Cursor
      /\ reserved \in 0..MaxMessages /\ taken \in 0..reserved /\ MaxMessages \in Nat
      /\ Ahead(w_cursor, r_cursor) = reserved - taken
      /\ Held \in {0, 1} /\ Held' = Held
  BY <1>1, Mp1cQueueAssumption DEF IInv, TypeOK, Lag, Held, Cursor
<1>3. /\ Increment(w_cursor) \in Cursor
      /\ Ahead(Increment(w_cursor), r_cursor) = (reserved + 1) - taken
  BY <1>1, <1>2, IncrementWraps, AheadOfNextSlot
<1>4. Writing' = Writing \cup {p} /\ p \notin Writing
  BY <1>1 DEF Writing, IInv, TypeOK
<1>5. /\ turn'[p] = [slot |-> w_cursor, number |-> reserved + 1]
      /\ \A q \in Writing : turn'[q] = turn[q] /\ pc'[q] = pc[q]
      /\ pc'[p] = "reserved"
  BY <1>1, <1>4 DEF Writing, IInv, TypeOK
<1>6. ~w_flag[w_cursor]
  BY <1>2 DEF IInv, FlagsAhead
<1>7. \A q \in Writing : turn[q].slot # w_cursor
  BY <1>2, WriterTyped
<1>8. TypeOK'
  <2>1. turn' \in [Producers -> [slot : 0..(Slots - 1), number : 0..MaxMessages]]
    BY <1>1, <1>2 DEF IInv, TypeOK, Cursor
  <2>2. pc' \in [Producers -> {"idle", "reserved", "copied", "dead"}]
    BY <1>1 DEF IInv, TypeOK
  <2>3. w_cursor' \in Cursor /\ reserved' \in 0..MaxMessages /\ taken' \in 0..reserved'
    BY <1>1, <1>2, <1>3
  <2> QED
    BY <1>1, <2>1, <2>2, <2>3 DEF IInv, TypeOK, Cursor
<1>9. Lag'
  BY <1>1, <1>2, <1>3 DEF IInv, Lag
<1>10. WritersAhead'
  <2> SUFFICES ASSUME NEW q \in Writing'
               PROVE  /\ turn'[q].number \in (taken + 1)..(reserved + 1)
                      /\ Ahead(turn'[q].slot, r_cursor) = turn'[q].number - (taken + 1)
                      /\ ~w_flag[turn'[q].slot]
                      /\ pc'[q] = "copied" => data[turn'[q].slot] = turn'[q].number
    BY <1>1 DEF WritersAhead
  <2>1. CASE q = p
    BY <1>2, <1>5, <1>6, <2>1
  <2>2. CASE q \in Writing
    BY <1>2, <1>5, <2>2 DEF IInv, WritersAhead
  <2> QED
    BY <1>4, <2>1, <2>2
<1>11. OneWriter'
  <2> SUFFICES ASSUME NEW q \in Writing', NEW o \in Writing', q # o
               PROVE  turn'[q].slot # turn'[o].slot
    BY DEF OneWriter
  <2> QED
    BY <1>4, <1>5, <1>7 DEF IInv, OneWriter
<1>12. FlagsAhead'
  <2> SUFFICES ASSUME NEW s \in Cursor, w_flag[s]
               PROVE  /\ Ahead(s, r_cursor) < (reserved + 1) - taken
                      /\ data[s] = (taken + 1) + Ahead(s, r_cursor)
    BY <1>1 DEF FlagsAhead
  <2>1. Ahead(s, r_cursor) \in Int
    BY <1>2, AheadInRange DEF Cursor
  <2> QED
    BY <1>2, <2>1 DEF IInv, FlagsAhead
<1>13. ConsumersSlot'
  <2>1. cpc = "lowered" => w_cursor # r_cursor
    BY <1>2, AheadInRange DEF IInv, Lag
  <2> QED
    BY <1>1, <1>4, <1>5, <2>1 DEF IInv, ConsumersSlot
<1>14. Readings' /\ ReceivedInOrder'
  BY <1>1, <1>2 DEF IInv, Readings, ReceivedInOrder
<1> QED
  BY <1>8, <1>9, <1>10, <1>11, <1>12, <1>13, <1>14 DEF IInv

LEMMA CopyIInv ==
  ASSUME IInv, NEW p \in Producers, Copy(p)
  PROVE  IInv'
<1> USE SlotsPositive
<1>1. /\ pc[p] = "reserved" /\ pc' = [pc EXCEPT ![p] = "copied"]
      /\ data' = [data EXCEPT ![turn[p].slot] = turn[p].number]
      /\ UNCHANGED <<w_cursor, r_cursor, w_flag, turn, crashes, cpc, hand, taken, received,
                     restarts, wedged, reserved>>
  BY DEF Copy, consVars
<1>2. /\ Writing' = Writing /\ p \in Writing
      /\ \A q \in Writing : q # p => pc'[q] = pc[q]
  BY <1>1 DEF Writing, IInv, TypeOK
<1>3. /\ turn[p].slot \in Cursor /\ turn[p].number \in 1..MaxMessages
      /\ Ahead(turn[p].slot, r_cursor) < reserved - taken /\ ~w_flag[turn[p].slot]
      /\ Held' = Held
  BY <1>1, <1>2, WriterTyped DEF IInv, WritersAhead, Held
<1>4. /\ data'[turn[p].slot] = turn[p].number
      /\ \A s \in Cursor : s # turn[p].slot => data'[s] = data[s]
  BY <1>1, <1>3 DEF IInv, TypeOK, Cursor
<1>5. TypeOK'
  <2>1. data' \in [0..(Slots - 1) -> 0..MaxMessages]
    BY <1>1, <1>3 DEF IInv, TypeOK, Cursor
  <2>2. pc' \in [Producers -> {"idle", "reserved", "copied", "dead"}]
    BY <1>1 DEF IInv, TypeOK
  <2> QED
    BY <1>1, <2>1, <2>2 DEF IInv, TypeOK
<1>6. Lag' /\ OneWriter'
  BY <1>1, <1>2, <1>3 DEF IInv, Lag, OneWriter
<1>7. WritersAhead'
  <2> SUFFICES ASSUME NEW q \in Writing
               PROVE  /\ turn[q].number \in (taken + 1)..reserved
                      /\ Ahead(turn[q].slot, r_cursor) = turn[q].number - (taken + 1)
                      /\ ~w_flag[turn[q].slot]
                      /\ pc'[q] = "copied" => data'[turn[q].slot] = turn[q].number
    BY <1>1, <1>2 DEF WritersAhead
  <2>1. CASE q = p
    BY <1>2, <1>4, <2>1 DEF IInv, WritersAhead
  <2>2. CASE q # p
    BY <1>2, <1>4, <2>2, WriterTyped DEF IInv, WritersAhead, OneWriter
  <2> QED
    BY <2>1, <2>2
<1>8. FlagsAhead'
  BY <1>1, <1>3, <1>4 DEF IInv, FlagsAhead
<1>9. ConsumersSlot'
  <2>1. cpc = "lowered" => data'[r_cursor] = data[r_cursor]
    BY <1>2, <1>4 DEF IInv, ConsumersSlot, TypeOK, Cursor
  <2>2. cpc = "holding" => data'[hand] = data[hand]
    <3>1. cpc = "holding" => hand # turn[p].slot
      BY <1>2, NoWriterInHand
    <3> QED
      BY <1>4, <3>1 DEF IInv, TypeOK, Cursor
  <2> QED
    BY <1>1, <1>2, <2>1, <2>2 DEF IInv, ConsumersSlot
<1>10. Readings' /\ ReceivedInOrder'
  BY <1>1, <1>3 DEF IInv, Readings, ReceivedInOrder
<1> QED
  BY <1>5, <1>6, <1>7, <1>8, <1>9, <1>10 DEF IInv

LEMMA FinishWriteIInv ==
  ASSUME IInv, NEW p \in Producers, FinishWrite(p)
  PROVE  IInv'
<1> USE SlotsPositive
<1>1. /\ pc[p] = "copied" /\ pc' = [pc EXCEPT ![p] = "idle"]
      /\ w_flag' = [w_flag EXCEPT ![turn[p].slot] = TRUE]
      /\ UNCHANGED <<w_cursor, r_cursor, data, turn, crashes, cpc, hand, taken, received,
                     restarts, wedged, reserved>>
  BY DEF FinishWrite, consVars
<1>2. /\ Writing' = Writing \ {p} /\ p \in Writing
      /\ \A q \in Writing : q # p => pc'[q] = pc[q]
  BY <1>1 DEF Writing, IInv, TypeOK
<1>3. /\ turn[p].slot \in Cursor
      /\ Ahead(turn[p].slot, r_cursor) < reserved - taken
      /\ Ahead(turn[p].slot, r_cursor) = turn[p].number - (taken + 1)
      /\ data[turn[p].slot] = turn[p].number
      /\ turn[p].number \in Int /\ taken \in Int
      /\ Held' = Held
  <2>1. turn[p].slot \in Cursor /\ turn[p].number \in 1..MaxMessages
        /\ Ahead(turn[p].slot, r_cursor) < reserved - taken
    BY <1>2, WriterTyped
  <2>2. Ahead(turn[p].slot, r_cursor) = turn[p].number - (taken + 1)
        /\ data[turn[p].slot] = turn[p].number
    BY <1>1, <1>2 DEF IInv, WritersAhead
  <2>3. Held' = Held /\ taken \in Int /\ turn[p].number \in Int
    BY <1>1, <2>1 DEF Held, IInv, TypeOK
  <2> QED
    BY <2>1, <2>2, <2>3
<1>4. \A s \in Cursor : w_flag'[s] = IF s = turn[p].slot THEN TRUE ELSE w_flag[s]
  <2>1. w_flag \in [Cursor -> BOOLEAN]
    BY DEF IInv, TypeOK, Cursor
  <2> QED
    BY <1>1, <2>1
<1>5. TypeOK'
  <2>1. w_flag' \in [0..(Slots - 1) -> BOOLEAN]
    BY <1>1, <1>3 DEF IInv, TypeOK, Cursor
  <2>2. pc' \in [Producers -> {"idle", "reserved", "copied", "dead"}]
    BY <1>1 DEF IInv, TypeOK
  <2> QED
    BY <1>1, <2>1, <2>2 DEF IInv, TypeOK
<1>6. Lag' /\ OneWriter'
  BY <1>1, <1>2, <1>3 DEF IInv, Lag, OneWriter
<1>7. WritersAhead'
  <2> SUFFICES ASSUME NEW q \in Writing, q # p
               PROVE  /\ turn[q].number \in (taken + 1)..reserved
                      /\ Ahead(turn[q].slot, r_cursor) = turn[q].number - (taken + 1)
                      /\ ~w_flag'[turn[q].slot]
                      /\ pc'[q] = "copied" => data[turn[q].slot] = turn[q].number
    BY <1>1, <1>2 DEF WritersAhead
  <2>1. ~w_flag'[turn[q].slot]
    BY <1>2, <1>4, WriterTyped DEF IInv, WritersAhead, OneWriter
  <2> QED
    BY <1>2, <2>1 DEF IInv, WritersAhead
<1>8. FlagsAhead'
  <2> SUFFICES ASSUME NEW s \in Cursor, w_flag'[s]
               PROVE  /\ Ahead(s, r_cursor) < reserved - taken
                      /\ data[s] = (taken + 1) + Ahead(s, r_cursor)
    BY <1>1 DEF FlagsAhead
  <2>1. CASE s = turn[p].slot
    BY <1>3, <2>1
  <2>2. CASE s # turn[p].slot
    BY <1>4, <2>2 DEF IInv, FlagsAhead
  <2> QED
    BY <2>1, <2>2
<1>9. ConsumersSlot'
  <2>1. r_cursor \in Cursor
    BY DEF IInv, TypeOK, Cursor
  <2> QED
    BY <1>1, <1>2, <1>4, <2>1 DEF IInv, ConsumersSlot
<1>10. Readings' /\ ReceivedInOrder'
  BY <1>1, <1>3 DEF IInv, Readings, ReceivedInOrder
<1> QED
  BY <1>5, <1>6, <1>7, <1>8, <1>9, <1>10 DEF IInv

LEMMA ProducerDiesIInv ==
  ASSUME IInv, NEW p \in Producers, ProducerDies(p)
  PROVE  IInv'
<1>1. /\ pc[p] \in {"reserved", "copied"} /\ pc' = [pc EXCEPT ![p] = "dead"]
      /\ crashes < MaxCrashes /\ crashes' = crashes + 1
      /\ UNCHANGED <<w_cursor, r_cursor, w_flag, data, turn, cpc, hand, taken, received,
                     restarts, wedged, reserved>>
  BY DEF ProducerDies, consVars
<1>2. Writing' = Writing \ {p} /\ \A q \in Writing : q # p => pc'[q] = pc[q]
  BY <1>1 DEF Writing, IInv, TypeOK
<1>3. TypeOK'
  <2>1. pc' \in [Producers -> {"idle", "reserved", "copied", "dead"}]
    BY <1>1 DEF IInv, TypeOK
  <2>2. crashes' \in 0..MaxCrashes
    BY <1>1, Mp1cQueueAssumption DEF IInv, TypeOK
  <2> QED
    BY <1>1, <2>1, <2>2 DEF IInv, TypeOK
<1>4. Lag' /\ OneWriter' /\ WritersAhead'
  BY <1>1, <1>2 DEF IInv, Lag, Held, OneWriter, WritersAhead
<1>5. FlagsAhead' /\ ConsumersSlot'
  BY <1>1, <1>2 DEF IInv, FlagsAhead, ConsumersSlot
<1>6. Readings' /\ ReceivedInOrder'
  BY <1>1 DEF IInv, Readings, Held, ReceivedInOrder
<1> QED
  BY <1>3, <1>4, <1>5, <1>6 DEF IInv

(* Up to the lowered flag, and when another consumer follows, only cpc and  *)
(* its histories change.                                                    *)
LEMMA ConsumerMovesIInv ==
  ASSUME IInv, Enter \/ SeeFlag \/ ConsumerRestarts
  PROVE  IInv'
<1>1. /\ UNCHANGED <<w_cursor, r_cursor, w_flag, data, pc, turn, crashes, hand, taken, received,
                     reserved>>
      /\ \/ cpc = "out" /\ w_cursor # r_cursor /\ cpc' = "waiting"
            /\ UNCHANGED <<restarts, wedged>>
         \/ cpc = "waiting" /\ w_flag[r_cursor] /\ cpc' = "ready"
            /\ UNCHANGED <<restarts, wedged>>
         \/ cpc' = "out" /\ restarts < MaxRestarts /\ restarts' = restarts + 1
            /\ wedged' \in BOOLEAN
  BY DEF Enter, IsEmpty, SeeFlag, Ready, ConsumerRestarts, prodVars, IInv, TypeOK
<1>2. /\ Held \in {0, 1} /\ Held' = 0 /\ reserved \in 0..MaxMessages /\ taken \in 0..reserved
      /\ restarts \in 0..MaxRestarts /\ MaxLag \in Nat /\ MaxRestarts \in Nat /\ MaxMessages \in Nat
  BY <1>1, Mp1cQueueAssumption DEF Held, IInv, TypeOK
<1>3. TypeOK'
  <2>1. cpc' \in {"out", "waiting", "ready", "lowered", "holding"} /\ wedged' \in BOOLEAN
    BY <1>1 DEF IInv, TypeOK
  <2>2. restarts' \in 0..MaxRestarts
    BY <1>1, <1>2
  <2> QED
    BY <1>1, <2>1, <2>2 DEF IInv, TypeOK
<1>4. Lag'
  <2>1. w_cursor # r_cursor => taken < reserved
    <3>1. w_cursor # r_cursor => Ahead(w_cursor, r_cursor) # 0
      BY AheadInRange DEF IInv, TypeOK, Cursor
    <3> QED
      BY <1>2, <3>1 DEF IInv, Lag
  <2>2. (reserved - taken) + 0 <= MaxLag
    BY <1>2 DEF IInv, Lag
  <2> QED
    BY <1>1, <1>2, <2>1, <2>2 DEF IInv, Lag
<1>5. OneWriter' /\ WritersAhead' /\ FlagsAhead'
  BY <1>1 DEF IInv, OneWriter, WritersAhead, FlagsAhead, Writing
<1>6. ConsumersSlot'
  BY <1>1 DEF ConsumersSlot
<1>7. Readings'
  <2>1. Len(received) \in Nat /\ \A i \in 1..Len(received) : received[i] \in Nat
    BY ReceivedTyped
  <2>2. Len(received) + 0 <= taken /\ \A i \in 1..Len(received) : received[i] + 0 <= taken
    BY <1>2, <2>1 DEF IInv, Readings
  <2>3. restarts' = 0 => restarts = 0 /\ cpc # "holding"
    BY <1>1, <1>2
  <2> QED
    BY <1>1, <1>2, <2>2, <2>3 DEF IInv, Readings, Held
<1>8. ReceivedInOrder'
  BY <1>1, <1>2 DEF IInv, ReceivedInOrder
<1> QED
  BY <1>3, <1>4, <1>5, <1>6, <1>7, <1>8 DEF IInv

LEMMA LowerFlagIInv == IInv /\ LowerFlag => IInv'
<1> SUFFICES ASSUME IInv, LowerFlag PROVE IInv'
  OBVIOUS
<1> USE SlotsPositive
<1>1. /\ cpc = "ready" /\ cpc' = "lowered" /\ w_flag' = [w_flag EXCEPT ![r_cursor] = FALSE]
      /\ UNCHANGED <<w_cursor, r_cursor, data, pc, turn, crashes, hand, taken, received,
                     restarts, wedged, reserved>>
  BY DEF LowerFlag, FlagLowered, prodVars
<1>2. r_cursor \in Cursor /\ w_flag[r_cursor] /\ w_flag \in [Cursor -> BOOLEAN]
  BY <1>1 DEF IInv, TypeOK, ConsumersSlot, Cursor
<1>3. \A s \in Cursor : w_flag'[s] = IF s = r_cursor THEN FALSE ELSE w_flag[s]
  BY <1>1, <1>2
<1>4. w_flag' \in [Cursor -> BOOLEAN]
  BY <1>1, <1>2
<1>5. Writing' = Writing /\ Held' = Held /\ \A p \in Writing : turn[p].slot # r_cursor
  BY <1>1, <1>2 DEF Writing, Held, IInv, WritersAhead
<1>6. TypeOK'
  BY <1>1, <1>4 DEF IInv, TypeOK, Cursor
<1>7. Lag' /\ OneWriter'
  BY <1>1, <1>5 DEF IInv, Lag, OneWriter
<1>8. WritersAhead'
  <2>1. \A p \in Writing : ~w_flag'[turn[p].slot]
    BY <1>3, <1>5, WriterTyped DEF IInv, WritersAhead
  <2> QED
    BY <1>1, <1>5, <2>1 DEF IInv, WritersAhead
<1>9. FlagsAhead'
  BY <1>1, <1>3 DEF IInv, FlagsAhead
<1>10. ConsumersSlot'
  <2>1. Ahead(r_cursor, r_cursor) = 0 /\ taken \in Int
    BY <1>2, AheadInRange DEF IInv, TypeOK
  <2>2. data[r_cursor] = taken + 1
    BY <1>2, <2>1 DEF IInv, FlagsAhead
  <2>3. ~w_flag'[r_cursor]
    BY <1>2, <1>3
  <2> QED
    BY <1>1, <1>5, <2>2, <2>3 DEF ConsumersSlot
<1>11. Readings' /\ ReceivedInOrder'
  BY <1>1, <1>5 DEF IInv, Readings, ReceivedInOrder
<1> QED
  BY <1>6, <1>7, <1>8, <1>9, <1>10, <1>11 DEF IInv

LEMMA AdvanceIInv == IInv /\ Advance => IInv'
<1> SUFFICES ASSUME IInv, Advance PROVE IInv'
  OBVIOUS
<1> USE SlotsPositive
<1>1. /\ cpc = "lowered" /\ cpc' = "holding" /\ hand' = r_cursor
      /\ r_cursor' = Increment(r_cursor) /\ taken' = taken + 1
      /\ UNCHANGED <<w_cursor, w_flag, data, pc, turn, crashes, received, restarts, wedged,
                     reserved>>
  BY DEF Advance, SlotTaken, prodVars
<1>2. /\ w_cursor \in Cursor /\ r_cursor \in Cursor
      /\ reserved \in 0..MaxMessages /\ taken \in 0..reserved /\ MaxMessages \in Nat
      /\ taken < reserved /\ reserved - taken <= MaxLag
      /\ Ahead(w_cursor, r_cursor) = reserved - taken
      /\ Held = 0 /\ Held' = 1
  BY <1>1, Mp1cQueueAssumption DEF IInv, TypeOK, Lag, Held, Cursor
<1>3. Increment(r_cursor) \in Cursor
  BY <1>2, IncrementWraps
<1>4. \A s \in Cursor : s # r_cursor => Ahead(s, r_cursor') = Ahead(s, r_cursor) - 1
  BY <1>1, <1>2, AheadOfNextReader
<1>5. Ahead(r_cursor, r_cursor') = Slots - 1
  BY <1>1, <1>2, AheadOfNextReader
<1>6. \A s \in Cursor : Ahead(s, r_cursor) \in Int
  BY <1>2, AheadInRange DEF Cursor
<1>7. /\ ~w_flag[r_cursor] /\ data[r_cursor] = taken + 1
      /\ \A p \in Writing : turn[p].slot # r_cursor
      /\ Writing' = Writing
  BY <1>1 DEF IInv, ConsumersSlot, Writing
<1>8. TypeOK'
  <2>1. taken' \in 0..reserved'
    BY <1>1, <1>2
  <2> QED
    BY <1>1, <1>2, <1>3, <2>1 DEF IInv, TypeOK, Cursor
<1>9. Lag'
  <2>1. w_cursor # r_cursor
    BY <1>2, AheadInRange
  <2>2. Ahead(w_cursor, r_cursor') = (reserved - taken) - 1
    BY <1>2, <1>4, <2>1
  <2> QED
    BY <1>1, <1>2, <2>2 DEF Lag
<1>10. OneWriter'
  BY <1>1, <1>7 DEF IInv, OneWriter
<1>11. WritersAhead'
  <2> SUFFICES ASSUME NEW p \in Writing
               PROVE  /\ turn[p].number \in (taken + 1 + 1)..reserved
                      /\ Ahead(turn[p].slot, r_cursor') = turn[p].number - (taken + 1 + 1)
                      /\ ~w_flag[turn[p].slot]
                      /\ pc[p] = "copied" => data[turn[p].slot] = turn[p].number
    BY <1>1, <1>7 DEF WritersAhead
  <2>1. /\ turn[p].slot \in Cursor /\ turn[p].slot # r_cursor
        /\ turn[p].number \in 1..MaxMessages
    BY <1>7, WriterTyped
  <2>2. /\ turn[p].number \in (taken + 1)..reserved
        /\ Ahead(turn[p].slot, r_cursor) = turn[p].number - (taken + 1)
        /\ ~w_flag[turn[p].slot]
        /\ pc[p] = "copied" => data[turn[p].slot] = turn[p].number
    BY DEF IInv, WritersAhead
  <2>3. Ahead(turn[p].slot, r_cursor) # 0
    BY <1>2, <2>1, AheadInRange
  <2>4. Ahead(turn[p].slot, r_cursor') = Ahead(turn[p].slot, r_cursor) - 1
    BY <1>4, <2>1
  <2> QED
    BY <1>2, <2>1, <2>2, <2>3, <2>4
<1>12. FlagsAhead'
  <2> SUFFICES ASSUME NEW s \in Cursor, w_flag[s]
               PROVE  /\ Ahead(s, r_cursor') < reserved - (taken + 1)
                      /\ data[s] = (taken + 1 + 1) + Ahead(s, r_cursor')
    BY <1>1 DEF FlagsAhead
  <2>1. s # r_cursor
    BY <1>7
  <2>2. Ahead(s, r_cursor) < reserved - taken /\ data[s] = (taken + 1) + Ahead(s, r_cursor)
    BY DEF IInv, FlagsAhead
  <2>3. Ahead(s, r_cursor') = Ahead(s, r_cursor) - 1 /\ Ahead(s, r_cursor) \in Int
    BY <1>4, <1>6, <2>1
  <2> QED
    BY <1>2, <2>2, <2>3
<1>13. ConsumersSlot'
  BY <1>1, <1>5, <1>7 DEF ConsumersSlot
<1>14. Readings'
  <2>1. /\ Len(received) \in Nat /\ \A i \in 1..Len(received) : received[i] \in Nat
        /\ taken \in Nat
    BY ReceivedTyped
  <2>2. Len(received) + 1 <= taken + 1 /\ (restarts = 0 => Len(received) + 1 = taken + 1)
    BY <1>2, <2>1 DEF IInv, Readings
  <2>3. \A i \in 1..Len(received) : received[i] + 1 <= taken + 1
    BY <1>2, <2>1 DEF IInv, Readings
  <2> QED
    BY <1>1, <1>2, <2>2, <2>3 DEF Readings
<1>15. ReceivedInOrder'
  <2>1. \A i \in 1..Len(received) : received[i] \in Nat /\ taken \in Nat
    BY ReceivedTyped
  <2>2. \A i \in 1..Len(received) : received[i] <= taken + 1
    BY <2>1 DEF IInv, ReceivedInOrder
  <2> QED
    BY <1>1, <2>2 DEF IInv, ReceivedInOrder
<1> QED
  BY <1>8, <1>9, <1>10, <1>11, <1>12, <1>13, <1>14, <1>15 DEF IInv

(* Reading the message of the slot in hand, the newest one taken. *)
LEMMA ReadMessageIInv == IInv /\ ReadMessage => IInv'
<1> SUFFICES ASSUME IInv, ReadMessage PROVE IInv'
  OBVIOUS
<1>1. /\ cpc = "holding" /\ cpc' = "out" /\ received' = Append(received, taken)
      /\ UNCHANGED <<w_cursor, r_cursor, w_flag, data, pc, turn, crashes, hand, taken, restarts,
                     wedged, reserved>>
  BY DEF ReadMessage, prodVars, IInv, ConsumersSlot
<1>2. /\ reserved \in 0..MaxMessages /\ taken \in 0..MaxMessages /\ MaxLag \in Nat
      /\ Held = 1 /\ Held' = 0 /\ received \in Seq(0..MaxMessages)
      /\ (reserved - taken) + 1 <= MaxLag
  BY <1>1, Mp1cQueueAssumption DEF IInv, TypeOK, Lag, Held
<1>3. /\ received' \in Seq(0..MaxMessages)
      /\ Len(received') = Len(received) + 1 /\ Len(received) \in Nat
      /\ \A i \in 1..Len(received) : received'[i] = received[i] /\ received[i] \in Nat
      /\ received'[Len(received) + 1] = taken
  <2>1. /\ Len(received) \in Nat
        /\ \A i \in 1..Len(received) : received[i] \in Nat
    BY ReceivedTyped
  <2> QED
    BY <1>1, <1>2, <2>1, AppendProperties
<1>4. /\ Len(received) + 1 <= taken
      /\ \A i \in 1..Len(received) : received[i] + 1 <= taken
      /\ restarts = 0 => Len(received) + 1 = taken
  BY <1>2 DEF IInv, Readings
<1>5. TypeOK'
  BY <1>1, <1>3 DEF IInv, TypeOK
<1>6. Lag'
  BY <1>1, <1>2 DEF IInv, Lag
<1>7. OneWriter' /\ WritersAhead' /\ FlagsAhead' /\ ConsumersSlot'
  BY <1>1 DEF IInv, OneWriter, WritersAhead, FlagsAhead, ConsumersSlot, Writing
<1>8. \A i \in 1..(Len(received) + 1) : received'[i] = IF i <= Len(received) THEN received[i] ELSE taken
  BY <1>3
<1>9. Readings'
  <2>1. \A i \in 1..(Len(received) + 1) : received'[i] + 0 <= taken
    <3> SUFFICES ASSUME NEW i \in 1..(Len(received) + 1) PROVE received'[i] + 0 <= taken
      OBVIOUS
    <3>1. CASE i <= Len(received)
      <4>1. i \in 1..Len(received) /\ received'[i] = received[i]
        BY <1>3, <3>1
      <4> QED
        BY <1>2, <1>3, <1>4, <4>1
    <3>2. CASE i = Len(received) + 1
      BY <1>2, <1>3, <3>2
    <3> QED
      BY <1>3, <3>1, <3>2
  <2>2. Len(received') + 0 <= taken /\ (restarts = 0 => Len(received') + 0 = taken)
    BY <1>2, <1>3, <1>4
  <2> QED
    BY <1>1, <1>2, <1>3, <2>1, <2>2 DEF Readings
<1>10. ReceivedInOrder'
  <2>1. \A i \in 1..(Len(received) + 1) : received'[i] >= i /\ received'[i] <= taken
    <3> SUFFICES ASSUME NEW i \in 1..(Len(received) + 1)
                 PROVE  received'[i] >= i /\ received'[i] <= taken
      OBVIOUS
    <3>1. CASE i <= Len(received)
      <4>1. i \in 1..Len(received) /\ received'[i] = received[i]
        BY <1>3, <3>1
      <4> QED
        BY <4>1 DEF IInv, ReceivedInOrder
    <3>2. CASE i = Len(received) + 1
      BY <1>2, <1>3, <1>4, <3>2
    <3> QED
      BY <1>3, <3>1, <3>2
  <2>2. \A i \in 2..(Len(received) + 1) : received'[i] > received'[i - 1]
    <3> SUFFICES ASSUME NEW i \in 2..(Len(received) + 1) PROVE received'[i] > received'[i - 1]
      OBVIOUS
    <3>1. i - 1 \in 1..Len(received) /\ received'[i - 1] = received[i - 1]
      BY <1>3
    <3>2. CASE i <= Len(received)
      <4>1. i \in 2..Len(received) /\ received'[i] = received[i]
        BY <1>3, <3>2
      <4> QED
        BY <3>1, <4>1 DEF IInv, ReceivedInOrder
    <3>3. CASE i = Len(received) + 1
      BY <1>2, <1>3, <1>4, <3>1, <3>3
    <3> QED
      BY <1>3, <3>2, <3>3
  <2>3. restarts = 0 => \A i \in 1..(Len(received) + 1) : received'[i] = i
    BY <1>3, <1>4, <1>8 DEF IInv, ReceivedInOrder
  <2> QED
    BY <1>1, <1>3, <2>1, <2>2, <2>3 DEF ReceivedInOrder
<1> QED
  BY <1>5, <1>6, <1>7, <1>9, <1>10 DEF IInv

LEMMA StutterIInv == IInv /\ UNCHANGED vars => IInv'
<1> SUFFICES ASSUME IInv, UNCHANGED vars PROVE IInv'
  OBVIOUS
<1>1. UNCHANGED <<w_cursor, r_cursor, w_flag, data, pc, turn, crashes, cpc, hand, taken, received,
                  restarts, wedged, reserved>>
  BY DEF vars, prodVars, consVars
<1>2. TypeOK' /\ Lag' /\ Readings' /\ ReceivedInOrder'
  BY <1>1 DEF IInv, TypeOK, Lag, Held, Readings, ReceivedInOrder
<1>3. OneWriter' /\ WritersAhead' /\ FlagsAhead' /\ ConsumersSlot'
  BY <1>1 DEF IInv, OneWriter, WritersAhead, FlagsAhead, ConsumersSlot, Writing
<1> QED
  BY <1>2, <1>3 DEF IInv

LEMMA NextIInv == IInv /\ [Next]_vars => IInv'
BY ReserveIInv, CopyIInv, FinishWriteIInv, ProducerDiesIInv, ConsumerMovesIInv, LowerFlagIInv,
   AdvanceIInv, ReadMessageIInv, StutterIInv
DEF Next, Enqueue, Dequeue

THEOREM QueueInductive == Spec => []IInv
BY InitIInv, NextIInv, PTL DEF Spec

(* The cursors stay inside the mapped slots, whatever wraps, dies or        *)
(* restarts.                                                                *)
THEOREM QueueTypeCorrect == Spec => []TypeOK
<1>1. IInv => TypeOK
  BY DEF IInv
<1> QED
  BY <1>1, QueueInductive, PTL

(* Producers that keep to the lag never share a slot with one another, nor  *)
(* with the pointer dequeue() handed out.                                   *)
THEOREM QueueSlotHasOneUser == Spec => []SlotHasOneUser
<1>1. IInv => SlotHasOneUser
  BY NoWriterInHand DEF IInv, OneWriter, SlotHasOneUser
<1> QED
  BY <1>1, QueueInductive, PTL

(* A raised flag is never one of an earlier lap. *)
THEOREM QueueFlagMarksUnread == Spec => []FlagMarksUnreadMessage
<1>1. IInv => FlagMarksUnreadMessage
  <2> SUFFICES ASSUME IInv, NEW s \in Cursor, w_flag[s]
               PROVE  data[s] > taken /\ data[s] <= reserved
    BY DEF FlagMarksUnreadMessage, Cursor
  <2>1. /\ Ahead(s, r_cursor) < reserved - taken
        /\ data[s] = (taken + 1) + Ahead(s, r_cursor)
        /\ reserved \in Nat /\ taken \in Nat
    BY Mp1cQueueAssumption DEF IInv, FlagsAhead, TypeOK
  <2>2. Ahead(s, r_cursor) \in Cursor
    BY AheadInRange DEF IInv, TypeOK, Cursor
  <2> QED
    BY <2>1, <2>2, SlotsPositive DEF Cursor
<1> QED
  BY <1>1, QueueInductive, PTL

(* Messages are received in the order of their reservations, across laps,   *)
(* crashes of producers and restarts of the consumer.                       *)
THEOREM QueueReceivesInOrder == Spec => []ReceivedInOrder
<1>1. IInv => ReceivedInOrder
  BY DEF IInv
<1> QED
  BY <1>1, QueueInductive, PTL

----------------------------------------------------------------------------
(* The refinement. *)

(* A run of consecutive numbers, given by its first and its length. *)
Run(first, n) == [i \in 1..n |-> first + i]

LEMMA RunGrows ==
  ASSUME NEW first \in Int, NEW n \in Nat
  PROVE  Run(first, n + 1) = Append(Run(first, n), first + (n + 1))
<1>1. Run(first, n) \in Seq(Int) /\ Len(Run(first, n)) = n
  BY DEF Run
<1>2. Run(first, n + 1) \in Seq(Int) /\ Len(Run(first, n + 1)) = n + 1
  BY DEF Run
<1>3. /\ Append(Run(first, n), first + (n + 1)) \in Seq(Int)
      /\ Len(Append(Run(first, n), first + (n + 1))) = n + 1
      /\ \A i \in 1..n : Append(Run(first, n), first + (n + 1))[i] = Run(first, n)[i]
      /\ Append(Run(first, n), first + (n + 1))[n + 1] = first + (n + 1)
  BY <1>1, AppendProperties
<1>4. \A i \in 1..(n + 1) : Run(first, n + 1)[i] = Append(Run(first, n), first + (n + 1))[i]
  <2> SUFFICES ASSUME NEW i \in 1..(n + 1)
               PROVE  Run(first, n + 1)[i] = Append(Run(first, n), first + (n + 1))[i]
    OBVIOUS
  <2>1. CASE i = n + 1
    BY <1>3, <2>1 DEF Run
  <2>2. CASE i # n + 1
    <3>1. i \in 1..n
      BY <2>2
    <3> QED
      BY <1>3, <3>1 DEF Run
  <2> QED
    BY <2>1, <2>2
<1> QED
  BY <1>2, <1>3, <1>4, SeqEqual

LEMMA RunShrinks ==
  ASSUME NEW first \in Int, NEW n \in Nat \ {0}
  PROVE  /\ Run(first, n) # <<>>
         /\ Head(Run(first, n)) = first + 1
         /\ Tail(Run(first, n)) = Run(first + 1, n - 1)
<1>1. Run(first, n) \in Seq(Int) /\ Len(Run(first, n)) = n
  BY DEF Run
<1>2. Run(first, n) # <<>>
  <2>1. Len(<<>>) = 0
    OBVIOUS
  <2> QED
    BY <1>1, <2>1
<1>3. Head(Run(first, n)) = Run(first, n)[1] /\ Run(first, n)[1] = first + 1
  BY <1>1, <1>2 DEF Run
<1>4. Run(first + 1, n - 1) \in Seq(Int) /\ Len(Run(first + 1, n - 1)) = n - 1
  <2>1. n - 1 \in Nat /\ first + 1 \in Int
    OBVIOUS
  <2> QED
    BY <2>1 DEF Run
<1>5. /\ Tail(Run(first, n)) \in Seq(Int) /\ Len(Tail(Run(first, n))) = n - 1
      /\ \A i \in 1..(n - 1) : Tail(Run(first, n))[i] = Run(first, n)[i + 1]
  BY <1>1, <1>2, HeadTailProperties
<1>6. \A i \in 1..(n - 1) : Tail(Run(first, n))[i] = Run(first + 1, n - 1)[i]
  <2> SUFFICES ASSUME NEW i \in 1..(n - 1)
               PROVE  Tail(Run(first, n))[i] = Run(first + 1, n - 1)[i]
    OBVIOUS
  <2>1. i + 1 \in 1..n /\ first + (i + 1) = (first + 1) + i
    OBVIOUS
  <2>2. Run(first, n)[i + 1] = first + (i + 1) /\ Run(first + 1, n - 1)[i] = (first + 1) + i
    BY <2>1 DEF Run
  <2> QED
    BY <1>5, <2>1, <2>2
<1> QED
  BY <1>2, <1>3, <1>4, <1>5, <1>6, SeqEqual

LEMMA UnreadIsRun ==
  ASSUME IInv
  PROVE  /\ Unread = Run(taken - InHand, (reserved - taken) + InHand)
         /\ taken - InHand \in Int /\ (reserved - taken) + InHand \in Nat
         /\ reserved \in Nat /\ taken \in Nat /\ InHand \in {0, 1}
<1>1. reserved \in Nat /\ taken \in 0..reserved /\ InHand \in {0, 1}
  BY Mp1cQueueAssumption DEF IInv, TypeOK, InHand
<1>2. taken - InHand \in Int /\ (reserved - taken) + InHand \in Nat /\ taken \in Nat
  BY <1>1
<1> QED
  BY <1>1, <1>2 DEF Unread, Run

LEMMA InitChannel == Init => Channel!Init
<1> SUFFICES ASSUME Init PROVE Channel!Init
  OBVIOUS
<1>1. (reserved - taken) + InHand = 0
  BY DEF Init, InHand
<1>2. Unread = <<>>
  BY <1>1 DEF Unread
<1> QED
  BY <1>2 DEF Init, Channel!Init

LEMMA ReserveSends ==
  ASSUME IInv, NEW p \in Producers, Reserve(p)
  PROVE  Channel!Send(reserved + 1) /\ reserved + 1 \in 1..MaxMessages
<1>1. /\ reserved' = reserved + 1 /\ taken' = taken /\ InHand' = InHand
      /\ received' = received /\ restarts' = restarts /\ reserved < MaxMessages
  BY DEF Reserve, consVars, InHand
<1>2. /\ taken - InHand \in Int /\ (reserved - taken) + InHand \in Nat
      /\ reserved \in Nat /\ taken \in Nat /\ InHand \in {0, 1}
      /\ Unread = Run(taken - InHand, (reserved - taken) + InHand)
  BY UnreadIsRun
<1>3. Unread' = Run(taken - InHand, ((reserved + 1) - taken) + InHand)
  BY <1>1 DEF Unread, Run
<1>4. /\ ((reserved + 1) - taken) + InHand = ((reserved - taken) + InHand) + 1
      /\ (taken - InHand) + (((reserved - taken) + InHand) + 1) = reserved + 1
  BY <1>2
<1>5. Unread' = Append(Unread, reserved + 1)
  BY <1>2, <1>3, <1>4, RunGrows
<1>6. reserved + 1 \in 1..MaxMessages
  BY <1>1, <1>2, Mp1cQueueAssumption
<1> QED
  BY <1>1, <1>5, <1>6 DEF Channel!Send

(* While the consumer holds a pointer, the oldest unread message is the one *)
(* it points at.                                                            *)
LEMMA OldestIsInHand ==
  ASSUME IInv, cpc = "holding"
  PROVE  /\ Unread # <<>> /\ Head(Unread) = taken /\ data[hand] = taken
         /\ Tail(Unread) = Run(taken, reserved - taken)
<1>1. InHand = 1 /\ data[hand] = taken
  BY DEF InHand, IInv, ConsumersSlot
<1>2. /\ reserved \in Nat /\ taken \in 0..reserved
      /\ Unread = Run(taken - 1, (reserved - taken) + 1)
  BY <1>1, UnreadIsRun DEF IInv, TypeOK
<1>3. /\ taken - 1 \in Int /\ (reserved - taken) + 1 \in Nat \ {0}
      /\ (taken - 1) + 1 = taken /\ ((reserved - taken) + 1) - 1 = reserved - taken
  BY <1>2
<1> QED
  BY <1>1, <1>2, <1>3, RunShrinks

LEMMA ReadReceives == IInv /\ ReadMessage => Channel!Receive
<1> SUFFICES ASSUME IInv, ReadMessage PROVE Channel!Receive
  OBVIOUS
<1>1. /\ cpc = "holding" /\ received' = Append(received, data[hand])
      /\ taken' = taken /\ reserved' = reserved /\ restarts' = restarts /\ InHand' = 0
  BY DEF ReadMessage, InHand
<1>2. Unread' = Run(taken, reserved - taken)
  <2>1. taken - 0 = taken /\ (reserved - taken) + 0 = reserved - taken
    BY Mp1cQueueAssumption DEF IInv, TypeOK
  <2>2. Unread' = Run(taken - 0, (reserved - taken) + 0)
    BY <1>1 DEF Unread, Run
  <2> QED
    BY <2>1, <2>2
<1> QED
  BY <1>1, <1>2, OldestIsInHand DEF Channel!Receive

LEMMA RestartMayLose == IInv /\ ConsumerRestarts => Channel!ReceiverDies
<1> SUFFICES ASSUME IInv, ConsumerRestarts PROVE Channel!ReceiverDies
  OBVIOUS
<1>1. /\ restarts' = restarts + 1 /\ received' = received /\ InHand' = 0
      /\ taken' = taken /\ reserved' = reserved
  BY DEF ConsumerRestarts, InHand
<1>2. CASE cpc = "holding"
  <2>1. taken - 0 = taken /\ (reserved - taken) + 0 = reserved - taken
    BY Mp1cQueueAssumption DEF IInv, TypeOK
  <2>2. Unread' = Run(taken - 0, (reserved - taken) + 0)
    BY <1>1 DEF Unread, Run
  <2>3. Unread # <<>> /\ Unread' = Tail(Unread)
    BY <1>2, <2>1, <2>2, OldestIsInHand
  <2> QED
    BY <1>1, <2>3 DEF Channel!ReceiverDies
<1>3. CASE cpc # "holding"
  <2>1. InHand = 0
    BY <1>3 DEF InHand
  <2>2. Unread' = Unread
    BY <1>1, <2>1 DEF Unread
  <2> QED
    BY <1>1, <2>2 DEF Channel!ReceiverDies
<1> QED
  BY <1>2, <1>3

(* Advance moves the oldest message into the hand, and all other steps      *)
(* leave it where it is.                                                    *)
LEMMA InsideStutters ==
  ASSUME IInv,
         \/ \E p \in Producers : Enqueue(p) \/ ProducerDies(p)
         \/ Enter \/ SeeFlag \/ LowerFlag \/ Advance
         \/ UNCHANGED vars
  PROVE  UNCHANGED <<Unread, received, restarts>>
<1>1. received' = received /\ restarts' = restarts /\ reserved' = reserved
  BY DEF Enqueue, Copy, FinishWrite, ProducerDies, Enter, SeeFlag, LowerFlag, Advance, vars, consVars
<1>2. CASE Advance
  <2>1. /\ taken' = taken + 1 /\ InHand = 0 /\ InHand' = 1 /\ taken \in Int /\ reserved \in Int
    BY <1>2, Mp1cQueueAssumption DEF Advance, InHand, IInv, TypeOK
  <2>2. (taken + 1) - 1 = taken - 0 /\ (reserved - (taken + 1)) + 1 = (reserved - taken) + 0
    BY <2>1
  <2>3. /\ Unread' = Run((taken + 1) - 1, (reserved - (taken + 1)) + 1)
        /\ Unread = Run(taken - 0, (reserved - taken) + 0)
    BY <1>1, <2>1 DEF Unread, Run
  <2> QED
    BY <1>1, <2>2, <2>3
<1>3. CASE ~Advance
  <2>1. taken' = taken /\ InHand' = InHand
    BY <1>3 DEF Enqueue, Copy, FinishWrite, ProducerDies, Enter, SeeFlag, LowerFlag, vars, consVars,
                InHand
  <2> QED
    BY <1>1, <2>1 DEF Unread
<1> QED
  BY <1>2, <1>3

(* Whatever dies, and however often the cursors wrap, the queue is a        *)
(* channel in order, at most once, with at most one loss for each consumer  *)
(* that dies.                                                               *)
THEOREM QueueImplementsChannel == Spec => ImplementsMessageChannel
<1>1. IInv /\ [Next]_vars => [Channel!Next]_<<Unread, received, restarts>>
  <2> SUFFICES ASSUME IInv, [Next]_vars
               PROVE  [Channel!Next]_<<Unread, received, restarts>>
    OBVIOUS
  <2>1. ASSUME NEW p \in Producers, Reserve(p) PROVE Channel!Next
    BY <2>1, ReserveSends DEF Channel!Next
  <2>2. CASE ReadMessage
    BY <2>2, ReadReceives DEF Channel!Next
  <2>3. CASE ConsumerRestarts
    BY <2>3, RestartMayLose DEF Channel!Next
  <2>4. ASSUME \/ \E p \in Producers : Enqueue(p) \/ ProducerDies(p)
               \/ Enter \/ SeeFlag \/ LowerFlag \/ Advance
               \/ UNCHANGED vars
        PROVE  UNCHANGED <<Unread, received, restarts>>
    BY <2>4, InsideStutters
  <2> QED
    BY <2>1, <2>2, <2>3, <2>4 DEF Next, Dequeue
<1> QED
  BY <1>1, InitChannel, QueueInductive, PTL DEF Spec, ImplementsMessageChannel, Channel!Spec
============================================================================
