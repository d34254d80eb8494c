--------------------------- MODULE MessageChannel ---------------------------
(***************************************************************************)
(* What husky::mp1c::queue promises across the deaths of its processes: a  *)
(* channel that keeps the order of the messages, hands each out at most    *)
(* once, and loses none but, when a receiver dies, the oldest one.         *)
(***************************************************************************)
EXTENDS Naturals, Sequences

CONSTANT Messages

VARIABLES
  pending,    \* messages sent and not handed out, the oldest first
  delivered,  \* messages handed out
  deaths      \* receivers that have died

Init == pending = <<>> /\ delivered = <<>> /\ deaths = 0

Send(m) ==
  /\ pending' = Append(pending, m)
  /\ UNCHANGED <<delivered, deaths>>

Receive ==
  /\ pending # <<>>
  /\ delivered' = Append(delivered, Head(pending))
  /\ pending' = Tail(pending)
  /\ UNCHANGED deaths

ReceiverDies ==
  /\ deaths' = deaths + 1
  /\ \/ UNCHANGED pending
     \/ pending # <<>> /\ pending' = Tail(pending)
  /\ UNCHANGED delivered

Next == Receive \/ ReceiverDies \/ \E m \in Messages : Send(m)

Spec == Init /\ [][Next]_<<pending, delivered, deaths>>
=============================================================================
