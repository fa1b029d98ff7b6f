----------------------------- MODULE SendStream -----------------------------
(***************************************************************************)
(* What HNetIoSend promises to the sessions above it: the packets that     *)
(* HNetSession::Send accepted go to the peer once, in the order in which   *)
(* they were accepted, in runs that one WSASend carries; packets are lost  *)
(* only from the front of the queue and only after the connection has been *)
(* cancelled or reset.  The gathering ring, the lock and the threads  *)
(* of SendQueue are the detail that implements this.                       *)
(***************************************************************************)
EXTENDS Naturals, Sequences

CONSTANT Msg    \* the packets that may be sent

VARIABLES queue,    \* packets accepted and not yet delivered or lost
          wire,     \* packets the peer's TCP has received
          up        \* the connection was neither cancelled nor reset

vars == <<queue, wire, up>>

Init == queue = <<>> /\ wire = <<>> /\ up = TRUE

Accept(m) == queue' = Append(queue, m) /\ UNCHANGED <<wire, up>>

Rest(n) == SubSeq(queue, n + 1, Len(queue))

Transmit(n) == /\ wire' = wire \o SubSeq(queue, 1, n)
               /\ queue' = Rest(n)
               /\ UNCHANGED up

Lose(n) == ~up /\ queue' = Rest(n) /\ UNCHANGED <<wire, up>>

Break == up' = FALSE /\ UNCHANGED <<queue, wire>>

Next == \/ \E m \in Msg : Accept(m)
        \/ \E n \in 1..Len(queue) : Transmit(n) \/ Lose(n)
        \/ Break

Spec == Init /\ [][Next]_vars
=============================================================================
