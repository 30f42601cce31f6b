----------------------------- MODULE LossyFifo -----------------------------
(***************************************************************************)
(* What the radio promises its reader, and the gateway the server: a       *)
(* channel that may lose any packets at any time, but never repeats,       *)
(* invents or reorders one.  Packets are numbered in the order in which    *)
(* they were put on the air.                                               *)
(***************************************************************************)
EXTENDS Naturals, Sequences

VARIABLES
  sent,       \* packets put on the air so far
  pending,    \* numbers of the packets in flight
  delivered   \* numbers of the packets the reader got, oldest first

fifoVars == <<sent, pending, delivered>>

FifoInit == sent = 0 /\ pending = {} /\ delivered = <<>>

\* A packet is put on the air, and may be lost on it at once.
Emit == /\ sent' = sent + 1
        /\ pending' \in {pending, pending \union {sent + 1}}
        /\ UNCHANGED delivered

\* Any of the packets in flight are lost.
Lose == /\ pending' \in SUBSET pending
        /\ UNCHANGED <<sent, delivered>>

\* Only the oldest packet in flight can be delivered.
Deliver == \E n \in pending :
             /\ \A m \in pending : n <= m
             /\ delivered' = Append(delivered, n)
             /\ pending' = pending \ {n}
             /\ UNCHANGED sent

FifoNext == Emit \/ Lose \/ Deliver

FifoSpec == FifoInit /\ [][FifoNext]_fifoVars
=============================================================================
