----------------------------- MODULE LossyFifo -----------------------------
(* What a queue with a sending thread behind it promises to the thread that *)
(* fills it, for RTP packets to the network and for frames to a FIFO: it     *)
(* takes items in the order they are made, delivers them in that order and   *)
(* at most once, and may lose some of them.                                  *)
EXTENDS Naturals, Sequences

VARIABLES accepted,   (* number of items the channel has taken: 1, 2, ...    *)
          chan,       (* items taken and neither delivered nor lost          *)
          delivered   (* items delivered, oldest first                       *)

chanVars == <<accepted, chan, delivered>>

Init == /\ accepted = 0
        /\ chan = << >>
        /\ delivered = << >>

Put == /\ accepted' = accepted + 1
       /\ chan' = Append(chan, accepted + 1)
       /\ UNCHANGED delivered

Deliver == /\ chan # << >>
           /\ delivered' = Append(delivered, Head(chan))
           /\ chan' = Tail(chan)
           /\ UNCHANGED accepted

Lose == /\ \E i \in 1..Len(chan) :
              chan' = SubSeq(chan, 1, i - 1) \o SubSeq(chan, i + 1, Len(chan))
        /\ UNCHANGED <<accepted, delivered>>

Next == Put \/ Deliver \/ Lose

Spec == Init /\ [][Next]_chanVars
=============================================================================
