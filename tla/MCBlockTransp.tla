------------------------------ MODULE MCBlockTransp ------------------------------
(***************************************************************************)
(* Two satellites linked by an ISL.  Spot 1 has its gateway (1) on         *)
(* satellite 10 and its terminal (2) on satellite 11, so traffic between   *)
(* them crosses the ISL; entity 7 is not in the topology.  The messages   *)
(* enter on either satellite and either side, so that every path (direct, *)
(* through the opposite channel, over the ISL and back) is taken.          *)
(***************************************************************************)
EXTENDS BlockTransp

MCSats == {10, 11}
MCIslPeer == [s \in MCSats |-> IF s = 10 THEN 11 ELSE 10]
MCIslEnabled == [s \in MCSats |-> TRUE]
MCGwId == [sp \in {1} |-> 1]
MCStIds == [sp \in {1} |-> {2}]
MCSatIdGw == [sp \in {1} |-> 10]
MCSatIdSt == [sp \in {1} |-> 11]
MCEntityType == (1 :> "gateway") @@ (2 :> "terminal") @@ (3 :> "terminal")
                @@ (10 :> "satellite") @@ (11 :> "satellite")
\* Satellite 11 registers its terminal FIFO twice: the second is refused
MCNextKeys == (10 :> <<<<1, "gateway">>>>)
              @@ (11 :> <<<<1, "terminal">>, <<1, "terminal">>>>)

Frame(id, at, side, spot, carrier) ==
    [id |-> id, at |-> at, side |-> side, kind |-> "frame", spot |-> spot,
     carrier |-> carrier, pkts |-> <<>>]
Burst(id, at, side, pkts) ==
    [id |-> id, at |-> at, side |-> side, kind |-> "burst", spot |-> 0,
     carrier |-> 0, pkts |-> pkts]
Pkt(src, dst) == [src |-> src, dst |-> dst]

\* Star mode: gateway and terminal frames, an output carrier,
\* an empty burst and a burst from an unknown entity
MCStarMsgs ==
    { Frame(1, 10, "up", 1, 4),          \* gateway to terminal, over the ISL
      Frame(3, 10, "up", 1, 0),          \* terminal signalling heard by sat 10
      Frame(4, 10, "up", 1, 7),          \* an output carrier id
      Burst(5, 10, "down", <<Pkt(2, 1)>>),  \* terminal to gateway, on sat 10
      Burst(6, 10, "down", <<>>),
      Burst(7, 10, "down", <<Pkt(7, 1)>>),
      Frame(8, 11, "down", 1, 6) }       \* from above, for the other satellite

\* Mesh mode: a burst of terminal 2 carrying a packet to the gateway and
\* one to terminal 3 of the same spot
MCMixedMsgs ==
    { Burst(1, 10, "down", <<Pkt(2, 1), Pkt(2, 3)>>) }

MCMixedStIds == [sp \in {1} |-> {2, 3}]

=============================================================================
