------------------------------ MODULE BlockTransp ------------------------------
(***************************************************************************)
(* The transparent satellite block (BlockTransp, src/opensand-core/src/    *)
(* mesh/BlockTransp.cpp) on a constellation of satellites linked by ISLs.  *)
(*                                                                         *)
(* Each satellite runs a BlockTransp with two channel threads.  The        *)
(* upward channel (a mux) reads the frames and bursts coming from the      *)
(* ground and from its downward sibling; it crosses them to the downward   *)
(* channel when they are for this satellite, or sends them up to the ISL.  *)
(* The downward channel (an RtChannelMuxDemux keyed by (spot, role)) reads *)
(* what comes from the ISL or from the upward sibling; it sends them down  *)
(* to the ground FIFO of their key when they are for this satellite, and  *)
(* crosses them to the upward channel otherwise.                           *)
(*                                                                         *)
(* FIFOs are sequences: their blocking and wake-up are modelled in module  *)
(* RtFifo and are left out here.  The ISL block above the satellite, which *)
(* is not in the repository, is a reliable FIFO link to IslPeer[s].        *)
(***************************************************************************)
EXTENDS Integers, Sequences, SequencesExt, FiniteSets

CONSTANTS
    Sats,            \* the satellites' entity ids
    IslPeer,         \* IslPeer[s]: the satellite the ISL of s leads to
    IslEnabled,      \* isl_enabled of each satellite
    Spots,           \* the spot ids of getSpotsTopology
    GwId, StIds,     \* GwId[sp], StIds[sp]: the entities of spot sp
    SatIdGw, SatIdSt,\* SatIdGw[sp], SatIdSt[sp]: satellites serving them
    EntityType,      \* getEntityType: "gateway", "terminal" or "satellite"
    MeshMode,        \* isMeshArchitecture
    BroadcastTalId,  \* BROADCAST_TAL_ID
    NextKeys,        \* NextKeys[s]: keys given to addNextFifo on s, in order
    Msgs             \* the messages sent to the constellation

Roles == {"gateway", "terminal"}
Keys == Spots \X Roles

(* A message is a record with an id, where it enters (sat, and side "up" *)
(* from the ground or "down" from the block above), and its content: a   *)
(* frame [kind, spot, carrier] or a burst [kind, pkts] whose packets are *)
(* [src, dst] records.                                                    *)
ASSUME /\ \A m \in Msgs : m.at \in Sats /\ m.side \in {"up", "down"}
       /\ \A s \in Sats : IslPeer[s] \in Sats \ {s}

VARIABLES
    pc,            \* "init", "running" or "failed" (Rt::init of the blocks)
    routes,        \* routes[s]: the route table of s (upward and downward copy)
    spotByEntity,  \* spotByEntity[s][ch]: spot_by_entity of channel ch of s
    nextFifos,     \* nextFifos[s]: the next_fifos map of s's downward channel
    lowerIn,       \* lowerIn[s]: FIFO from the ground to s's upward channel
    upperIn,       \* upperIn[s]: FIFO from the block above to s's downward channel
    oppToDown,     \* oppToDown[s]: opposite FIFO upward -> downward
    oppToUp,       \* oppToUp[s]: opposite FIFO downward -> upward
    sent,          \* history: ids of the messages sent
    delivered,     \* history: [msg, sat, key] sent down to the ground
    dropped        \* history: ids of the messages a handler refused or ignored

vars == <<pc, routes, spotByEntity, nextFifos, lowerIn, upperIn, oppToDown,
          oppToUp, sent, delivered, dropped>>

-----------------------------------------------------------------------------
(* Helpers of the handlers.                                                *)

TypeOf(e) == IF e \in DOMAIN EntityType THEN EntityType[e] ELSE "unknown"

\* The destination role of a frame: carriers x4 and x8 go in the gateway
RoleOfCarrier(c) == IF c % 10 \in {4, 8} THEN "terminal" ELSE "gateway"

\* getDestinationType
DestinationType(src, dst) ==
    IF MeshMode
    THEN IF dst = BroadcastTalId THEN "terminal"
         ELSE IF TypeOf(dst) \in Roles THEN TypeOf(dst) ELSE "unknown"
    ELSE CASE TypeOf(src) = "gateway"  -> "terminal"
           [] TypeOf(src) = "terminal" -> "gateway"
           [] OTHER                    -> "unknown"

(* spot_by_entity[src_id]: operator[] inserts a spot 0 for an entity the  *)
(* topology does not know and returns it.                                  *)
SpotLookup(sbe, e) == IF e \in DOMAIN sbe THEN sbe[e] ELSE 0
SpotInsert(sbe, e) == IF e \in DOMAIN sbe THEN sbe ELSE sbe @@ (e :> 0)

\* The route key of a message, as its handler computes it
RouteKey(m, sbe) ==
    IF m.kind = "frame" THEN <<m.spot, RoleOfCarrier(m.carrier)>>
    ELSE <<SpotLookup(sbe, Head(m.pkts).src),
           DestinationType(Head(m.pkts).src, Head(m.pkts).dst)>>

\* The spot_by_entity of a channel after its handler has run
SbeAfter(m, sbe) ==
    IF m.kind = "burst" /\ m.pkts # <<>> THEN SpotInsert(sbe, Head(m.pkts).src)
    ELSE sbe

\* An empty NetBurst is accepted and dropped silently
Ignored(m) == m.kind = "burst" /\ m.pkts = <<>>

\* The handler returns false: unknown destination type or no route
Refused(m, rt, sbe) ==
    LET k == RouteKey(m, sbe) IN k[2] = "unknown" \/ k \notin DOMAIN rt

\* RtChannelMuxDemux::addNextFifo: emplace keeps the first FIFO of a key
AddNextFifo(map, k) == IF k \in map THEN map ELSE map \cup {k}

\* RtChannelMuxDemux::enqueueMessage: false when no FIFO has the key
Enqueued(s, k) == k \in nextFifos[s]

-----------------------------------------------------------------------------
(* Rt::init: BlockTransp::onInit of every satellite.                        *)

TopologyRoutes ==
    [k \in Keys |-> IF k[2] = "gateway" THEN SatIdGw[k[1]] ELSE SatIdSt[k[1]]]

TopologySpots ==
    [e \in {GwId[sp] : sp \in Spots} \cup UNION {StIds[sp] : sp \in Spots} |->
        CHOOSE sp \in Spots : e = GwId[sp] \/ e \in StIds[sp]]

\* The ISL check of onInit on satellite s
IslMissing(s) ==
    \E sp \in Spots : /\ SatIdGw[sp] # SatIdSt[sp]
                      /\ s \in {SatIdGw[sp], SatIdSt[sp]}
                      /\ ~IslEnabled[s]

OnInit ==
    /\ pc = "init"
    /\ IF \E s \in Sats : IslMissing(s)
       THEN /\ pc' = "failed"
            /\ UNCHANGED <<routes, spotByEntity, nextFifos>>
       ELSE /\ pc' = "running"
            /\ routes' = [s \in Sats |-> TopologyRoutes]
            /\ spotByEntity' = [s \in Sats |-> [ch \in {"up", "down"} |-> TopologySpots]]
            /\ nextFifos' = [s \in Sats |->
                               FoldLeft(AddNextFifo, {}, NextKeys[s])]
    /\ UNCHANGED <<lowerIn, upperIn, oppToDown, oppToUp, sent, delivered, dropped>>

-----------------------------------------------------------------------------
(* The environment: the ground stations and the block above send.         *)

Send(m) ==
    /\ pc = "running"
    /\ m.id \notin sent
    /\ sent' = sent \cup {m.id}
    /\ IF m.side = "up"
       THEN /\ lowerIn' = [lowerIn EXCEPT ![m.at] = Append(@, m)]
            /\ UNCHANGED upperIn
       ELSE /\ upperIn' = [upperIn EXCEPT ![m.at] = Append(@, m)]
            /\ UNCHANGED lowerIn
    /\ UNCHANGED <<pc, routes, spotByEntity, nextFifos, oppToDown, oppToUp,
                   delivered, dropped>>

-----------------------------------------------------------------------------
(* Upward::onEvent on a message popped from one of its two FIFOs:         *)
(* handleDvbFrame or handleNetBurst.  A message for this satellite goes   *)
(* to the opposite channel, any other one up to the ISL.                   *)

(* Fault model: the two branches of the route test swapped.              *)
UpwardHandleSwapped(s, m) ==
    LET sbe == spotByEntity[s]["up"]
        k   == RouteKey(m, sbe)
    IN
    /\ spotByEntity' = [spotByEntity EXCEPT ![s]["up"] = SbeAfter(m, sbe)]
    /\ CASE Ignored(m) \/ Refused(m, routes[s], sbe) ->
              /\ dropped' = dropped \cup {m.id}
              /\ UNCHANGED <<oppToDown, upperIn>>
         [] routes[s][k] # s ->
              /\ oppToDown' = [oppToDown EXCEPT ![s] = Append(@, m)]
              /\ UNCHANGED <<upperIn, dropped>>
         [] OTHER ->
              /\ upperIn' = [upperIn EXCEPT ![IslPeer[s]] = Append(@, m)]
              /\ UNCHANGED <<oppToDown, dropped>>

UpwardHandle(s, m) ==
    LET sbe == spotByEntity[s]["up"]
        k   == RouteKey(m, sbe)
    IN
    /\ spotByEntity' = [spotByEntity EXCEPT ![s]["up"] = SbeAfter(m, sbe)]
    /\ CASE Ignored(m) \/ Refused(m, routes[s], sbe) ->
              /\ dropped' = dropped \cup {m.id}
              /\ UNCHANGED <<oppToDown, upperIn>>
         [] routes[s][k] = s ->
              /\ oppToDown' = [oppToDown EXCEPT ![s] = Append(@, m)]
              /\ UNCHANGED <<upperIn, dropped>>
         [] OTHER ->
              /\ upperIn' = [upperIn EXCEPT ![IslPeer[s]] = Append(@, m)]
              /\ UNCHANGED <<oppToDown, dropped>>

\* The event of the FIFO from the ground
UpwardOnLower(s) ==
    /\ pc = "running"
    /\ lowerIn[s] # <<>>
    /\ UpwardHandle(s, Head(lowerIn[s]))
    /\ lowerIn' = [lowerIn EXCEPT ![s] = Tail(@)]
    /\ UNCHANGED <<pc, routes, nextFifos, oppToUp, sent, delivered>>

\* The event of the opposite FIFO from the downward channel
UpwardOnOpposite(s) ==
    /\ pc = "running"
    /\ oppToUp[s] # <<>>
    /\ UpwardHandle(s, Head(oppToUp[s]))
    /\ oppToUp' = [oppToUp EXCEPT ![s] = Tail(@)]
    /\ UNCHANGED <<pc, routes, nextFifos, lowerIn, sent, delivered>>

(* Downward::onEvent: a message for this satellite goes down to the FIFO  *)
(* of its key (RtChannelMuxDemux::enqueueMessage), a frame with its input *)
(* carrier id turned into the output one; an odd (output) carrier id is   *)
(* refused.  Any other message crosses to the upward channel.             *)
(* Fault models: the output carrier id written before the route test, so  *)
(* a crossing frame carries it; the setCarrierId call forgotten.         *)
DownwardHandleEarlyRewrite(s, m) ==
    LET sbe == spotByEntity[s]["down"]
        k   == RouteKey(m, sbe)
        out == IF m.kind = "frame" THEN [m EXCEPT !.carrier = @ + 1] ELSE m
    IN
    /\ spotByEntity' = [spotByEntity EXCEPT ![s]["down"] = SbeAfter(m, sbe)]
    /\ CASE Ignored(m) \/ Refused(m, routes[s], sbe) ->
              /\ dropped' = dropped \cup {m.id}
              /\ UNCHANGED <<oppToUp, delivered>>
         [] routes[s][k] = s ->
              /\ IF (m.kind = "frame" /\ m.carrier % 2 # 0) \/ ~Enqueued(s, k)
                 THEN /\ dropped' = dropped \cup {m.id}
                      /\ UNCHANGED delivered
                 ELSE /\ delivered' = delivered \cup {[msg |-> out, sat |-> s, key |-> k]}
                      /\ UNCHANGED dropped
              /\ UNCHANGED oppToUp
         [] OTHER ->
              /\ oppToUp' = [oppToUp EXCEPT ![s] = Append(@, out)]
              /\ UNCHANGED <<delivered, dropped>>

DownwardHandle(s, m) ==
    LET sbe == spotByEntity[s]["down"]
        k   == RouteKey(m, sbe)
        out == IF m.kind = "frame" THEN [m EXCEPT !.carrier = @ + 1] ELSE m
    IN
    /\ spotByEntity' = [spotByEntity EXCEPT ![s]["down"] = SbeAfter(m, sbe)]
    /\ CASE Ignored(m) \/ Refused(m, routes[s], sbe) ->
              /\ dropped' = dropped \cup {m.id}
              /\ UNCHANGED <<oppToUp, delivered>>
         [] routes[s][k] = s ->
              /\ IF (m.kind = "frame" /\ m.carrier % 2 # 0) \/ ~Enqueued(s, k)
                 THEN /\ dropped' = dropped \cup {m.id}
                      /\ UNCHANGED delivered
                 ELSE /\ delivered' = delivered \cup {[msg |-> out, sat |-> s, key |-> k]}
                      /\ UNCHANGED dropped
              /\ UNCHANGED oppToUp
         [] OTHER ->
              /\ oppToUp' = [oppToUp EXCEPT ![s] = Append(@, m)]
              /\ UNCHANGED <<delivered, dropped>>

\* The event of the FIFO from the block above (the ISL)
DownwardOnUpper(s) ==
    /\ pc = "running"
    /\ upperIn[s] # <<>>
    /\ DownwardHandle(s, Head(upperIn[s]))
    /\ upperIn' = [upperIn EXCEPT ![s] = Tail(@)]
    /\ UNCHANGED <<pc, routes, nextFifos, oppToDown, sent, lowerIn>>

\* The event of the opposite FIFO from the upward channel
DownwardOnOpposite(s) ==
    /\ pc = "running"
    /\ oppToDown[s] # <<>>
    /\ DownwardHandle(s, Head(oppToDown[s]))
    /\ oppToDown' = [oppToDown EXCEPT ![s] = Tail(@)]
    /\ UNCHANGED <<pc, routes, nextFifos, upperIn, sent, lowerIn>>

-----------------------------------------------------------------------------

Init ==
    /\ pc = "init"
    /\ routes = [s \in Sats |-> <<>>]
    /\ spotByEntity = [s \in Sats |-> [ch \in {"up", "down"} |-> <<>>]]
    /\ nextFifos = [s \in Sats |-> {}]
    /\ lowerIn = [s \in Sats |-> <<>>]
    /\ upperIn = [s \in Sats |-> <<>>]
    /\ oppToDown = [s \in Sats |-> <<>>]
    /\ oppToUp = [s \in Sats |-> <<>>]
    /\ sent = {}
    /\ delivered = {}
    /\ dropped = {}

Next ==
    \/ OnInit
    \/ \E m \in Msgs : Send(m)
    \/ \E s \in Sats : \/ UpwardOnLower(s) \/ UpwardOnOpposite(s)
                       \/ DownwardOnUpper(s) \/ DownwardOnOpposite(s)

(* Each channel has its own thread, and its event loop serves each of its *)
(* FIFOs without starving the other (spec 4.1): weak fairness per FIFO.   *)
Fairness ==
    /\ WF_vars(OnInit)
    /\ \A s \in Sats : /\ WF_vars(UpwardOnLower(s)) /\ WF_vars(UpwardOnOpposite(s))
                       /\ WF_vars(DownwardOnUpper(s)) /\ WF_vars(DownwardOnOpposite(s))

Spec == Init /\ [][Next]_vars /\ Fairness

-----------------------------------------------------------------------------
(* Properties                                                              *)

Ids == {m.id : m \in Msgs}
DeliveredIds == {d.msg.id : d \in delivered}
Fifos == {lowerIn, upperIn, oppToDown, oppToUp}

TypeOK ==
    /\ pc \in {"init", "running", "failed"}
    /\ \A f \in Fifos : f \in [Sats -> Seq(Msgs)]
    /\ \A s \in Sats : nextFifos[s] \subseteq Keys
    /\ sent \subseteq Ids /\ dropped \subseteq sent /\ DeliveredIds \subseteq sent

(* What the topology says of a message: the key it must leave on, for a   *)
(* frame its spot and the role of its carrier, for a packet the spot of   *)
(* its source (of its destination in mesh mode) and its destination role. *)
PacketKey(p) ==
    <<IF MeshMode /\ p.dst \in DOMAIN TopologySpots THEN TopologySpots[p.dst]
      ELSE SpotLookup(TopologySpots, p.src),
      DestinationType(p.src, p.dst)>>
FrameKey(m) == <<m.spot, RoleOfCarrier(m.carrier)>>

(* A message the topology can route: a frame on an input (even) carrier,  *)
(* or a non-empty burst, whose key has a route to a satellite that        *)
(* registered a ground FIFO for it.                                        *)
Routable(m) ==
    LET k == IF m.kind = "frame" THEN FrameKey(m) ELSE PacketKey(Head(m.pkts))
    IN  /\ m.kind = "frame" => m.carrier % 2 = 0
        /\ m.kind = "burst" => m.pkts # <<>>
        /\ k \in Keys
        /\ k \in FoldLeft(AddNextFifo, {}, NextKeys[TopologyRoutes[k]])

(* Every packet of a burst leaves toward its own destination: the key the *)
(* burst is sent down on is the key of each of its packets.  The handlers *)
(* route a whole NetBurst by its first packet.                            *)
PacketsLeaveTowardDestination ==
    \A d \in delivered :
        d.msg.kind = "burst" => \A i \in 1..Len(d.msg.pkts) : PacketKey(d.msg.pkts[i]) = d.key

(* A handler refuses only what the topology cannot route: no ISL hop, no  *)
(* crossing and no carrier rewrite makes a routable message look refused. *)
OnlyUnroutableDropped ==
    \A m \in Msgs : m.id \in dropped => ~Routable(m)

(* Every message sent to the constellation eventually leaves it or is     *)
(* refused: no message bounces for ever between the channels and the ISLs,*)
(* under the fairness of the channel threads.                             *)
EveryMessageSettles ==
    \A m \in Msgs : m.id \in sent ~> (m.id \in DeliveredIds \/ m.id \in dropped)

=============================================================================
