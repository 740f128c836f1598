---------------------------- MODULE SlottedAlohaNcc ----------------------------
(***************************************************************************)
(* The Slotted Aloha receiver of the gateway (SlottedAlohaNcc,             *)
(* src/opensand-core/src/dvb/saloha/SlottedAlohaNcc.cpp).                  *)
(*                                                                         *)
(* Terminals log on (addTerminal) and send the packets of their PDUs, each *)
(* packet as Replicas copies in distinct slots of their category; each     *)
(* frame received is handled by onRcvFrame.  Once per Aloha frame,         *)
(* schedule runs scheduleCategory for every category in order: simulated   *)
(* traffic, collision removal, then for each accepted packet an ACK in a   *)
(* control frame and the packet to its terminal's PDU reassembler; the     *)
(* completed PDUs go into the burst handed to the upper layer.             *)
(*                                                                         *)
(* Everything runs in the gateway's DVB channel thread: each handler is    *)
(* one step, and the loop of schedule over the categories one step per     *)
(* category.  The collision algorithms (DSA, CRDSA), the terminal's        *)
(* reassembler and the comparator are not in the repository: they are     *)
(* modelled from the spec (section 4.7).                                    *)
(***************************************************************************)
EXTENDS Integers, Sequences, SequencesExt, FiniteSets

CONSTANTS
    Tals,             \* real terminal ids, all below BroadcastTalId
    BroadcastTalId,   \* BROADCAST_TAL_ID
    Cats,             \* the Slotted Aloha categories, in map order
    CatOf,            \* CatOf[t]: the category terminal t is affected to
    NbSlots,          \* NbSlots[c]: slots per Aloha frame of category c
    NbCarriers,       \* NbCarriers[c]: carriers of category c
    Replicas,         \* replicas of each packet a terminal sends
    PduParts,         \* packets per PDU (the "of" of each packet)
    MaxPdus,          \* bound: PDUs each terminal sends
    AcksPerFrame,     \* ACKs that fit in a SlottedAlohaFrameCtrl
    Algo,             \* "DSA" or "CRDSA"
    SimNbTal,         \* SimNbTal[c]: simulated terminals of category c
    SimNbPackets,     \* getNbPacketsPerTal of the simulation
    SimReplicas,      \* getNbReplicas of the simulation
    RandMaxReachable  \* rand() may return RAND_MAX

CatSet == Range(Cats)

ASSUME /\ Tals \subseteq 1..BroadcastTalId - 1
       /\ CatOf \in [Tals -> CatSet]
       /\ Algo \in {"DSA", "CRDSA"}
       /\ \A c \in CatSet : NbSlots[c] \div NbCarriers[c] > 0

VARIABLES
    terminals,    \* the terminals map: logged-on terminals
    slots,        \* slots[c][i]: the packets received in slot i of category c
    rcvNbr,       \* rcvNbr[c]: getReceivedPacketsNbr of category c
    nextPart,     \* nextPart[t]: <<pdu, seq>> terminal t sends next
    pending,      \* pending[t]: <<pdu, seq>> parts held by t's reassembler
    pc,           \* "idle", "schedule" (within schedule) or "crashed"
    catIdx,       \* the category schedule is at
    burst,        \* *burst: the PDUs of the NetBurst, as <<tal, pdu>>
    ctrlFrames,   \* complete_dvb_frames: the ACK count of each control frame
    delivered,    \* history: the PDUs of the bursts handed to the upper layer
    completed,    \* history: the PDUs the reassemblers completed
    accepted      \* history: the packets <<tal, pdu, seq>> accepted

vars == <<terminals, slots, rcvNbr, nextPart, pending, pc, catIdx, burst,
          ctrlFrames, delivered, completed, accepted>>

\* A packet replica in a slot; simulated ones have tal > BroadcastTalId
Replica(t, p, s, ts) == [tal |-> t, pdu |-> p, seq |-> s, ts |-> ts]
PacketId(r) == <<r.tal, r.pdu, r.seq>>

SlotIds(c) == 0..NbSlots[c] - 1
SlotsPerCarrier(c) == NbSlots[c] \div NbCarriers[c]
EmptySlots == [c \in CatSet |-> [i \in SlotIds(c) |-> {}]]

-----------------------------------------------------------------------------
(* Collision removal (algo->removeCollisions, spec 4.7 step 2).            *)

\* DSA: a slot with exactly one packet accepts it; collided slots are lost
Dsa(sl) == UNION {sl[i] : i \in {j \in DOMAIN sl : Cardinality(sl[j]) = 1}}

(* Fault model: CRDSA that removes the accepted packet from its own slot *)
(* only and leaves its replicas in the other slots.                        *)
RECURSIVE CrdsaNoCancel(_, _)
CrdsaNoCancel(sl, acc) ==
    LET single == {j \in DOMAIN sl : Cardinality(sl[j]) = 1}
    IN  IF single = {} THEN acc
        ELSE LET r == CHOOSE x \in sl[Min(single)] : TRUE
             IN  CrdsaNoCancel([sl EXCEPT ![Min(single)] = {}], acc \cup {r})

(* CRDSA: the lowest singleton slot accepts its packet and cancels that    *)
(* packet's replicas in the other slots, until no slot is a singleton.     *)
RECURSIVE Crdsa(_, _)
Crdsa(sl, acc) ==
    LET single == {j \in DOMAIN sl : Cardinality(sl[j]) = 1}
    IN  IF single = {} THEN acc
        ELSE LET r == CHOOSE x \in sl[Min(single)] : TRUE
             IN  Crdsa([j \in DOMAIN sl |-> {x \in sl[j] : PacketId(x) # PacketId(r)}],
                       acc \cup {r})

RemoveCollisions(sl) == IF Algo = "DSA" THEN Dsa(sl) ELSE Crdsa(sl, {})

-----------------------------------------------------------------------------
(* Traffic simulation (simulateTraffic).  rand() / (double)RAND_MAX is in  *)
(* [0, 1], so a draw of slot or carrier reaches slots_per_carrier or the   *)
(* carriers number itself when rand() returns RAND_MAX.                    *)

DrawMax(n) == IF RandMaxReachable THEN n ELSE n - 1

\* One simulated terminal: the slot ids tmp, and a carrier for each of them
SimDraws(c) ==
    {d \in [slot : SUBSET (0..DrawMax(SlotsPerCarrier(c))),
            carrier : [0..DrawMax(SlotsPerCarrier(c)) -> 0..DrawMax(NbCarriers[c])]] :
        Cardinality(d.slot) = SimNbPackets}

\* Fault model: slot ids numbered from 1 within a carrier
TimeSlotsOffByOne(c, d) == {d.carrier[x] * SlotsPerCarrier(c) + x + 1 : x \in d.slot}

TimeSlots(c, d) == {d.carrier[x] * SlotsPerCarrier(c) + x : x \in d.slot}

(* The replica loop takes nb_replicas slots of time_slots per PDU with    *)
(* it++ and no end check: it runs past the end of the set unless its size *)
(* is a multiple of nb_replicas; slots[slot_id] of a missing slot is a    *)
(* NULL Slot.  Both are undefined behaviour: the model calls them a fault.*)
SimFault(c, d) ==
    \/ Cardinality(TimeSlots(c, d)) % SimReplicas # 0
    \/ ~(TimeSlots(c, d) \subseteq SlotIds(c))

\* The replicas of simulated terminal k: PDU j takes the j-th group of slots
SimReplicasOf(c, k, d) ==
    LET ts == SetToSortSeq(TimeSlots(c, d), <)
    IN  {Replica(BroadcastTalId + k, (i - 1) \div SimReplicas, 0, ts[i]) :
            i \in 1..Len(ts)}

-----------------------------------------------------------------------------
(* The loop over the accepted packets of scheduleCategory, as a fold.      *)

(* Fault models of the loop body: the control frame is closed one ACK    *)
(* too late; the reassembler returns the PDU when its last part arrives.  *)
AcceptPacketFrameOverfill(c, st, r) ==
    LET t == r.tal
        held == st.pending[t] \cup {<<r.pdu, r.seq>>}
        whole == \A s \in 1..PduParts : <<r.pdu, s>> \in held
    IN
    IF t > BroadcastTalId \/ t \notin terminals \/ CatOf[t] # c THEN st
    ELSE [st EXCEPT
            !.frames = IF st.acks > AcksPerFrame THEN Append(@, st.acks) ELSE @,
            !.acks = IF st.acks > AcksPerFrame THEN 1 ELSE @ + 1,
            !.pending[t] = IF whole THEN {x \in held : x[1] # r.pdu} ELSE held,
            !.burst = IF whole THEN Append(@, <<t, r.pdu>>) ELSE @,
            !.accepted = @ \cup {PacketId(r)}]

(* One accepted packet: simulated, unknown or foreign packets are dropped; *)
(* otherwise an ACK goes into the control frame (a new one when it is      *)
(* full) and the packet to the terminal's reassembler, which returns the   *)
(* PDU once all its parts are there.                                        *)
AcceptPacket(c, st, r) ==
    LET t == r.tal
        held == st.pending[t] \cup {<<r.pdu, r.seq>>}
        whole == \A s \in 1..PduParts : <<r.pdu, s>> \in held
    IN
    IF t > BroadcastTalId \/ t \notin terminals \/ CatOf[t] # c THEN st
    ELSE [st EXCEPT
            !.frames = IF st.acks = AcksPerFrame THEN Append(@, st.acks) ELSE @,
            !.acks = IF st.acks = AcksPerFrame THEN 1 ELSE @ + 1,
            !.pending[t] = IF whole THEN {x \in held : x[1] # r.pdu} ELSE held,
            !.burst = IF whole THEN Append(@, <<t, r.pdu>>) ELSE @,
            !.accepted = @ \cup {PacketId(r)}]

ByTs(a, b) == a.ts < b.ts    \* AlohaPacketComparator: (carrier, slot) order

PropagatePackets(c, acc) ==
    FoldLeft(LAMBDA st, r : AcceptPacket(c, st, r),
             [acks |-> 0, frames |-> <<>>, pending |-> pending, burst |-> <<>>,
              accepted |-> accepted],
             SetToSortSeq(acc, ByTs))

-----------------------------------------------------------------------------
(* Terminals.                                                              *)

\* addTerminal at logon: a new context in the terminal's category
AddTerminal(t) ==
    /\ pc = "idle"
    /\ t \notin terminals
    /\ terminals' = terminals \cup {t}
    /\ UNCHANGED <<slots, rcvNbr, nextPart, pending, pc, catIdx, burst, ctrlFrames,
                   delivered, completed, accepted>>

(* A terminal sends its next packet in a frame of Replicas copies, and     *)
(* onRcvFrame files each copy in its slot, unless the terminal is unknown. *)
OnRcvFrame(t) ==
    LET p == nextPart[t][1]
        s == nextPart[t][2]
        c == CatOf[t]
    IN
    /\ pc = "idle"
    /\ p <= MaxPdus
    /\ nextPart' = [nextPart EXCEPT ![t] = IF s = PduParts THEN <<p + 1, 1>>
                                           ELSE <<p, s + 1>>]
    /\ \E ts \in SUBSET SlotIds(c) :
        /\ Cardinality(ts) = Replicas
        /\ IF t \in terminals
           THEN /\ slots' = [slots EXCEPT ![c] = [i \in SlotIds(c) |->
                                IF i \in ts THEN @[i] \cup {Replica(t, p, s, i)}
                                ELSE @[i]]]
                /\ rcvNbr' = [rcvNbr EXCEPT ![c] = @ + Replicas]
           ELSE UNCHANGED <<slots, rcvNbr>>
    /\ UNCHANGED <<terminals, pending, pc, catIdx, burst, ctrlFrames, delivered,
                   completed, accepted>>

-----------------------------------------------------------------------------
(* schedule                                                                *)

\* An Aloha frame tick: schedule starts with the first category; the caller
\* has sent the control frames of the previous tick (complete_dvb_frames)
Schedule ==
    /\ pc = "idle"
    /\ pc' = "schedule"
    /\ catIdx' = 1
    /\ ctrlFrames' = <<>>
    /\ UNCHANGED <<terminals, slots, rcvNbr, nextPart, pending, burst, delivered,
                   completed, accepted>>

\* Fault model: the new NetBurst allocated before the empty-category return
ScheduleIdleCategoryNewBurst ==
    /\ pc = "schedule"
    /\ catIdx <= Len(Cats)
    /\ rcvNbr[Cats[catIdx]] = 0
    /\ catIdx' = catIdx + 1
    /\ burst' = <<>>
    /\ UNCHANGED <<terminals, slots, rcvNbr, nextPart, pending, pc, ctrlFrames,
                   delivered, completed, accepted>>

\* scheduleCategory of a category without packets returns at once
ScheduleIdleCategory ==
    /\ pc = "schedule"
    /\ catIdx <= Len(Cats)
    /\ rcvNbr[Cats[catIdx]] = 0
    /\ catIdx' = catIdx + 1
    /\ UNCHANGED <<terminals, slots, rcvNbr, nextPart, pending, pc, burst, ctrlFrames,
                   delivered, completed, accepted>>

(* scheduleCategory: *burst = new NetBurst(), simulated traffic, reset of  *)
(* the packet count, collision removal and the propagation loop; the      *)
(* last control frame is kept only if it holds an ACK.                    *)
ScheduleCategory ==
    LET c == Cats[catIdx] IN
    /\ pc = "schedule"
    /\ catIdx <= Len(Cats)
    /\ rcvNbr[c] > 0
    /\ \E d \in [1..SimNbTal[c] -> SimDraws(c)] :
        IF \E k \in 1..SimNbTal[c] : SimFault(c, d[k])
        THEN /\ pc' = "crashed"
             /\ UNCHANGED <<slots, rcvNbr, pending, catIdx, burst, ctrlFrames,
                            completed, accepted>>
        ELSE
        LET sim == UNION {SimReplicasOf(c, k, d[k]) : k \in 1..SimNbTal[c]}
            sl  == [i \in SlotIds(c) |-> slots[c][i] \cup {r \in sim : r.ts = i}]
            st  == PropagatePackets(c, RemoveCollisions(sl))
        IN
        /\ rcvNbr' = [rcvNbr EXCEPT ![c] = 0]
        /\ slots' = [slots EXCEPT ![c] = EmptySlots[c]]
        /\ burst' = st.burst
        /\ ctrlFrames' = ctrlFrames \o st.frames \o (IF st.acks > 0 THEN <<st.acks>> ELSE <<>>)
        /\ pending' = st.pending
        /\ completed' = completed \cup Range(st.burst)
        /\ accepted' = st.accepted
        /\ catIdx' = catIdx + 1
        /\ UNCHANGED pc
    /\ UNCHANGED <<terminals, nextPart, delivered>>

\* After the last category the caller hands the burst to the upper layer
ScheduleDone ==
    /\ pc = "schedule"
    /\ catIdx > Len(Cats)
    /\ pc' = "idle"
    /\ delivered' = delivered \o burst
    /\ burst' = <<>>
    /\ UNCHANGED <<terminals, slots, rcvNbr, nextPart, pending, catIdx, ctrlFrames,
                   completed, accepted>>

-----------------------------------------------------------------------------

Init ==
    /\ terminals = {}
    /\ slots = EmptySlots
    /\ rcvNbr = [c \in CatSet |-> 0]
    /\ nextPart = [t \in Tals |-> <<1, 1>>]
    /\ pending = [t \in Tals |-> {}]
    /\ pc = "idle"
    /\ catIdx = 1
    /\ burst = <<>>
    /\ ctrlFrames = <<>>
    /\ delivered = <<>>
    /\ completed = {}
    /\ accepted = {}

Next ==
    \/ \E t \in Tals : AddTerminal(t) \/ OnRcvFrame(t)
    \/ Schedule \/ ScheduleIdleCategory \/ ScheduleCategory \/ ScheduleDone

Spec == Init /\ [][Next]_vars

-----------------------------------------------------------------------------
(* Properties                                                              *)

Pdu == Tals \X (1..MaxPdus)

(* Type invariant; it includes that every slot holds only packets filed   *)
(* in it and that no terminal holds parts of a PDU it never sent.         *)
TypeOK ==
    /\ terminals \subseteq Tals
    /\ \A c \in CatSet : \A i \in SlotIds(c) : \A r \in slots[c][i] : r.ts = i
    /\ rcvNbr \in [CatSet -> Nat]
    /\ pending \in [Tals -> SUBSET ((1..MaxPdus) \X (1..PduParts))]
    /\ pc \in {"idle", "schedule", "crashed"}
    /\ catIdx \in 1..Len(Cats) + 1
    /\ burst \in Seq(Pdu) /\ delivered \in Seq(Pdu)
    /\ ctrlFrames \in Seq(1..AcksPerFrame)

(* Every PDU a reassembler completes reaches the upper layer: it is in    *)
(* the burst being built or in a burst already handed over.  It spans     *)
(* onRcvFrame, collision removal, reassembly and the scheduling of every  *)
(* category of an Aloha frame.                                            *)
NoLostPdu ==
    \A pd \in completed : pd \in Range(delivered) \cup Range(burst)

(* No PDU reaches the upper layer twice, although every packet has        *)
(* several replicas in the slots.                                          *)
NoDuplicateDelivery ==
    \A i, j \in 1..Len(delivered) : i # j => delivered[i] # delivered[j]

(* simulateTraffic only files simulated packets in slots that exist and   *)
(* never runs its replica loop past the end of time_slots.                *)
SimulationStaysInSlots ==
    pc # "crashed"

=============================================================================
