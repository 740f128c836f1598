----------------------------- MODULE EncapPlugin -----------------------------
(***************************************************************************)
(* EncapPlugin::EncapPacketHandler::encapNextPacket                        *)
(* (src/opensand-core/src/common/EncapPlugin.cpp) and the packets it       *)
(* fragments.                                                              *)
(*                                                                         *)
(* The handler keeps the unsent tail of each partly encapsulated packet in *)
(* encap_packets, a std::map keyed by the caller's NetPacket pointer.  A   *)
(* packet is modelled by the address it lives at and the identity of the  *)
(* packet there; an address freed by the caller may be handed out again   *)
(* for a later packet, as the allocator does.  A tail is [pkt, len]: the  *)
(* packet whose bytes it holds and how many are left.                      *)
(*                                                                         *)
(* getChunk is the concrete plugin's (GSE, RLE: not in the repository);    *)
(* it follows the contract of spec 4.4 and may fail.  The caller, which    *)
(* is not in the repository either, follows spec 4.5: it calls            *)
(* encapNextPacket again while a tail is kept, and deletes its packet     *)
(* when the packet is fully sent or when the call fails.                   *)
(***************************************************************************)
EXTENDS Naturals, Sequences

CONSTANTS
    Addrs,          \* addresses a NetPacket may be allocated at
    MaxPackets,     \* bound: packets created by the caller
    MaxLen,         \* bound: length of a packet
    FreeSizes       \* remaining_length values the caller may pass

ASSUME MaxPackets \in Nat /\ MaxLen \in Nat \ {0} /\ FreeSizes \subseteq Nat

VARIABLES
    pkts,           \* pkts[id]: length of the id-th packet created
    heap,           \* heap[a]: the packet living at address a, or Free
    status,         \* the caller's view of the packet at each address
    encap_packets,  \* EncapPacketHandler::encap_packets: address -> tail
    emitted         \* chunks returned in *encap_packet, in order

vars == <<pkts, heap, status, encap_packets, emitted>>

Free    == 0
NoEntry == [pkt |-> 0, len |-> 0]
PacketIds == 1..MaxPackets
Tails == [pkt : PacketIds, len : 1..MaxLen]
Chunks == [of : PacketIds, data : PacketIds, len : 1..MaxLen]

(* getChunk(packet, max_len) per spec 4.4, as <<data, remaining>> lengths, *)
(* 0 standing for NULL: the packet fits, is cut at max_len, or cannot be  *)
(* cut (no data, packet unchanged); <<0, 0>> is a failure.                *)
ChunkResults(len, free) ==
    {IF len <= free THEN <<len, 0>>
     ELSE IF free > 0 THEN <<free, len - free>>
     ELSE <<0, len>>,
     <<0, 0>>}

-----------------------------------------------------------------------------

\* EncapPacketHandler(): the map starts empty
Init ==
    /\ pkts = <<>>
    /\ heap = [a \in Addrs |-> Free]
    /\ status = [a \in Addrs |-> "none"]
    /\ encap_packets = [a \in Addrs |-> NoEntry]
    /\ emitted = <<>>

\* The caller builds a new packet; the allocator may reuse a freed address.
NewPacket(a, len) ==
    /\ heap[a] = Free
    /\ Len(pkts) < MaxPackets
    /\ pkts' = Append(pkts, len)
    /\ heap' = [heap EXCEPT ![a] = Len(pkts) + 1]
    /\ status' = [status EXCEPT ![a] = "pending"]
    /\ UNCHANGED <<encap_packets, emitted>>

(* encapNextPacket(packet, remaining_length, ...): take the tail kept for  *)
(* this address, or the whole packet, ask getChunk for a chunk, return it, *)
(* and keep, replace or erase the tail.  On a failure (or no data and no   *)
(* tail) the copy is deleted and false returned: the map is left as it is. *)
EncapNextPacket(a, free) ==
    LET it  == encap_packets[a]
        src == IF it = NoEntry THEN [pkt |-> heap[a], len |-> pkts[heap[a]]]
               ELSE it
    IN
    /\ heap[a] # Free
    /\ status[a] = "pending"
    /\ \E r \in ChunkResults(src.len, free) :
        \/ /\ r = <<0, 0>>
           /\ status' = [status EXCEPT ![a] = "failed"]
           /\ UNCHANGED <<encap_packets, emitted>>
        \/ /\ r # <<0, 0>>
           /\ emitted' = IF r[1] > 0
                         THEN Append(emitted, [of |-> heap[a], data |-> src.pkt,
                                               len |-> r[1]])
                         ELSE emitted
           /\ encap_packets' = [encap_packets EXCEPT ![a] =
                                  IF r[2] > 0 THEN [pkt |-> src.pkt, len |-> r[2]]
                                  ELSE NoEntry]
           /\ status' = [status EXCEPT ![a] = IF r[2] > 0 THEN "pending" ELSE "done"]
    /\ UNCHANGED <<pkts, heap>>

\* The caller deletes its packet once it is sent, or dropped on a failure.
DeletePacket(a) ==
    /\ status[a] \in {"done", "failed"}
    /\ heap' = [heap EXCEPT ![a] = Free]
    /\ status' = [status EXCEPT ![a] = "none"]
    /\ UNCHANGED <<pkts, encap_packets, emitted>>

Next ==
    \/ \E a \in Addrs, len \in 1..MaxLen : NewPacket(a, len)
    \/ \E a \in Addrs, free \in FreeSizes : EncapNextPacket(a, free)
    \/ \E a \in Addrs : DeletePacket(a)

Spec == Init /\ [][Next]_vars

-----------------------------------------------------------------------------

TypeOK ==
    /\ pkts \in Seq(1..MaxLen) /\ Len(pkts) <= MaxPackets
    /\ heap \in [Addrs -> PacketIds \cup {Free}]
    /\ status \in [Addrs -> {"none", "pending", "done", "failed"}]
    /\ encap_packets \in [Addrs -> Tails \cup {NoEntry}]
    /\ emitted \in Seq(Chunks)

(* Every chunk encapNextPacket returns for a packet holds bytes of that    *)
(* packet (spec 9: a tail lives from the first kept fragment to the last   *)
(* emitted one).  It fails when a tail left by a failed call outlives its  *)
(* packet and a new packet is allocated at the same address.               *)
ChunksOfOwnPacket ==
    \A i \in DOMAIN emitted : emitted[i].data = emitted[i].of

=============================================================================
