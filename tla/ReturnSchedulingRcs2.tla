-------------------------- MODULE ReturnSchedulingRcs2 --------------------------
(***************************************************************************)
(* The DVB-RCS2 return-link scheduler of a terminal                        *)
(* (ReturnSchedulingRcs2::macSchedule, src/opensand-core/src/dvb/dama/     *)
(* ReturnSchedulingRcs2.cpp) over the MAC FIFOs of module DvbFifo.         *)
(*                                                                         *)
(* macSchedule is the state machine of the code, one action per case of    *)
(* its switch, with pc holding sched_state_t ("idle" outside a call).      *)
(* Once per superframe the terminal calls it with an allocation in kbits;  *)
(* between calls the same channel thread pushes encapsulated packets into  *)
(* the FIFOs.  Nothing runs concurrently with a *)
(* call, so environment steps are only enabled while pc = "idle".          *)
(*                                                                         *)
(* getChunk is the encapsulation plugin's (section 4.4 of the spec): a     *)
(* packet that fits is returned whole; one that does not is cut at the     *)
(* free space when the plugin fragments and that space is at least         *)
(* MinFragment, and is otherwise returned unchanged as the remainder.      *)
(* With ChunkMayFail a call may also fail or break its contract (no data   *)
(* and no remainder), which the code answers by dropping the packet.       *)
(***************************************************************************)
EXTENDS DvbFifo, FiniteSets

CONSTANTS
    AccessType,     \* AccessType[f] \in {"dama", "saloha"}
    MaxBurstBytes,  \* max_burst_length_b >> 3: payload capacity of a burst
    PacketLengths,  \* lengths of the encapsulated packets the terminal sends
    Allocs,         \* allocations (kbits) a superframe may grant
    MaxPackets,     \* bound: number of packets the terminal sends
    Fragmentable,   \* the packet handler fragments packets (GSE) or not
    MinFragment,    \* smallest free space in which it cuts a fragment
    ChunkMayFail    \* getChunk may fail or break its contract

ASSUME /\ Fifos = 1..Cardinality(Fifos)
       /\ AccessType \in [Fifos -> {"dama", "saloha"}]
       /\ MaxBurstBytes \in Nat \ {0}
       /\ Allocs \subseteq Nat \ {0}
       /\ Fragmentable \in BOOLEAN /\ ChunkMayFail \in BOOLEAN

NbFifos == Cardinality(Fifos)
NoElem == [id |-> 0, len |-> 0]     \* a NULL NetPacket / MacFifoElement

VARIABLES
    pc,          \* sched_state_t of the running macSchedule, or "idle"
    fifoIt,      \* fifo_it, as an index into Fifos (NbFifos + 1 = end())
    elem,        \* elem / encap_packet popped from the FIFO
    data,        \* the chunk returned by getChunk, or NoElem
    frame,       \* chunks in incomplete_dvb_frame
    frameNull,   \* incomplete_dvb_frame = NULL
    frameLenB,   \* frame_length_b
    remainingKb, \* remaining_allocation_kb
    allocKb,     \* history: the allocation the running call started with
    complete,    \* complete_dvb_frames of the running call
    sentBytes,   \* history: sentBytes[id] = bytes of packet id in complete frames
    pkts,        \* history: pkts[id] = [fifo, len] of every packet offered
    dropped,     \* history: packets refused by a full FIFO or dropped on error
    result       \* return value of the last macSchedule call

vars == <<fifoVars, pc, fifoIt, elem, data, frame, frameNull, frameLenB, remainingKb,
          allocKb, complete, sentBytes, pkts, dropped, result>>

PacketIds == 1..MaxPackets
CeilKb(bits) == (bits + 999) \div 1000      \* ceil(frame_length_b / 1000.)
FrameBytes(fr) == SeqBytes(fr)
FreeSpace == MaxBurstBytes - FrameBytes(frame)  \* getFreeSpace()

(* The results getChunk(packet, free) may give, as <<data, remaining>>   *)
(* lengths, 0 standing for NULL; <<0, 0>> is a failure or the contract   *)
(* error "no data and no remaining data".                                 *)
ChunkResults(len, free) ==
    LET cut == IF len <= free THEN {<<len, 0>>}
               ELSE IF Fragmentable /\ free >= MinFragment
                    THEN {<<free, len - free>>}
                    ELSE {<<0, len>>}
    IN  cut \cup (IF ChunkMayFail THEN {<<0, 0>>} ELSE {})

-----------------------------------------------------------------------------
(* Environment: the channel thread between two calls.                      *)

\* The encapsulation block hands a packet to the MAC layer (DvbFifo::push)
Enqueue(f, len) ==
    LET id == Len(pkts) + 1
        e  == [id |-> id, len |-> len]
    IN
    /\ pc = "idle"
    /\ id \in PacketIds
    /\ pkts' = Append(pkts, [fifo |-> f, len |-> len])
    /\ \/ /\ CanPush(f)
          /\ Push(f, e)
          /\ UNCHANGED dropped
       \/ /\ ~CanPush(f)
          /\ dropped' = dropped \cup {id}
          /\ UNCHANGED fifoVars
    /\ UNCHANGED <<pc, fifoIt, elem, data, frame, frameNull, frameLenB, remainingKb,
                   allocKb, complete, sentBytes, result>>

\* The capacity request of the superframe has read the FIFO's new data
\* (DvbFifo::resetNew, called by the terminal's request computation)
CapacityRequest(f) ==
    /\ pc = "idle"
    /\ ResetNew(f)
    /\ UNCHANGED <<pc, fifoIt, elem, data, frame, frameNull, frameLenB, remainingKb,
                   allocKb, complete, sentBytes, pkts, dropped, result>>

-----------------------------------------------------------------------------
(* macSchedule                                                             *)

\* Entry: allocate the first frame and start at the first FIFO
MacSchedule(a) ==
    /\ pc = "idle"
    /\ pc' = "get_fifo"
    /\ fifoIt' = 1
    /\ frame' = <<>>
    /\ frameNull' = FALSE
    /\ frameLenB' = 0
    /\ remainingKb' = a
    /\ allocKb' = a
    /\ complete' = <<>>
    /\ UNCHANGED <<fifoVars, elem, data, sentBytes, pkts, dropped, result>>

(* Fault models of macSchedule, each a plausible slip in one case of the *)
(* switch; every one must be caught by a property of the runs.           *)
GetFifoSalohaEnds ==
    /\ pc = "get_fifo"
    /\ pc' = IF fifoIt > NbFifos \/ AccessType[fifoIt] = "saloha" THEN "end"
             ELSE "next_encap_pkt"
    /\ UNCHANGED <<fifoVars, fifoIt, elem, data, frame, frameNull, frameLenB, remainingKb,
                   allocKb, complete, sentBytes, pkts, dropped, result>>
GetChunkDroppingTail ==
    /\ pc = "get_chunk"
    /\ \E r \in ChunkResults(elem.len, FreeSpace) :
        \/ /\ r = <<0, 0>>
           /\ dropped' = dropped \cup {elem.id}
           /\ pc' = "next_encap_pkt"
           /\ UNCHANGED data
        \/ /\ r # <<0, 0>>
           /\ data' = IF r[1] > 0 THEN [id |-> elem.id, len |-> r[1]] ELSE NoElem
           /\ pc' = IF r[1] > 0 THEN "add_data" ELSE "finalize_frame"
           /\ UNCHANGED dropped
    /\ elem' = NoElem
    /\ UNCHANGED <<fifoVars, fifoIt, frame, frameNull, frameLenB, remainingKb, allocKb,
                   complete, sentBytes, pkts, result>>

NextFifo ==
    /\ pc = "next_fifo"
    /\ fifoIt' = fifoIt + 1
    /\ pc' = "get_fifo"
    /\ UNCHANGED <<fifoVars, elem, data, frame, frameNull, frameLenB, remainingKb,
                   allocKb, complete, sentBytes, pkts, dropped, result>>

GetFifo ==
    /\ pc = "get_fifo"
    /\ pc' = IF fifoIt > NbFifos THEN "end"
             ELSE IF AccessType[fifoIt] = "saloha" THEN "next_fifo"
             ELSE "next_encap_pkt"
    /\ UNCHANGED <<fifoVars, fifoIt, elem, data, frame, frameNull, frameLenB, remainingKb,
                   allocKb, complete, sentBytes, pkts, dropped, result>>

NextEncapPkt ==
    /\ pc = "next_encap_pkt"
    /\ \/ /\ queue[fifoIt] = <<>>
          /\ pc' = "next_fifo"
          /\ UNCHANGED <<fifoVars, elem>>
       \/ /\ Pop(fifoIt)
          /\ elem' = Head(queue[fifoIt])
          /\ pc' = "get_chunk"
    /\ UNCHANGED <<fifoIt, data, frame, frameNull, frameLenB, remainingKb,
                   allocKb, complete, sentBytes, pkts, dropped, result>>

GetChunk ==
    /\ pc = "get_chunk"
    /\ \E r \in ChunkResults(elem.len, FreeSpace) :
        \/ /\ r = <<0, 0>>                    \* error: delete the packet
           /\ dropped' = dropped \cup {elem.id}
           /\ pc' = "next_encap_pkt"
           /\ UNCHANGED <<fifoVars, data>>
        \/ /\ r # <<0, 0>>
           /\ data' = IF r[1] > 0 THEN [id |-> elem.id, len |-> r[1]] ELSE NoElem
           /\ pc' = IF r[1] > 0 THEN "add_data" ELSE "finalize_frame"
           /\ IF r[2] > 0
              THEN PushFront(fifoIt, [id |-> elem.id, len |-> r[2]])
              ELSE UNCHANGED fifoVars
           /\ UNCHANGED dropped
    /\ elem' = NoElem
    /\ UNCHANGED <<fifoIt, frame, frameNull, frameLenB, remainingKb, allocKb, complete,
                   sentBytes, pkts, result>>

\* addPacket refuses only a chunk larger than the free space, which
\* getChunk never returns: its error branch (state_error) is unreachable.
AddData ==
    LET frame2 == Append(frame, data)
        len2   == frameLenB + data.len * 8
    IN
    /\ pc = "add_data"
    /\ frame' = frame2
    /\ frameLenB' = len2
    /\ data' = NoElem
    /\ pc' = IF MaxBurstBytes - FrameBytes(frame2) <= 0 THEN "finalize_frame"
             ELSE IF remainingKb * 1000 <= len2 THEN "finalize_frame"
             ELSE "next_encap_pkt"
    /\ UNCHANGED <<fifoVars, fifoIt, elem, frameNull, remainingKb, allocKb, complete,
                   sentBytes, pkts, dropped, result>>

\* Store a frame with the complete frames and charge it to the allocation
Emit(fr) ==
    /\ complete' = Append(complete, fr)
    /\ sentBytes' = [id \in DOMAIN sentBytes |->
                        sentBytes[id] + FrameBytes(SelectSeq(fr, LAMBDA c : c.id = id))]
    /\ remainingKb' = remainingKb - CeilKb(frameLenB)

\* Fault model: the remaining allocation is not checked after a frame
FinalizeFrameIgnoringAllocation ==
    /\ pc = "finalize_frame"
    /\ \/ /\ frame = <<>>
          /\ frameLenB' = 0
          /\ pc' = "error"
          /\ UNCHANGED <<frame, frameNull, complete, sentBytes, remainingKb>>
       \/ /\ frame # <<>>
          /\ Emit(frame)
          /\ frame' = <<>>
          /\ frameLenB' = 0
          /\ pc' = "next_encap_pkt"
          /\ UNCHANGED frameNull
    /\ UNCHANGED <<fifoVars, fifoIt, elem, data, allocKb, pkts, dropped, result>>

FinalizeFrame ==
    /\ pc = "finalize_frame"
    /\ \/ /\ frame = <<>>                     \* "this should never append"
          /\ frameLenB' = 0
          /\ pc' = "error"
          /\ UNCHANGED <<frame, frameNull, complete, sentBytes, remainingKb>>
       \/ /\ frame # <<>>
          /\ Emit(frame)
          /\ IF remainingKb - CeilKb(frameLenB) <= 0
             THEN /\ frame' = <<>>
                  /\ frameNull' = TRUE
                  /\ pc' = "end"
                  /\ UNCHANGED frameLenB
             ELSE /\ frame' = <<>>
                  /\ UNCHANGED frameNull
                  /\ frameLenB' = 0
                  /\ pc' = "next_encap_pkt"
    /\ UNCHANGED <<fifoVars, fifoIt, elem, data, allocKb, pkts, dropped, result>>

\* After the loop: emit the last frame if it holds packets, return true
ScheduleEndAnyFrame ==
    /\ pc = "end"
    /\ IF ~frameNull THEN Emit(frame) ELSE UNCHANGED <<complete, sentBytes, remainingKb>>
    /\ frame' = <<>>
    /\ frameNull' = TRUE
    /\ pc' = "idle"
    /\ result' = TRUE
    /\ UNCHANGED <<fifoVars, fifoIt, elem, data, frameLenB, allocKb, pkts, dropped>>

ScheduleEnd ==
    /\ pc = "end"
    /\ IF ~frameNull /\ frame # <<>>
       THEN Emit(frame)
       ELSE UNCHANGED <<complete, sentBytes, remainingKb>>
    /\ frame' = <<>>
    /\ frameNull' = TRUE
    /\ pc' = "idle"
    /\ result' = TRUE
    /\ UNCHANGED <<fifoVars, fifoIt, elem, data, frameLenB, allocKb, pkts, dropped>>

\* After the loop in error: delete the incomplete frame, return false
ScheduleError ==
    /\ pc = "error"
    /\ frame' = <<>>
    /\ frameNull' = TRUE
    /\ pc' = "idle"
    /\ result' = FALSE
    /\ UNCHANGED <<fifoVars, fifoIt, elem, data, frameLenB, remainingKb, allocKb,
                   complete, sentBytes, pkts, dropped>>

-----------------------------------------------------------------------------

Init ==
    /\ FifoInit
    /\ pc = "idle"
    /\ fifoIt = 1
    /\ elem = NoElem
    /\ data = NoElem
    /\ frame = <<>>
    /\ frameNull = TRUE
    /\ frameLenB = 0
    /\ remainingKb = 0
    /\ allocKb = 0
    /\ complete = <<>>
    /\ sentBytes = [id \in PacketIds |-> 0]
    /\ pkts = <<>>
    /\ dropped = {}
    /\ result = TRUE

SchedulerStep ==
    \/ NextFifo \/ GetFifo \/ NextEncapPkt \/ GetChunk \/ AddData
    \/ FinalizeFrame \/ ScheduleEnd \/ ScheduleError

Next ==
    \/ \E f \in Fifos, len \in PacketLengths : Enqueue(f, len)
    \/ \E f \in Fifos : CapacityRequest(f)
    \/ \E a \in Allocs : MacSchedule(a)
    \/ SchedulerStep

(* The channel thread runs a started call to its end, and the superframe  *)
(* timer calls macSchedule again every superframe.                        *)
Fairness ==
    /\ WF_vars(SchedulerStep)
    /\ WF_vars(\E a \in Allocs : MacSchedule(a))

Spec == Init /\ [][Next]_vars /\ Fairness

-----------------------------------------------------------------------------
(* Properties                                                              *)

Chunk == [id : 0..MaxPackets, len : Nat]
States == {"idle", "next_fifo", "get_fifo", "next_encap_pkt", "get_chunk",
           "add_data", "finalize_frame", "end", "error"}

(* Type invariant; it includes the bound of every FIFO: no operation of  *)
(* the scheduler or its producer makes a FIFO hold more than max_size_pkt *)
(* elements.                                                              *)
TypeOK ==
    /\ pc \in States
    /\ fifoIt \in 1..NbFifos + 1
    /\ queue \in [Fifos -> Seq(Chunk)]
    /\ \A f \in Fifos : Len(queue[f]) <= MaxSizePkt
    /\ elem \in Chunk /\ data \in Chunk
    /\ frame \in Seq(Chunk) /\ frameNull \in BOOLEAN
    /\ remainingKb \in Int /\ frameLenB \in Nat
    /\ sentBytes \in [PacketIds -> Nat]
    /\ dropped \subseteq PacketIds
    /\ result \in BOOLEAN

\* The bytes of packet id held anywhere between its FIFO and a complete frame
Pending(id) ==
    LET mine(c) == c.id = id
    IN  SumFunction([f \in Fifos |-> SeqBytes(SelectSeq(queue[f], mine))])
        + (IF elem.id = id THEN elem.len ELSE 0)
        + (IF data.id = id THEN data.len ELSE 0)
        + SeqBytes(SelectSeq(frame, mine))

(* No byte is lost or invented by fragmentation (spec 4.6 invariant iii): *)
(* for every packet offered and not dropped, the bytes already in          *)
(* complete frames plus the bytes still in its FIFO (the tail put back by  *)
(* pushFront), in the scheduler's hands or in the incomplete frame add up  *)
(* to its length.  It spans pop, getChunk, pushFront, addPacket and the    *)
(* finalisation of several frames over several calls.                      *)
ByteConservation ==
    \A id \in 1..Len(pkts) \ dropped :
        sentBytes[id] + Pending(id) = pkts[id].len

(* Packets leave a MAC FIFO in enqueue order (spec section 5, ordering    *)
(* iii): once a byte of a packet is in a complete frame, every packet     *)
(* offered earlier to the same FIFO has been sent entirely or dropped.    *)
(* The tail put back by pushFront must stay ahead of later packets.       *)
FifoOrder ==
    \A p, q \in 1..Len(pkts) :
        /\ q < p
        /\ pkts[q].fifo = pkts[p].fifo
        /\ sentBytes[p] > 0
        => sentBytes[q] = pkts[q].len \/ q \in dropped

(* The allocation is checked only after a chunk is added, so a call may  *)
(* overrun its allocation (the spec's invariant 4.6 ii says the emitted  *)
(* bits never exceed it), but by less than one burst: the remaining      *)
(* allocation never falls below 1 - ceil(burst bits / 1000) kbits.       *)
AllocationOvershootBounded ==
    remainingKb >= 1 - CeilKb(MaxBurstBytes * 8)

DamaPacketsEventuallySent ==
    \A id \in PacketIds :
        (id <= Len(pkts) /\ AccessType[pkts[id].fifo] = "dama")
            ~> (id <= Len(pkts) /\ (sentBytes[id] = pkts[id].len \/ id \in dropped))

(* new_length_bytes is unsigned: it must never be asked to go below zero *)
(* (a negative model value is a wrapped counter of about 4 Gbytes, which  *)
(* the capacity request would then ask for).                             *)
NewLengthNoWrap ==
    \A f \in Fifos : newLength[f] >= 0

(* The code's own claim at state_finalize_frame: a frame reaching        *)
(* finalisation without packets "should never append".                   *)
NoEmptyFinalize ==
    pc = "finalize_frame" => frame # <<>>

=============================================================================
