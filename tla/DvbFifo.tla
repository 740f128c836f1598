------------------------------- MODULE DvbFifo -------------------------------
(***************************************************************************)
(* The MAC FIFO of OpenSAND (DvbFifo, src/opensand-core/src/dvb_rcs/utils/ *)
(* DvbFifo.h).  Only the class declaration is in the repository; the      *)
(* behaviour of each operation is taken from its documentation comment in *)
(* the header and from the spec (section 4.3).                             *)
(*                                                                         *)
(* The module holds the state of a set of FIFOs and defines one operator  *)
(* per operation.  The operators are used by the schedulers, which run in *)
(* the same channel thread as the producer, so every operator is one      *)
(* atomic step (the per-FIFO mutex of the code only matters for the stats *)
(* reader, which runs in the same thread too).                            *)
(*                                                                         *)
(* An element is a record [id, len]: id names the encapsulated packet it  *)
(* carries (or of which it is the tail after fragmentation), len is its   *)
(* length in bytes.                                                        *)
(***************************************************************************)
EXTENDS Integers, Sequences, SequencesExt

CONSTANTS
    Fifos,          \* the FIFO identifiers (MAC priorities)
    MaxSizePkt      \* max_size_pkt: capacity of every FIFO, in packets

ASSUME MaxSizePkt \in Nat \ {0}

(* new_length_bytes is a vol_bytes_t, an unsigned 32-bit integer.  TLC's *)
(* integers cannot hold 2^32, so the counter is kept as an integer and a  *)
(* negative value stands for the wrapped value 2^32 + newLength[f].       *)

VARIABLES
    queue,      \* queue[f]: the elements of FIFO f, head first
    stat,       \* stat[f]: the mac_fifo_stat_context_t of FIFO f
    newLength   \* newLength[f]: new_length_bytes of FIFO f

fifoVars == <<queue, stat, newLength>>

(* Of mac_fifo_stat_context_t only the live counters are kept; the      *)
(* period counters in/out_* (reset by getStatsCxt) feed probes only.      *)
ZeroStat == [current_pkt_nbr |-> 0, current_length_bytes |-> 0]

FifoInit ==
    /\ queue = [f \in Fifos |-> <<>>]
    /\ stat = [f \in Fifos |-> ZeroStat]
    /\ newLength = [f \in Fifos |-> 0]

(* Fault models of the FIFO operations, each a plausible slip in their   *)
(* implementation; every one must be caught by a property of the runs.   *)
CanPushOffByOne(f) == Len(queue[f]) <= MaxSizePkt
PushFrontAtTail(f, e) ==
    /\ queue' = [queue EXCEPT ![f] = Append(@, e)]
    /\ stat' = [stat EXCEPT ![f].current_pkt_nbr = @ + 1,
                            ![f].current_length_bytes = @ + e.len]
    /\ newLength' = [newLength EXCEPT ![f] = @ - e.len]

(* push: append at the tail; a full FIFO refuses the element (the caller  *)
(* gets false).  Counts the element as input and as "new" data.           *)
CanPush(f) == Len(queue[f]) < MaxSizePkt

Push(f, e) ==
    /\ queue' = [queue EXCEPT ![f] = Append(@, e)]
    /\ stat' = [stat EXCEPT ![f].current_pkt_nbr = @ + 1,
                            ![f].current_length_bytes = @ + e.len]
    /\ newLength' = [newLength EXCEPT ![f] = @ + e.len]

(* pushFront: put back, at the head, the tail of an element that was just *)
(* popped and fragmented.  It is data already counted as new, so the      *)
(* header documents that it decrements new_length_bytes.                 *)
PushFront(f, e) ==
    /\ queue' = [queue EXCEPT ![f] = <<e>> \o @]
    /\ stat' = [stat EXCEPT ![f].current_pkt_nbr = @ + 1,
                            ![f].current_length_bytes = @ + e.len]
    /\ newLength' = [newLength EXCEPT ![f] = @ - e.len]

(* pop: remove the head element (the caller reads it as Head(queue[f])). *)
Pop(f) ==
    /\ queue[f] # <<>>
    /\ queue' = [queue EXCEPT ![f] = Tail(@)]
    /\ stat' = [stat EXCEPT ![f].current_pkt_nbr = @ - 1,
                            ![f].current_length_bytes = @ - Head(queue[f]).len]
    /\ UNCHANGED newLength

(* resetNew: the capacity-request computation has read the new data.     *)
ResetNew(f) ==
    /\ newLength' = [newLength EXCEPT ![f] = 0]
    /\ UNCHANGED <<queue, stat>>

\* Sum of the lengths of the elements of a sequence
SeqBytes(s) == FoldLeft(LAMBDA acc, e : acc + e.len, 0, s)

=============================================================================
