------------------------ MODULE MCReturnSchedulingRcs2 ------------------------
(***************************************************************************)
(* Instances of the return scheduler for TLC.  Bursts are 1000 bytes and  *)
(* packets 800 or 1200 bytes, the sizes of the spec's fragmentation        *)
(* scenario (section 8, scenario 1), so that a packet may fit, not fit, or *)
(* be split across two bursts and two calls.                               *)
(***************************************************************************)
EXTENDS ReturnSchedulingRcs2

\* A terminal with two DAMA FIFOs around a Slotted Aloha FIFO (GSE handler)
MCFifos == 1..3
MCAccessType == <<"dama", "saloha", "dama">>

\* A terminal with two DAMA FIFOs and a handler that cannot fragment
MCFixedFifos == 1..2
MCFixedAccessType == <<"dama", "dama">>

\* Every failed call pushes the unsent packet back with pushFront, which
\* decrements new_length_bytes again: the counter has no floor.  The
\* search stops once it owes more than this many bytes.
MaxNewLengthDebt == 2 * MaxBurstBytes

NewLengthBound == \A f \in Fifos : newLength[f] >= -MaxNewLengthDebt

=============================================================================
