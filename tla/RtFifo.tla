-------------------------------- MODULE RtFifo --------------------------------
(***************************************************************************)
(* The message FIFO between two channels of the runtime (RtFifo,           *)
(* src/opensand-rt/src/RtFifo.cpp).  A FIFO is a queue guarded by          *)
(* fifo_mutex, a counting semaphore fifo_size_sem of free places, and a    *)
(* pipe on which push writes one MAGIC_WORD per message so that the event  *)
(* loop of the reading channel wakes up.                                   *)
(*                                                                         *)
(* The module holds the state of a set of FIFOs and defines one operator   *)
(* per atomic step of push and pop; the module that composes channels     *)
(* gives each thread its program counter.  What runs under fifo_mutex is   *)
(* one step, since the mutex excludes the other side for its duration.    *)
(* The pipe is kept as the number of MAGIC_WORDs not yet read.            *)
(***************************************************************************)
EXTENDS Integers, Sequences

CONSTANTS
    RtFifos,    \* the FIFOs
    MaxSize     \* max_size, DEFAULT_FIFO_SIZE

ASSUME MaxSize \in Nat \ {0}

VARIABLES
    fifo,       \* fifo[q]: the messages of FIFO q, head first
    sem,        \* sem[q]: the value of fifo_size_sem of q
    sigWords    \* sigWords[q]: MAGIC_WORDs written on q's pipe and not read

rtFifoVars == <<fifo, sem, sigWords>>

\* init: an empty queue, the semaphore at max_size, an empty pipe
RtFifoInit ==
    /\ fifo = [q \in RtFifos |-> <<>>]
    /\ sem = [q \in RtFifos |-> MaxSize]
    /\ sigWords = [q \in RtFifos |-> 0]

(* Fault models of the FIFO steps, each a plausible slip in the code or  *)
(* in the event loop; every one must be caught by a property of the runs. *)
SemWaitUnchecked(q) ==
    /\ sem' = [sem EXCEPT ![q] = IF @ > 0 THEN @ - 1 ELSE @]
    /\ UNCHANGED <<fifo, sigWords>>
SemPostForgotten(q) ==
    UNCHANGED <<fifo, sem, sigWords>>
ReadSignalNoConsume(q) ==
    /\ sigWords[q] > 0
    /\ UNCHANGED <<fifo, sem, sigWords>>

\* push, first step: sem_wait blocks while no place is free
SemWait(q) ==
    /\ sem[q] > 0
    /\ sem' = [sem EXCEPT ![q] = @ - 1]
    /\ UNCHANGED <<fifo, sigWords>>

(* push, second step, under fifo_mutex: the size check only reports a    *)
(* full FIFO ("this should not happend") and the message is pushed        *)
(* anyway, then a MAGIC_WORD is written on the pipe.                      *)
PushLocked(q, m) ==
    /\ fifo' = [fifo EXCEPT ![q] = Append(@, m)]
    /\ sigWords' = [sigWords EXCEPT ![q] = @ + 1]
    /\ UNCHANGED sem

(* The event loop of the reading channel sees the pipe readable and       *)
(* reads one MAGIC_WORD before it calls pop.                               *)
ReadSignal(q) ==
    /\ sigWords[q] > 0
    /\ sigWords' = [sigWords EXCEPT ![q] = @ - 1]
    /\ UNCHANGED <<fifo, sem>>

(* pop, first step, under fifo_mutex: take the head; an empty FIFO is     *)
(* reported ("Fifo is already empty") and left as it is.                  *)
PopLocked(q) ==
    /\ fifo' = [fifo EXCEPT ![q] = IF @ = <<>> THEN @ ELSE Tail(@)]
    /\ UNCHANGED <<sem, sigWords>>

\* pop, second step, after the unlock: sem_post, on both paths
SemPost(q) ==
    /\ sem' = [sem EXCEPT ![q] = @ + 1]
    /\ UNCHANGED <<fifo, sigWords>>

=============================================================================
