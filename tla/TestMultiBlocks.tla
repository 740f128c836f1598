---------------------------- MODULE TestMultiBlocks ----------------------------
(***************************************************************************)
(* The runtime test of a chain of three blocks (src/opensand-rt/src/test/  *)
(* TestMultiBlocks.cpp) over the RtFifos of module RtFifo.                 *)
(*                                                                         *)
(* top, middle and bottom each have a downward and an upward channel, one  *)
(* thread each.  Rt::createBlock connects top-middle and middle-bottom     *)
(* with one FIFO per direction.  The top downward channel reads the input  *)
(* file chunk by chunk, keeps the chunk in last_written and sends it down; *)
(* the middle forwards; the bottom writes it on a pipe and its upward      *)
(* channel reads the pipe and sends what it read up; the top upward        *)
(* channel compares it with last_written.                                  *)
(*                                                                         *)
(* A chunk of the file is a number; a message is the sequence of the      *)
(* chunks it holds (a read on the bottom pipe may return several).  Time   *)
(* is not modelled: sleep(1) is a step that does nothing.  The event loop  *)
(* of a channel (RtChannel, not in the repository) reads one MAGIC_WORD,   *)
(* pops one message, posts the semaphore and runs the handler.             *)
(***************************************************************************)
EXTENDS RtFifo, SequencesExt

CONSTANT
    NbChunks        \* bound: number of chunks in the input file

ASSUME NbChunks \in Nat \ {0}

Channels == {"top_down", "mid_down", "bot_down", "bot_up", "mid_up", "top_up"}

\* The FIFO a channel reads and the FIFO it writes (connectBlocks)
InFifo == [mid_down |-> "top_mid", bot_down |-> "mid_bot",
           mid_up |-> "bot_mid", top_up |-> "mid_top"]
OutFifo == [top_down |-> "top_mid", mid_down |-> "mid_bot",
            bot_up |-> "bot_mid", mid_up |-> "mid_top"]
Readers == DOMAIN InFifo
Writers == DOMAIN OutFifo

ASSUME RtFifos = {"top_mid", "mid_bot", "bot_mid", "mid_top"}

VARIABLES
    chPc,         \* chPc[c]: where the thread of channel c is
    msg,          \* msg[c]: the message channel c is handling
    nextChunk,    \* the next chunk the top block reads from the file
    lastWritten,  \* TopBlock::last_written
    pipe,         \* the bottom block's pipe, as the chunks written on it
    received,     \* history: the chunks the top upward channel matched
    stopped,      \* the process has ended (SIGTERM at EOF or critical error)
    testError     \* the top upward channel reported "wrong data received"

vars == <<rtFifoVars, chPc, msg, nextChunk, lastWritten, pipe, received,
          stopped, testError>>

NoMsg == <<>>

-----------------------------------------------------------------------------
(* Sending: the two steps of RtFifo::push on the channel's next FIFO.      *)

ChannelSemWait(c) ==
    /\ ~stopped
    /\ chPc[c] = "sem_wait"
    /\ SemWait(OutFifo[c])
    /\ chPc' = [chPc EXCEPT ![c] = "push"]
    /\ UNCHANGED <<msg, nextChunk, lastWritten, pipe, received, stopped, testError>>

\* After the push the handler returns (the top one after sleep(1))
ChannelPush(c) ==
    /\ ~stopped
    /\ chPc[c] = "push"
    /\ PushLocked(OutFifo[c], msg[c])
    /\ chPc' = [chPc EXCEPT ![c] = "wait"]
    /\ msg' = [msg EXCEPT ![c] = NoMsg]
    /\ UNCHANGED <<nextChunk, lastWritten, pipe, received, stopped, testError>>

-----------------------------------------------------------------------------
(* Receiving: the event loop of a channel fed by a FIFO.                   *)

ChannelReadSignal(c) ==
    /\ ~stopped
    /\ chPc[c] = "wait"
    /\ ReadSignal(InFifo[c])
    /\ chPc' = [chPc EXCEPT ![c] = "pop"]
    /\ UNCHANGED <<msg, nextChunk, lastWritten, pipe, received, stopped, testError>>

ChannelPop(c) ==
    /\ ~stopped
    /\ chPc[c] = "pop"
    /\ PopLocked(InFifo[c])
    /\ msg' = [msg EXCEPT ![c] = IF fifo[InFifo[c]] = <<>> THEN NoMsg
                                 ELSE Head(fifo[InFifo[c]])]
    /\ chPc' = [chPc EXCEPT ![c] = "post"]
    /\ UNCHANGED <<nextChunk, lastWritten, pipe, received, stopped, testError>>

(* sem_post, then the block's handler for the message:                    *)
(*  - MiddleBlock forwards it (sendDown / sendUp);                         *)
(*  - BottomBlock::onDownwardEvent writes it on the pipe;                  *)
(*  - TopBlock::onUpwardEvent compares it with last_written and reports a  *)
(*    critical error, which stops the process, when they differ.          *)
ChannelDeliver(c) ==
    /\ ~stopped
    /\ chPc[c] = "post"
    /\ SemPost(InFifo[c])
    /\ CASE c \in {"mid_down", "mid_up"} ->
              /\ chPc' = [chPc EXCEPT ![c] = "sem_wait"]
              /\ UNCHANGED <<msg, pipe, received, stopped, testError>>
         [] c = "bot_down" ->
              /\ pipe' = pipe \o msg[c]
              /\ chPc' = [chPc EXCEPT ![c] = "wait"]
              /\ msg' = [msg EXCEPT ![c] = NoMsg]
              /\ UNCHANGED <<received, stopped, testError>>
         [] c = "top_up" ->
              /\ chPc' = [chPc EXCEPT ![c] = "wait"]
              /\ msg' = [msg EXCEPT ![c] = NoMsg]
              /\ IF msg[c] = <<lastWritten>>
                 THEN /\ received' = received \o msg[c]
                      /\ UNCHANGED <<stopped, testError>>
                 ELSE /\ stopped' = TRUE
                      /\ testError' = TRUE
                      /\ UNCHANGED received
              /\ UNCHANGED pipe
    /\ UNCHANGED <<nextChunk, lastWritten>>

-----------------------------------------------------------------------------
(* File events.                                                            *)

\* TopBlock::onDownwardEvent: a chunk of the file is kept and sent down
TopReadFile ==
    /\ ~stopped
    /\ chPc["top_down"] = "wait"
    /\ nextChunk <= NbChunks
    /\ lastWritten' = nextChunk
    /\ msg' = [msg EXCEPT !["top_down"] = <<nextChunk>>]
    /\ nextChunk' = nextChunk + 1
    /\ chPc' = [chPc EXCEPT !["top_down"] = "sem_wait"]
    /\ UNCHANGED <<rtFifoVars, pipe, received, stopped, testError>>

\* TopBlock::onDownwardEvent at end of file: sleep(1), then SIGTERM
TopEndOfFile ==
    /\ ~stopped
    /\ chPc["top_down"] = "wait"
    /\ nextChunk > NbChunks
    /\ stopped' = TRUE
    /\ UNCHANGED <<rtFifoVars, chPc, msg, nextChunk, lastWritten, pipe, received,
                   testError>>

\* Fault model: a read of the pipe that leaves what it read in the pipe
BottomReadPipeNoConsume ==
    /\ ~stopped
    /\ chPc["bot_up"] = "wait"
    /\ \E k \in 1..Len(pipe) :
        /\ msg' = [msg EXCEPT !["bot_up"] = SubSeq(pipe, 1, k)]
        /\ pipe' = pipe
    /\ chPc' = [chPc EXCEPT !["bot_up"] = "sem_wait"]
    /\ UNCHANGED <<rtFifoVars, nextChunk, lastWritten, received, stopped, testError>>

(* BottomBlock::onUpwardEvent: one read of the pipe returns what has been *)
(* written and not read yet, possibly several chunks, and sends it up.    *)
BottomReadPipe ==
    /\ ~stopped
    /\ chPc["bot_up"] = "wait"
    /\ \E k \in 1..Len(pipe) :
        /\ msg' = [msg EXCEPT !["bot_up"] = SubSeq(pipe, 1, k)]
        /\ pipe' = SubSeq(pipe, k + 1, Len(pipe))
    /\ chPc' = [chPc EXCEPT !["bot_up"] = "sem_wait"]
    /\ UNCHANGED <<rtFifoVars, nextChunk, lastWritten, received, stopped, testError>>

-----------------------------------------------------------------------------

Init ==
    /\ RtFifoInit
    /\ chPc = [c \in Channels |-> "wait"]
    /\ msg = [c \in Channels |-> NoMsg]
    /\ nextChunk = 1
    /\ lastWritten = 0
    /\ pipe = <<>>
    /\ received = <<>>
    /\ stopped = FALSE
    /\ testError = FALSE

Next ==
    \/ TopReadFile \/ TopEndOfFile \/ BottomReadPipe
    \/ \E c \in Writers : ChannelSemWait(c) \/ ChannelPush(c)
    \/ \E c \in Readers : ChannelReadSignal(c) \/ ChannelPop(c) \/ ChannelDeliver(c)

(* Every channel has its own OS thread: a thread that can run eventually  *)
(* does.  The end of file is an event of the top downward channel too.    *)
Fairness ==
    /\ WF_vars(TopReadFile \/ TopEndOfFile)
    /\ WF_vars(BottomReadPipe)
    /\ \A c \in Writers : WF_vars(ChannelSemWait(c) \/ ChannelPush(c))
    /\ \A c \in Readers : WF_vars(ChannelReadSignal(c) \/ ChannelPop(c) \/ ChannelDeliver(c))

Spec == Init /\ [][Next]_vars /\ Fairness

-----------------------------------------------------------------------------
(* Properties                                                              *)

Stages == {"wait", "sem_wait", "push", "pop", "post"}

(* Type invariant; it includes that no semaphore goes below zero or above *)
(* max_size, since every sem_post follows a sem_wait.                     *)
TypeOK ==
    /\ chPc \in [Channels -> Stages]
    /\ msg \in [Channels -> Seq(1..NbChunks)]
    /\ fifo \in [RtFifos -> Seq(Seq(1..NbChunks))]
    /\ sem \in [RtFifos -> 0..MaxSize]
    /\ sigWords \in [RtFifos -> Nat]
    /\ nextChunk \in 1..NbChunks + 1
    /\ pipe \in Seq(1..NbChunks)
    /\ stopped \in BOOLEAN /\ testError \in BOOLEAN

(* RtFifo::push's claim "Size is greater than maximum size ... this should *)
(* not happend": a writer that has passed sem_wait always finds a free     *)
(* place, whatever the reader of the FIFO is doing between its pop and     *)
(* its sem_post.                                                           *)
NoOverfullPush ==
    \A c \in Writers :
        chPc[c] = "push" => Len(fifo[OutFifo[c]]) < MaxSize

(* RtFifo::pop's claim "Fifo is already empty, this should not happend":  *)
(* a reader woken by a MAGIC_WORD always finds a message, since each push *)
(* writes one word after its message under the mutex and each wake-up    *)
(* consumes one.                                                          *)
NoEmptyPop ==
    \A c \in Readers :
        chPc[c] = "pop" => fifo[InFifo[c]] # <<>>

(* No thread waits forever in sem_wait: every writer blocked on a full   *)
(* FIFO eventually pushes its message, or the process ends.  Readers       *)
(* block on their own next FIFO in turn, so this rules out a cycle of     *)
(* full FIFOs along the chain and a semaphore that loses a post.          *)
WritersEventuallyPush ==
    \A c \in Writers : chPc[c] = "sem_wait" ~> (chPc[c] = "wait" \/ stopped)

(* The chunks of the file, oldest first, from the top upward channel back *)
(* along the loop to the top downward channel: what the top block has     *)
(* matched, then each channel's message and each FIFO's content.          *)
InLoop ==
    received \o msg["top_up"] \o FlattenSeq(fifo["mid_top"]) \o msg["mid_up"]
    \o FlattenSeq(fifo["bot_mid"]) \o msg["bot_up"] \o pipe \o msg["bot_down"]
    \o FlattenSeq(fifo["mid_bot"]) \o msg["mid_down"] \o FlattenSeq(fifo["top_mid"])
    \o msg["top_down"]

(* The loop neither loses, duplicates nor reorders a chunk: the chunks    *)
(* read from the file so far are, in file order, all in the loop, across  *)
(* the two-step push and pop of six threads and a pipe whose reads may    *)
(* join what was written.  (Until the top block's comparison fails.)      *)
ChunksStayInOrder ==
    ~testError => InLoop = [i \in 1..nextChunk - 1 |-> i]

=============================================================================
