--------------------------- MODULE MCTestMultiBlocks ---------------------------
(***************************************************************************)
(* The three-block test for TLC: the four FIFOs Rt::createBlock creates,   *)
(* DEFAULT_FIFO_SIZE places each, and a file of a few chunks, enough for   *)
(* the downward channel to run ahead of the loop and fill a FIFO.          *)
(***************************************************************************)
EXTENDS TestMultiBlocks

MCRtFifos == {"top_mid", "mid_bot", "bot_mid", "mid_top"}

=============================================================================
