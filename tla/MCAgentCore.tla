----------------------------- MODULE MCAgentCore -----------------------------
(***************************************************************************)
(* Small instances of AgentCore.  The sizes keep the code's order          *)
(* BatchMin < HardLines and DefaultLines < HardLines, so that the ring     *)
(* wraps, a POST can be partial, a resize can grow or shrink the ring, and *)
(* a request of 0 (default) and one above the hard limit both occur.       *)
(***************************************************************************)
EXTENDS SpoolFlush
=============================================================================
