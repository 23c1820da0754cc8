----------------------------- MODULE MCIpcServer -----------------------------
(***************************************************************************)
(* cpe_ctl, a client that talks and one that connects and stays silent, at *)
(* two slots: the slots can be exhausted, a line can come in pieces or     *)
(* together with the next one, and a slot is used by several clients.      *)
(***************************************************************************)
EXTENDS IpcPosts

CONSTANTS ctl, peer, idle

MCUnits == [c \in Clients |-> IF c = ctl THEN 2 ELSE IF c = peer THEN 3 ELSE 0]
=============================================================================
