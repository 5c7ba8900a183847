----------------------------- MODULE MCChatStreams -----------------------------
(***************************************************************************)
(* Instances of ChatStreams for TLC.                                       *)
(***************************************************************************)
EXTENDS ChatStreams

CONSTANTS A, B
================================================================================
