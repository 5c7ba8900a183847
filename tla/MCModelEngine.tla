---------------------------- MODULE MCModelEngine ----------------------------
(***************************************************************************)
(* Instances of ModelEngine for TLC: two tiers and two context lengths.    *)
(* The chats build the small tier with its default context; the user loads *)
(* the big one with a shorter context, and changes that context while it   *)
(* is written.                                                             *)
(***************************************************************************)
EXTENDS ModelEngine

CONSTANTS lite, pro, short, long

BigAndShort == {<<pro, short>>}
=============================================================================
