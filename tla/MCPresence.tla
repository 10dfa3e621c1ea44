---------------------------- MODULE MCPresence ----------------------------
(***************************************************************************)
(* Two tabs of one account and one of another, with one connection more    *)
(* than tabs, so a tab can be back while its old connection lingers.       *)
(***************************************************************************)
EXTENDS Presence, TLC

CONSTANTS ann, bob, a1, a2, b1

MCUserOf == (a1 :> ann) @@ (a2 :> ann) @@ (b1 :> bob)
===========================================================================
