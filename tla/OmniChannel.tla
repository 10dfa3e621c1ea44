---------------------------- MODULE OmniChannel ----------------------------
(***************************************************************************)
(* What the two halves of the omni-channel inbox (OmniChannel.service.ts)  *)
(* have in common: the mails of customers, which OmniInbound stores and    *)
(* OmniReplies answers.  Their variables and actions have names of their   *)
(* own, so that one module can reason about both.                          *)
(***************************************************************************)
EXTENDS Naturals, FiniteSets

CONSTANTS
    Mails,       \* what customers send
    MaxMishaps,  \* bound: what goes wrong, see the modules
    NONE

ASSUME MaxMishapsAssumption == MaxMishaps \in Nat
=============================================================================
