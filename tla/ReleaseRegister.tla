-------------------------- MODULE ReleaseRegister --------------------------
(***************************************************************************)
(* What a receiver promises about its state directory, whatever happens to *)
(* it: one accepted release that only moves to larger sequence numbers, a  *)
(* readiness flag that belongs to the accepted release, and an import      *)
(* marker that can only be set to the accepted release.                    *)
(***************************************************************************)
EXTENDS Naturals

CONSTANTS Manifests, Authentic, SeqOf, None

VARIABLES accepted, ready, imported

vars == <<accepted, ready, imported>>

Init == accepted = None /\ ~ready /\ imported = None

(* A release with a larger sequence replaces the accepted one, or the      *)
(* accepted one is checked again; it is not ready until that has finished. *)
Accept(m) ==
    /\ accepted \in Manifests => m = accepted \/ SeqOf[m] > SeqOf[accepted]
    /\ accepted' = m
    /\ ready' = FALSE
    /\ UNCHANGED imported

(* An import of the accepted release starts: any earlier marker is void.   *)
StartImport ==
    /\ accepted # None
    /\ imported # accepted
    /\ imported' = None
    /\ ready' = FALSE
    /\ UNCHANGED accepted

Complete ==
    /\ accepted # None
    /\ ready' = TRUE
    /\ imported' \in {imported, accepted}
    /\ UNCHANGED accepted

Next == (\E m \in Authentic : Accept(m)) \/ StartImport \/ Complete

Spec == Init /\ [][Next]_vars
=============================================================================
