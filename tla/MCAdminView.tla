----------------------------- MODULE MCAdminView -----------------------------
(* Small administration pages for AdminView. *)
EXTENDS AdminView, TLC

SlotSymmetry == Permutations(Slot)
=============================================================================
