---------------------------- MODULE MCConfigApply ----------------------------
(* Instances of ConfigApply for TLC: one text needs cleaning. *)
EXTENDS ConfigApply

CleanText(t) == IF t = "raw" THEN "cooked" ELSE t
=============================================================================
