------------------------ MODULE MCValidationSignals ------------------------
(***************************************************************************)
(* Small instance of the validation signals.                                *)
(***************************************************************************)
EXTENDS ValidationSignals

CONSTANTS p, w, a1, s1

=============================================================================
