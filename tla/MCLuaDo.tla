------------------------------ MODULE MCLuaDo -------------------------------
(***************************************************************************)
(* Instances of LuaDo for TLC: a main thread and one or two coroutines,    *)
(* few frames and host activations, and a C-call limit small enough to be  *)
(* reached.                                                                *)
(***************************************************************************)
EXTENDS LuaDo, TLC

CONSTANTS m, a, b

=============================================================================
