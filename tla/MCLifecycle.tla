---------------------------- MODULE MCLifecycle ----------------------------
(***************************************************************************)
(* Lifecycle for TLC: where exceptions are let to leave the try block.     *)
(***************************************************************************)
EXTENDS Lifecycle

\* Every statement of the try block may throw.
AnyStatement == TryBlock

=============================================================================
