----------------------------- MODULE MCKernelServer -----------------------------
(***************************************************************************)
(* One evaluation of two operations and one export of one, a cancel of the  *)
(* evaluation, an immediate request and a frame that throws.               *)
(***************************************************************************)
EXTENDS KernelServer, TLC

CONSTANTS w1, e1, c1, h1, f1

MCNOps == (w1 :> 2) @@ (e1 :> 1)
MCTarget == (c1 :> w1)
================================================================================
