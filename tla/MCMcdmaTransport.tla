-------------------------- MODULE MCMcdmaTransport --------------------------
(* An instance of McdmaTransport: sizes at which a management command's     *)
(* data, a copy of two ranges, fused commands and lost requests overlap.    *)
EXTENDS McdmaTransport
CONSTANTS t1, t2
=============================================================================
