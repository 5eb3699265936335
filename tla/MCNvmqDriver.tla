---------------------------- MODULE MCNvmqDriver ----------------------------
(* Instances of NvmqDriver: the queue each request belongs to.              *)
EXTENDS NvmqDriver, TLC
CONSTANTS r1, r2
Shared == r1 :> 1 @@ r2 :> 1
=============================================================================
