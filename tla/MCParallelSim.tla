--------------------------- MODULE MCParallelSim ---------------------------
(* The instance of ParallelSim that TLC checks: three programs that halt   *)
(* at the end of a batch, throw and are cut off; halt at once, have no     *)
(* step to execute and do not fit; or the same with the checkpoints of the *)
(* others.                                                                 *)
EXTENDS ParallelSim

Program(max, ck, fits, len, how) ==
  [max_steps |-> max, checkpoint |-> ck, fits |-> fits, length |-> len, ends |-> how]

ThreeLists ==
  {<<Program(3, TRUE, TRUE, 2, "halt"), Program(3, FALSE, TRUE, 2, "throw"),
     Program(2, TRUE, TRUE, 2, "halt")>>,
   <<Program(1, FALSE, TRUE, 0, "halt"), Program(0, TRUE, TRUE, 0, "halt"),
     Program(0, FALSE, FALSE, 0, "halt")>>,
   <<Program(3, TRUE, TRUE, 2, "throw"), Program(2, FALSE, TRUE, 2, "halt"),
     Program(1, TRUE, FALSE, 0, "halt")>>}
============================================================================
