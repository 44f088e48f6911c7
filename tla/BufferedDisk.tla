---------------------------- MODULE BufferedDisk ----------------------------
(***************************************************************************)
(* What the block cache promises: blocks that are read as they were last   *)
(* written, and that reach the device one by one at some later time.  When *)
(* the power goes, each block is back at what reached the device last.     *)
(***************************************************************************)
CONSTANTS Block, Value

VARIABLES
  blocks,    \* what the blocks hold, for those who read them
  stable,    \* what the device holds
  got,       \* the value that was read last
  epoch      \* changes with every write and every loss of power, so that
             \* nothing else may pass for one

vars == <<blocks, stable, got, epoch>>

Init ==
  /\ stable \in [Block -> Value] /\ blocks = stable
  /\ got \in Value /\ epoch = FALSE

Write(b, v) ==
  /\ epoch' = ~epoch
  /\ blocks' = [blocks EXCEPT ![b] = v]
  /\ UNCHANGED <<stable, got>>

Read(b) ==
  /\ got' = blocks[b]
  /\ UNCHANGED <<blocks, stable, epoch>>

Flush(b) ==
  /\ stable' = [stable EXCEPT ![b] = blocks[b]]
  /\ UNCHANGED <<blocks, got, epoch>>

PowerLoss ==
  /\ epoch' = ~epoch
  /\ blocks' = stable
  /\ UNCHANGED <<stable, got>>

Next ==
  \/ \E b \in Block, v \in Value : Write(b, v)
  \/ \E b \in Block : Read(b) \/ Flush(b)
  \/ PowerLoss

Spec == Init /\ [][Next]_vars
=============================================================================
