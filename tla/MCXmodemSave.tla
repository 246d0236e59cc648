---------------------------- MODULE MCXmodemSave ----------------------------
(***************************************************************************)
(* The small instance of XmodemSave that TLC checks.                       *)
(***************************************************************************)
EXTENDS XmodemSaveInv

(* Blocks of two bytes and block numbers modulo 8: nothing to save, part   *)
(* of a block, whole blocks of control characters, and enough blocks to    *)
(* wrap the block number.                                                  *)
MCMemories == {<<>>, <<EOT>>, <<SOH, 6, EOT, CAN>>, [i \in 1..17 |-> (3 * i) % 8]}
MCKeys == {ACK, NAK, CAN, 7}
=============================================================================
