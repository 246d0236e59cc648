---------------------------- MODULE MCXmodemLoad ----------------------------
(***************************************************************************)
(* The small instances of XmodemLoad that TLC checks.                      *)
(***************************************************************************)
EXTENDS XmodemLoadInv

(* Blocks of two bytes and block numbers modulo 8, so that a nine-block    *)
(* file wraps the block number. The files: none at all, control characters *)
(* as data with a short last block, and the long one.                      *)
MCFiles == {<<>>, <<EOT, 7, SOH>>, [i \in 1..17 |-> (3 * i) % 8]}
MCShortFiles == {<<7>>, <<1, 2, 3>>}
MCKeys == {7, EOT}
=============================================================================
