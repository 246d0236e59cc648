------------------------------- MODULE MCDisk -------------------------------
(***************************************************************************)
(* Three boards: v09c with its map, v09 with a ROM that reaches below the  *)
(* device page, and v09 with a ROM above it. imgA ends in the middle of *)
(* a sector, imgB is empty.                                                   *)
(***************************************************************************)
EXTENDS DiskProps, TLC

CONSTANTS x1, x2, y1, y2, imgA, imgB

Request(ops, drives, lsns, bufs) == [op : ops, drive : drives, lsn : lsns, buf : bufs]
MCRequests ==
    Request({"read", "write"}, {0}, {<<0, 0, 1>>, <<0, 1, 0>>}, {<<0, 2>>, <<1, 0>>})
    \cup Request({"read", "write"}, {1, 2}, {<<0, 0, 0>>}, {<<1, 2>>})

Memory(size) == [p \in 0..size-1 |-> IF p % 3 = 0 THEN y1 ELSE y2]
Machine(mapped, rom, size) ==
    [mmu |-> mapped, rom |-> rom, ram |-> Memory(size),
     dat |-> 0 :> (0 :> 1 @@ 1 :> 3) @@ 1 :> (0 :> 2 @@ 1 :> 0),
     files |-> imgA :> <<x1, x2, x1>> @@ imgB :> <<>>,
     disk |-> 0 :> imgA @@ 1 :> NoDisk,
     requests |-> MCRequests]
MCBoards == {Machine(TRUE, 16, 16), Machine(FALSE, 6, 8), Machine(FALSE, 9, 8)}
MCStores == {<<1, y1>>, <<5, x1>>, <<6, x1>>}
MCMaps == {<<0, 0, 2>>, <<1, 1, 3>>}
=============================================================================
