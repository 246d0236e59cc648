------------------------------ MODULE MCVdisk ------------------------------
(***************************************************************************)
(* Small systems for the virtual disk. In the first one path is open at a  *)
(* time; the data directory of a process changes among the root, a and     *)
(* long, more than a Byte can name here, and its execution directory to a. *)
(* In the second two paths are open, and files and directories xy come and *)
(* go in two directories. The name a has one letter, long is cut to xy,    *)
(* and the files agree in 24 bits.                                         *)
(***************************************************************************)
EXTENDS VdiskProps, TLC

CONSTANTS p1, f1, f2, root, da, db, above

Rel(c) == [abs |-> FALSE, comps |-> c]
Abs(c) == [abs |-> TRUE, comps |-> c]
MCPaths == {<<>>, <<"a">>, <<"long">>, <<"xy">>, <<"a", "xy">>}
MCLow == above :> 0 @@ root :> 1 @@ da :> 2 @@ db :> 3 @@ f1 :> 4 @@ f2 :> 4
MCEntryName == [e \in Names \X Nodes |->
    CASE e[1] = "a" -> None [] e[1] = "long" -> "xy" [] e[1] = "xy" -> "xy"]
Fs(a, b) == <<>> :> root @@ <<"a">> :> a @@ <<"long">> :> b @@ <<"xy">> :> None
              @@ <<"a", "xy">> :> None
MCSystems ==
    {[pds |-> {1}, names |-> {None, Abs(<<"a">>), Rel(<<"xy">>)},
      dirs |-> {Abs(<<>>), Abs(<<"a">>), Abs(<<"long">>)} \X {"data"}
                 \cup {<<Abs(<<"a">>), "exec">>},
      fs |-> Fs(da, db), host |-> {"ok", "nomem"}, drv |-> <<>>],
     [pds |-> {1, 2}, names |-> {Rel(<<"xy">>)},
      dirs |-> {Abs(<<>>), Abs(<<"a">>)} \X {"data"},
      fs |-> Fs(da, None), host |-> {"ok", "noread"}, drv |-> <<"a">>]}
MCModes == [data |-> 1, exec |-> 0]
MCSymmetry == Permutations({f1, f2})
=============================================================================
