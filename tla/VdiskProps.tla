----------------------------- MODULE VdiskProps -----------------------------
(***************************************************************************)
(* What programs may rely on when they use the virtual disk.               *)
(***************************************************************************)
EXTENDS Vdisk, VdiskLines

(* The descriptors of vdisk.c, its table of directories and the kernel's   *)
(* bytes for them keep their types; setcd's index is within the table.     *)
TypeOK ==
    /\ system \in Systems
    /\ pdv \in [Pds -> Descriptor]
    /\ cdt \in [0..CdtSize-1 -> Seq(STRING) \cup {None}]
    /\ cdtptr \in 0..CdtSize
    /\ dio \in [Procs -> [Dio -> 0..ByteSize-1]]
    /\ held \in [Pds -> Procs \cup {None}]
    /\ fs \in [Paths -> Nodes \cup {None}]
    /\ goal \in [Procs -> [Dio -> Seq(STRING) \cup {None}]]
    /\ taken \in 0..ByteSize+1
    /\ want \in [Pds -> Nodes \cup {None}]
    /\ failed \subseteq Pds
    /\ last \in Outcome

(* As long as setcd has taken no more entries than a Byte can name, the    *)
(* byte that the kernel keeps for a process still stands for the directory *)
(* the process changed to last: no other process's ChgDir, and no failed   *)
(* one, has renamed its entry.                                             *)
CurDirNames ==
    taken <= ByteSize =>
      \A p \in Procs, d \in Dio :
        goal[p][d] # None => cdt[dio[p][d]] = goal[p][d]

(* A path number that the kernel holds open has a stream of the host (what *)
(* Seek, Read, Write and GetStat use without a look), and it is the one of *)
(* the file that the program meant, as long as setcd has taken no more     *)
(* entries than a Byte can name, whatever calls failed on the descriptor   *)
(* before.                                                                 *)
OpenIsMeant ==
    \A pd \in Pds : held[pd] # None =>
      /\ pdv[pd].use /\ pdv[pd].fp # None
      /\ taken <= ByteSize => pdv[pd].fp = want[pd]

(* Unless the host refused to read a directory (os9opendir failed), the    *)
(* dir flag of a descriptor in use tells the directories from the files,   *)
(* and a directory has its image in dirfp: fdinfo may search it, and Write *)
(* is refused exactly for directories.                                     *)
DirFlag ==
    \A pd \in Pds \ failed : pdv[pd].use =>
      /\ pdv[pd].dir <=> pdv[pd].fp \in DirNodes
      /\ pdv[pd].dir => pdv[pd].dirfp # {}

(* A call makes or removes only the file its caller meant, and only when   *)
(* it is done; except that Create with a refused path list may make the    *)
(* file that an earlier call on this path number had named (pd->name).     *)
OnlyMeant ==
    [][taken <= ByteSize => \A q \in Paths : fs'[q] # fs[q] =>
         \/ last'.done /\ last'.named \in {q, None}
         \/ /\ last'.call = "Create" /\ ~last'.done
            /\ \E pd \in Pds : held[pd] = None /\ pdv[pd].name = q]_vars

(* When all directories that are open are the caller's current one and     *)
(* have not changed since, and no name in it is cut, SS.FDInf answers with *)
(* a file of the number that was asked for (the file itself, unless two    *)
(* inodes agree in 24 bits), or not at all, as for a name of one letter.   *)
(* When -v is ".", the current directory is the root and the open file     *)
(* still has its name, SS.FD answers with that file.                       *)
NumberFound ==
    /\ last'.call = "FdInfo" /\ IsDir(last'.named)
    /\ \A e \in Entries(last'.named) :
         EntryName[<<e[Len(e)], fs[e]>>] \in {e[Len(e)], None}
    /\ \A pd \in Pds : pdv[pd].use /\ pdv[pd].dir =>
         pdv[pd].dirfp = {Listing(last'.named)}
    => last'.found = None \/ Low[last'.found] = Low[last'.asked]
FileFound ==
    /\ last'.call = "Fd" /\ last'.named = <<>> /\ system.drv = <<>>
    /\ \A pd \in Pds : pdv[pd].fp = last'.asked => Stat(pdv[pd].name) = last'.asked
    => last'.found = last'.asked
InfoRight == [][NumberFound /\ FileFound]_vars

(* A line that was written with I$WritLn from a buffer that holds all of   *)
(* it is read back by I$ReadLn as it was, with its length and CR, and the  *)
(* next line is left for the next call; the reader's buffer has to be      *)
(* longer than the line by one character, which the code uses for a 0.     *)
LineKept ==
    last.call = "" =>
    \A line, next \in Lines : \A extra \in 0..1, room \in 0..1 :
      LET buf == line \o <<CR>>
          w == WritLn(buf \o next \o <<CR>>, Len(buf) + extra)
          r == ReadLn(w.text \o next \o <<LF>>, Len(buf) + 1 + room)
      IN  /\ w.y = Len(buf)
          /\ r = [b |-> 0, y |-> Len(buf), buf |-> buf, rest |-> next \o <<LF>>]

(* vrbf.asm and vdisk.c state of every call, ChgDir too, that an error     *)
(* sets the carry and B. The carry stays clear when the directory of a     *)
(* ChgDir does not exist.                                                  *)
ErrorTold == last.told = last.done
=============================================================================
