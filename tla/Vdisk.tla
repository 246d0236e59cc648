------------------------------- MODULE Vdisk -------------------------------
(***************************************************************************)
(* The virtual disk: OS-9 calls on paths done on a directory of the host.  *)
(* src/src/vdisk.c keeps one path descriptor per OS-9 path number (pdv)    *)
(* and a table of names of current directories (cdt); the file manager     *)
(* os9/level2/vrbf.asm passes a call with interrupts masked, so that each  *)
(* call is one step. The kernel that allocates the path numbers and the    *)
(* host's files are external.                                              *)
(***************************************************************************)
EXTENDS Integers, Sequences, FiniteSets

CONSTANTS
    Procs,      \* processes of OS-9
    Systems,    \* systems: pds, the path numbers of the kernel; names, the
                \* path lists that programs pass, [abs, comps] or None; dirs,
                \* those with the kind of directory for I$ChgDir; fs, the
                \* inodes of the host by path before the first call; host,
                \* how it answers when a path is opened; drv, drvRoot, a
                \* relative path, empty for "."
    Paths,      \* paths of the host below the drive's root, as sequences
    FileNodes, DirNodes,    \* inodes of the host
    Above,      \* the inode of the directory that the drive's root is in
    Low,        \* the 24 bits of an inode that a directory entry keeps
    EntryName,  \* what is read of an entry again, by name and inode: up to 29
                \* letters, and behind 29 the inode's bytes as far as they
                \* are letters; None for a name of one letter
    CdtSize,    \* entries of cdt: 512
    ByteSize,   \* values of a Byte: 256
    ModeByte,   \* the byte in A for a ChgDir of the kinds "data", "exec"
    None        \* null pointer, no entry

Nodes == FileNodes \cup DirNodes

ASSUME SizeAssumption ==
    CdtSize \in Nat /\ ByteSize \in 1..CdtSize
ASSUME ModeAssumption == ModeByte \in [{"data", "exec"} -> 0..ByteSize-1]
ASSUME NodeAssumption ==
    /\ FileNodes \cap DirNodes = {}
    /\ None \notin Nodes \cup Paths \cup Procs
ASSUME PathAssumption == <<>> \in Paths /\ Paths \subseteq Seq(STRING)
Names == {q[Len(q)] : q \in Paths \ {<<>>}}
ASSUME EntryAssumption ==
    /\ ".." \notin Names
    /\ Above \notin Nodes \cup {None}
    /\ Low \in [Nodes \cup {Above} -> Nat]
    /\ EntryName \in [Names \X Nodes -> STRING \cup {None}]
PathList == [abs: BOOLEAN, comps: Seq(STRING)]

ASSUME SystemAssumption == \A s \in Systems :
    /\ s.names \subseteq PathList \cup {None}
    /\ s.dirs \subseteq (PathList \cup {None}) \X {"data", "exec"}
    /\ s.pds \subseteq Int /\ s.host \subseteq {"ok", "noread", "nomem"}
    /\ s.fs \in [Paths -> Nodes \cup {None}] /\ s.fs[<<>>] \in DirNodes
    /\ s.drv \in Seq(STRING)

VARIABLES
    system,     \* the element of Systems that runs
    pdv,        \* the path descriptors of the simulator
    cdt, cdtptr,    \* names of current directories, the entry to use next
    dio,        \* P$DIO of every process: bytes that stand for directories
    held,       \* which process has opened the path number, or None
    fs,         \* the host: inode by path
    goal,       \* history: the directory a process last changed to, or
                \* None when its last ChgDir failed or there was none
    taken,      \* history: how often setcd took an entry, up to ByteSize+1
    want,       \* history: the inode that the opened name meant; the one
                \* opened when the name was relative to no known directory
    failed,     \* history: descriptors on which os9opendir failed
    last        \* the last call, what it found and whether it was done

vars == <<system, pdv, cdt, cdtptr, dio, held, fs, goal, taken, want, failed, last>>
view == <<system, pdv, cdt, cdtptr, dio, held, fs, goal, taken, want, failed>>

Pds == system.pds
Dio == {"cwd", "cxd"}
Outcome == [call: {"", "Create", "Open", "MakDir", "ChgDir", "Delete", "Close",
                   "Read", "Write", "SetStat", "FdInfo", "Fd"},
            done: BOOLEAN,      \* the simulator did it
            told: BOOLEAN,      \* the caller saw no carry
            named: Seq(STRING) \cup {None},     \* what the caller meant; its
                                            \* directory for FdInfo, Fd
            asked: Nodes \cup {None},
            found: Nodes \cup {Above, None}]   \* of SS.FDInf, SS.FD

(* The result of a call that names a path; the caller sees the carry as    *)
(* set as the simulator's answer is not 0.                                 *)
Result(call, done, named) ==
    [call |-> call, done |-> done, told |-> done, named |-> named,
     asked |-> None, found |-> None]

(* The names that may be read of directory entries.                        *)
Readable == {EntryName[x] : x \in Names \X Nodes} \cup {None, ".."}

Descriptor == [name: Seq(STRING) \cup {None}, fp: Nodes \cup {None},
               dir: BOOLEAN, use: BOOLEAN,
               dirfp: SUBSET SUBSET (Readable \X Nat)]  \* {}: a null pointer

Init ==
    /\ system \in Systems
    /\ pdv = [pd \in Pds |-> [name |-> None, fp |-> None, dir |-> FALSE,
                              use |-> FALSE, dirfp |-> {}]]
    /\ cdt = [i \in 0..CdtSize-1 |-> None] /\ cdtptr = 0
    /\ dio = [p \in Procs |-> [d \in Dio |-> 0]]
    /\ held = [pd \in Pds |-> None]
    /\ fs = system.fs
    /\ goal = [p \in Procs |-> [d \in Dio |-> None]]
    /\ taken = 0
    /\ want = [pd \in Pds |-> None]
    /\ failed = {}
    /\ last = Result("", TRUE, None)

-----------------------------------------------------------------------------
(* The host. A file or directory can be made or removed when the directory *)
(* it is in exists; an inode in use by an open stream is not given again.  *)

Up(q) == SubSeq(q, 1, Len(q) - 1)
Stat(q) == IF q \in Paths THEN fs[q] ELSE None
IsDir(q) == Stat(q) \in DirNodes
CanMake(q) == q \in Paths /\ q # <<>> /\ fs[q] = None /\ IsDir(Up(q))
Parent(q) == IF q # <<>> /\ IsDir(Up(q)) THEN fs[Up(q)] ELSE Above
Entries(q) == {e \in Paths : e # <<>> /\ Up(e) = q /\ fs[e] # None}
Unused(S) == {n \in S : /\ \A q \in Paths : fs[q] # n
                        /\ \A pd \in Pds : pdv[pd].fp # n}

-----------------------------------------------------------------------------
(* Helpers of do_vdisk. *)

(* Mutant: the execution directory is never used. *)
CurDirData(p, exec) == dio[p]["cwd"]

(* setuppd of vrbf.asm: the directory to start from is the one of the      *)
(* execution directory when the EXEC bit is set in register A, whatever A  *)
(* holds in this call.                                                     *)
CurDir(p, exec) == dio[p][IF exec THEN "cxd" ELSE "cwd"]

(* checkFileName and addCurdir: the host's path, None when refused.        *)
HostName(n, cur) ==
    IF n = None \/ (~n.abs /\ cdt[cur] = None) THEN None
    ELSE IF n.abs THEN n.comps ELSE cdt[cur] \o n.comps

(* What the program means: the same from the directory it changed to.      *)
Meant(p, n, exec) ==
    LET d == goal[p][IF exec THEN "cxd" ELSE "cwd"]
    IN  IF n = None \/ (~n.abs /\ d = None) THEN None
        ELSE IF n.abs THEN n.comps ELSE d \o n.comps

(* Mutant: dir is left as it is. *)
ClosedKeepsDir(d) == [d EXCEPT !.use = FALSE, !.fp = None, !.dirfp = {},
                               !.name = None]

(* closepd *)
Closed(d) == [d EXCEPT !.dir = FALSE, !.use = FALSE, !.fp = None,
                       !.dirfp = {}, !.name = None]

(* Mutant: the index is wrapped nowhere. *)
SetcdNoWrap(name) ==
    LET ptr == cdtptr
    IN  [byte |-> ptr % ByteSize, cdt |-> [cdt EXCEPT ![ptr] = name],
         ptr |-> ptr + 1, new |-> 1]

(* Mutant: the index is returned after it was advanced. *)
SetcdNext(name) ==
    LET ptr == cdtptr % CdtSize
    IN  [byte |-> (ptr + 1) % ByteSize, cdt |-> [cdt EXCEPT ![ptr] = name],
         ptr |-> ptr + 1, new |-> 1]

(* setcd: the entry that has the name, of which there is one at most, else *)
(* the next one in turn; its index is returned as a Byte.                  *)
Setcd(name) ==
    LET ptr == cdtptr % CdtSize
    IN  IF \E i \in 0..CdtSize-1 : cdt[i] = name
          THEN [byte |-> (CHOOSE i \in 0..CdtSize-1 : cdt[i] = name) % ByteSize,
                cdt |-> cdt, ptr |-> cdtptr, new |-> 0]
          ELSE [byte |-> ptr % ByteSize, cdt |-> [cdt EXCEPT ![ptr] = name],
                ptr |-> ptr + 1, new |-> 1]

(* os9opendir: the directory is read once into dirfp, which fp then reads. *)
(* An entry is what fdinfo makes of it later: the name as checkFileName    *)
(* will read it, which refuses ".", and the number of the inode.           *)
Listing(q) ==
    {<<EntryName[<<e[Len(e)], fs[e]>>], Low[fs[e]]>> : e \in Entries(q)}
      \cup {<<None, Low[fs[q]]>>, <<"..", Low[Parent(q)]>>}
Opendir(d, host) ==
    CASE d.dirfp # {} -> d
      [] d.dirfp = {} /\ host = "ok" ->
           [d EXCEPT !.dirfp = {Listing(d.name)}, !.fp = fs[d.name]]
      [] d.dirfp = {} /\ host = "noread" -> d
      [] d.dirfp = {} /\ host = "nomem" -> [d EXCEPT !.dirfp = {Listing(d.name)}]

-----------------------------------------------------------------------------
(* The calls. p: the process; pd: the path descriptor; n: the path list;   *)
(* exec: the EXEC bit of A; host: whether the host agrees.                 *)

Free(pd) == held[pd] = None
SameDirs == UNCHANGED <<system, cdt, cdtptr, dio, goal, taken>>

(* I$Create: the host's file is opened by pd->name, which is the name of   *)
(* an earlier call when this one's was refused.                            *)
Create(p, pd, n, exec, host) ==
    LET next == HostName(n, CurDir(p, exec))
        name == IF next # None THEN next ELSE pdv[pd].name
        old == IF name = None THEN None ELSE Stat(name)
    IN  /\ Free(pd)
        /\ IF host /\ name # None /\ (old \in FileNodes \/ CanMake(name))
             THEN \E node \in IF old = None THEN Unused(FileNodes) ELSE {old} :
                    /\ fs' = [fs EXCEPT ![name] = node]
                    /\ pdv' = [pdv EXCEPT ![pd] =
                         [@ EXCEPT !.name = name, !.fp = node, !.use = next # None]]
                    /\ held' = [held EXCEPT ![pd] =
                                  IF next # None THEN p ELSE None]
                    /\ want' = [want EXCEPT ![pd] =
                      CASE next = None -> None
                        [] next # None /\ Meant(p, n, exec) = None -> node
                        [] next # None /\ Meant(p, n, exec) # None ->
                             IF Meant(p, n, exec) \in Paths
                               THEN fs'[Meant(p, n, exec)] ELSE None]
                    /\ last' = Result("Create", next # None, Meant(p, n, exec))
             ELSE /\ pdv' = [pdv EXCEPT ![pd] =
                         [@ EXCEPT !.name = name, !.fp = None, !.use = FALSE]]
                  /\ last' = Result("Create", FALSE, Meant(p, n, exec))
                  /\ UNCHANGED <<fs, held, want>>
        /\ SameDirs /\ UNCHANGED failed

(* I$Open. When stat fails the descriptor keeps what it was except name    *)
(* and fp.                                                                 *)
Open(p, pd, n, exec, host) ==
    LET name == HostName(n, CurDir(p, exec))
        d0 == [pdv[pd] EXCEPT !.fp = None, !.name = name]
        node == IF name = None THEN None ELSE Stat(name)
        d1 == CASE name = None -> [d0 EXCEPT !.use = FALSE]
                [] name # None /\ node = None -> d0
                [] node \in DirNodes -> Opendir([d0 EXCEPT !.dir = TRUE], host)
                [] node \in FileNodes ->
                     [d0 EXCEPT !.dir = FALSE,
                                !.fp = IF host = "ok" THEN node ELSE None]
        done == d1.fp # None
    IN  /\ Free(pd)
        /\ pdv' = [pdv EXCEPT ![pd] =
                     IF node = None THEN d1 ELSE [d1 EXCEPT !.use = done]]
        /\ held' = [held EXCEPT ![pd] = IF done THEN p ELSE None]
        /\ want' = [want EXCEPT ![pd] =
                      IF Meant(p, n, exec) = None \/ ~done
                        THEN d1.fp ELSE Stat(Meant(p, n, exec))]
        /\ failed' = IF node \in DirNodes /\ ~done THEN failed \cup {pd} ELSE failed
        /\ last' = Result("Open", done, Meant(p, n, exec))
        /\ SameDirs /\ UNCHANGED fs

(* I$MakDir; the path descriptor is closed at the end.                     *)
MakDir(p, pd, n, exec, host) ==
    LET name == HostName(n, CurDir(p, exec))
        done == host /\ name # None /\ CanMake(name) /\ Unused(DirNodes) # {}
    IN  /\ Free(pd)
        /\ IF done THEN \E node \in Unused(DirNodes) : fs' = [fs EXCEPT ![name] = node]
                   ELSE fs' = fs
        /\ pdv' = [pdv EXCEPT ![pd] = Closed(@)]
        /\ failed' = failed \ {pd}
        /\ last' = Result("MakDir", done, Meant(p, n, exec))
        /\ SameDirs /\ UNCHANGED <<held, want>>

(* I$ChgDir with ChgDir of vrbf.asm, which stores A in P$DIO without a     *)
(* look at B; A is still the mode when the directory was not found.        *)
ChgDir(p, n, kind) ==
    LET d == IF kind = "exec" THEN "cxd" ELSE "cwd"
        name == HostName(n, CurDir(p, kind = "exec"))
        done == name # None /\ IsDir(name)
        set == Setcd(name)
    IN  /\ \E pd \in Pds : Free(pd)
        /\ IF done
             THEN /\ dio' = [dio EXCEPT ![p][d] = set.byte]
                  /\ cdt' = set.cdt /\ cdtptr' = set.ptr
                  /\ taken' = IF taken > ByteSize THEN taken ELSE taken + set.new
                  /\ goal' = [goal EXCEPT ![p][d] = Meant(p, n, kind = "exec")]
             ELSE /\ dio' = [dio EXCEPT ![p][d] = ModeByte[kind]]
                  /\ goal' = [goal EXCEPT ![p][d] = None]
                  /\ UNCHANGED <<cdt, cdtptr, taken>>
        /\ last' = [Result("ChgDir", done, Meant(p, n, kind = "exec"))
                      EXCEPT !.told = TRUE]
        /\ UNCHANGED <<system, pdv, held, fs, want, failed>>

(* Mutant: pd->name is deleted though the path list was refused. *)
DeleteStale(p, pd, n, exec, host) ==
    LET next == HostName(n, CurDir(p, exec))
        name == IF next = None THEN pdv[pd].name ELSE next
        done == /\ host /\ name # None /\ name # <<>>
                /\ Stat(name) # None /\ Entries(name) = {}
    IN  /\ Free(pd)
        /\ fs' = IF done THEN [fs EXCEPT ![name] = None] ELSE fs
        /\ pdv' = [pdv EXCEPT ![pd].use = FALSE, ![pd].name = name]
        /\ last' = Result("Delete", next # None /\ done, Meant(p, n, exec))
        /\ SameDirs /\ UNCHANGED <<held, want, failed>>

(* I$Delete: of a file or of an empty directory, not of the one that the   *)
(* path starts from.                                                       *)
Delete(p, pd, n, exec, host) ==
    LET name == HostName(n, CurDir(p, exec))
        done == /\ host /\ name # None /\ n.comps # <<>>
                /\ Stat(name) # None /\ Entries(name) = {}
    IN  /\ Free(pd)
        /\ fs' = IF done THEN [fs EXCEPT ![name] = None] ELSE fs
        /\ pdv' = [pdv EXCEPT ![pd] =
             [@ EXCEPT !.use = FALSE,
                       !.name = IF name = None THEN pdv[pd].name ELSE name]]
        /\ last' = Result("Delete", done, Meant(p, n, exec))
        /\ SameDirs /\ UNCHANGED <<held, want, failed>>

Close(pd) ==
    /\ ~Free(pd)
    /\ pdv' = [pdv EXCEPT ![pd] = Closed(@)]
    /\ held' = [held EXCEPT ![pd] = None]
    /\ want' = [want EXCEPT ![pd] = None]
    /\ failed' = failed \ {pd}
    /\ last' = Result("Close", TRUE, None)
    /\ SameDirs /\ UNCHANGED fs

(* I$Seek, I$Read and I$ReadLn on the stream; I$Write and I$WritLn, which  *)
(* a directory refuses; I$SetStat, which is always refused.                *)
Use(pd, op) ==
    /\ ~Free(pd)
    /\ last' = Result(op, op = "Read" \/ (op = "Write" /\ ~pdv[pd].dir), None)
    /\ UNCHANGED <<pdv, held, fs, want, failed>> /\ SameDirs

(* SS.FD: filedescriptor takes pd->name, which is a path of the host by    *)
(* then and begins with drvRoot, for a path list and puts the current      *)
(* directory before it, which begins with drvRoot too.                     *)
Fd(p, pd, exec) ==
    LET cur == cdt[CurDir(p, exec)]
        found == IF cur = None THEN None
                 ELSE Stat(cur \o system.drv \o pdv[pd].name)
    IN  /\ held[pd] = p
        /\ last' = [Result("Fd", found # None, cur)
                      EXCEPT !.asked = pdv[pd].fp, !.found = found]
        /\ UNCHANGED <<pdv, held, fs, want, failed>> /\ SameDirs

(* The file of a name in a directory, or of its parent.                    *)
Walk(q, name) ==
    IF name # ".." THEN Stat(q \o <<name>>)
    ELSE IF IsDir(q) THEN Parent(q) ELSE None

(* Mutant: the name is taken from another entry than the inode's. *)
FdInfoNext(p, pd, node, exec) ==
    LET cur == cdt[CurDir(p, exec)]
    IN  /\ held[pd] = p
        /\ \E q \in Pds : \E e \in UNION pdv[q].dirfp :
             LET found == IF None \in {cur, e[1]} THEN None ELSE Walk(cur, e[1])
             IN  last' = [Result("FdInfo", found # None, cur)
                           EXCEPT !.asked = node, !.found = found]
        /\ UNCHANGED <<pdv, held, fs, want, failed>> /\ SameDirs

(* SS.FDInf, fdinfo: the first entry with this number in the first         *)
(* directory that anybody has open and that has one; readdir gave the      *)
(* order of the entries. Its name is then looked for in the caller's       *)
(* current directory. The program asks for the number of an inode.         *)
FdInfo(p, pd, node, exec) ==
    LET cur == cdt[CurDir(p, exec)]
        Of(q) == {e \in UNION pdv[q].dirfp : e[2] = Low[node]}
        listed == {q \in Pds : pdv[q].use /\ pdv[q].dir /\ Of(q) # {}}
        entries == UNION {Of(q) : q \in {r \in listed : \A s \in listed : r <= s}}
    IN  /\ held[pd] = p
        /\ \E e \in IF listed = {} THEN {<<None, Low[node]>>} ELSE entries :
             LET found == IF None \in {cur, e[1]} THEN None ELSE Walk(cur, e[1])
             IN  last' = [Result("FdInfo", found # None, cur)
                           EXCEPT !.asked = node, !.found = found]
        /\ UNCHANGED <<pdv, held, fs, want, failed>> /\ SameDirs

Next ==
    \/ \E p \in Procs, pd \in Pds, n \in system.names, exec \in BOOLEAN, host \in BOOLEAN :
         \/ Create(p, pd, n, exec, host)
         \/ MakDir(p, pd, n, exec, host)
         \/ Delete(p, pd, n, exec, host)
    \/ \E p \in Procs, pd \in Pds, n \in system.names, exec \in BOOLEAN,
          host \in system.host : Open(p, pd, n, exec, host)
    \/ \E p \in Procs, d \in system.dirs : ChgDir(p, d[1], d[2])
    \/ \E pd \in Pds, op \in {"Read", "Write", "SetStat"} : Use(pd, op)
    \/ \E pd \in Pds : Close(pd)
    \/ \E p \in Procs, pd \in Pds, node \in Nodes, exec \in BOOLEAN :
         FdInfo(p, pd, node, exec)
    \/ \E p \in Procs, pd \in Pds, exec \in BOOLEAN : Fd(p, pd, exec)

Spec == Init /\ [][Next]_vars
=============================================================================
