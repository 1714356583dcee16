-------------------------------- MODULE Vfs --------------------------------
(***************************************************************************)
(* Files: the device registry (src/kernel/dev.c), the virtual file system  *)
(* (src/kernel/fs/vfs.c), the root file system (src/kernel/fs/rootfs.c)    *)
(* and the FAT adapter (src/kernel/fs/fat.c), together with the two        *)
(* drivers the device nodes lead to, Tty and Keyboard.                     *)
(*                                                                         *)
(* System calls run with interrupts off, so each is one action; only       *)
(* keyboard interrupts come between them.  The busy flag of a device and   *)
(* the wait for it are in Console.                                         *)
(*                                                                         *)
(* A path is a sequence of tokens, "/" or a name, so that one path is a    *)
(* prefix of another exactly when the strings are.  An inode is kalloc'ed  *)
(* by every open; for a file on the FAT volume it owns a FIL.  What f_open *)
(* decides is a choice here (module Fat has FatFs itself).                 *)
(*                                                                         *)
(* `fault' tells how the kernel left defined behaviour: "panic" is a       *)
(* failed assert, "wild" a call through a null super block, "badfd" an     *)
(* inode pointer taken from outside fd[].  Nothing happens after it.       *)
(***************************************************************************)
EXTENDS Tty, Keyboard, FiniteSets, SequencesExt, FiniteSetsExt

CONSTANTS Task,      \* tasks that open files
          FD_NR,     \* descriptors of a task: 31
          DEV_NR,    \* entries of the registry, the unused 0 included: 32
          KDirs,     \* paths kernel code makes directories for
          KNodes,    \* arguments of its mknod calls: path, subtype, number
          UPaths,    \* paths tasks open
          Modes,     \* sets of O_ flags tasks open with
          Fil,       \* addresses of FILs
          Loads      \* bounds: how many keys, characters, opens, nodes and
                     \* exits a behaviour has; each starts with one of these

ASSUME VfsAssumption ==
    /\ FD_NR \in Nat \ {0} /\ DEV_NR \in Nat \ {0}
    /\ \A p \in KDirs \cup UPaths \cup {k[1] : k \in KNodes} : p # <<>> /\ p[1] = "/"
    /\ \A k \in KNodes : k[2] \in {"keyboard", "tty", "disk"} /\ k[3] \in Nat
    /\ Loads \subseteq [keys : Nat, chars : Nat, opens : Nat, nodes : Nat, exits : Nat]

VARIABLES device_list,  \* id -> subtype of the device, "null" when free
          nodes,        \* the list of paths: [path, type, subtype, nr, dev]
          mount_sb,     \* super block of /home/: "none" yet, "fat", or "null"
          home,         \* paths that exist on the FAT volume
          fils,         \* FILs that are allocated
          fd,           \* task -> descriptor -> inode
          leaked,       \* history: FILs whose task has ended
          boot,         \* what init() still has to do
          fault,
          left          \* bounds: what is left of the load

vfsVars == <<device_list, nodes, mount_sb, home, fils, fd, leaked, boot, fault,
             left>>
vars == <<ttyVars, kbdVars, vfsVars>>

Fd == 0 .. FD_NR - 1
Subtype == {"keyboard", "tty", "disk"}
NoInode == [op |-> "none"]

Running == boot = <<>> /\ fault = "none"

Spend(what) == left[what] > 0 /\ left' = [left EXCEPT ![what] = @ - 1]

-----------------------------------------------------------------------------
(* dev.c: a device takes the lowest free entry from 1 on; the nr-th device *)
(* of a subtype is found by counting from the start, 0 stands for NULL.    *)
\* Mutant of FreeIds: entry 0 is given away like any other.
FreeIdsFromZero == {i \in 0 .. DEV_NR - 1 : device_list[i] = "null"}
FreeIds == {i \in 1 .. DEV_NR - 1 : device_list[i] = "null"}

device_install(s) ==
    IF FreeIds = {} THEN fault' = "panic" /\ UNCHANGED device_list
    ELSE device_list' = [device_list EXCEPT ![Min(FreeIds)] = s] /\ UNCHANGED fault

device_find(s, nr) ==
    LET same == {i \in 0 .. DEV_NR - 1 : device_list[i] = s}
        nth == {i \in same : Cardinality({j \in same : j < i}) = nr}
    IN  IF nth = {} THEN 0 ELSE Min(nth)

(* rootfs.c, lists of paths as values. *)
Node(p, t, s, nr) == [path |-> p, type |-> t, subtype |-> s, nr |-> nr, dev |-> 0]

(* The list begins with an entry of empty path without an inode: its type  *)
(* is read at address 4, where ap_init has copied the instruction at       *)
(* head.S:91, byte 0xE6, which is not ROOTFS_MOUNT.                        *)
RootEntry == Node(<<>>, "0xE6", "null", 0)

mkdir(list, p) ==
    IF Last(p) # "/" \/ \E i \in DOMAIN list : list[i].path = p
    THEN list ELSE Append(list, Node(p, "dir", "null", 0))

mknod(list, p, s, nr) ==
    IF Last(p) = "/" THEN list ELSE Append(list, Node(p, "dev", s, nr))

\* Mutant of find_inode_by_path: the search goes on after a hit.
find_last_inode(list, p) ==
    LET hits == {i \in DOMAIN list : \/ list[i].path = p
                                     \/ /\ IsPrefix(list[i].path, p)
                                        /\ list[i].type = "mount"}
    IN  IF hits \subseteq {1} THEN 0 ELSE Max(hits)

find_inode_by_path(list, p) ==
    LET hits == {i \in DOMAIN list : \/ list[i].path = p
                                     \/ /\ IsPrefix(list[i].path, p)
                                        /\ list[i].type = "mount"}
    IN  IF hits \subseteq {1} THEN 0 ELSE Min(hits)

-----------------------------------------------------------------------------
(* Start-up in the order of init(): device_init and tty_init; vfs_init,    *)
(* where f_mount may fail and the mount is made all the same;              *)
(* keyboard_init.                                                          *)
Home == <<"/", "home", "/">>

VfsInit ==
    /\ boot # <<>> /\ Head(boot) = "vfs" /\ boot' = Tail(boot)
    /\ nodes' = Append(mknod(mkdir(mkdir(<<RootEntry>>, <<"/">>), <<"/", "dev", "/">>),
                             <<"/", "dev", "/", "stdout">>, "tty", 0),
                       Node(Home, "mount", "null", 0))
    /\ mount_sb' \in {"fat", "null"}
    /\ UNCHANGED <<ttyVars, kbdVars, device_list, home, fils, fd, leaked, fault, left>>

KeyboardBoot ==
    /\ boot # <<>> /\ Head(boot) = "keyboard" /\ boot' = Tail(boot)
    /\ device_install("keyboard")
    /\ nodes' = mknod(nodes, <<"/", "dev", "/", "input">>, "keyboard", 0)
    /\ UNCHANGED <<ttyVars, kbdVars, mount_sb, home, fils, fd, leaked, left>>

(* What kernel code may still do later through dev.h and vfs.h. *)
DeviceInstall(s) ==
    /\ Running /\ Spend("nodes") /\ device_install(s)
    /\ UNCHANGED <<ttyVars, kbdVars, nodes, mount_sb, home, fils, fd, leaked, boot>>

sys_mkdir(p) ==
    /\ Running /\ Spend("nodes")
    /\ nodes' = mkdir(nodes, p)
    /\ UNCHANGED <<ttyVars, kbdVars, device_list, mount_sb, home, fils, fd, leaked, boot, fault>>

sys_mknod(p, s, nr) ==
    /\ Running /\ Spend("nodes")
    /\ nodes' = mknod(nodes, p, s, nr)
    /\ UNCHANGED <<ttyVars, kbdVars, device_list, mount_sb, home, fils, fd, leaked, boot, fault>>

-----------------------------------------------------------------------------
\* Mutant of FreeFds: entries in use are not skipped.
FreeFdsAny(t) == Fd
FreeFds(t) == {n \in Fd : fd[t][n] = NoInode}

SetFd(t, inode) == fd' = [fd EXCEPT ![t][Min(FreeFds(t))] = inode]

TypeAt(i) == IF i = 0 THEN "none" ELSE nodes[i].type

(* A path that is looked up in the root file system itself: no inode, or   *)
(* one that refers to the node found.                                      *)
OpenNode(t, p) ==
    LET i == find_inode_by_path(nodes, p)
    IN  /\ Running /\ FreeFds(t) # {} /\ Spend("opens")
        /\ TypeAt(i) # "mount"
        /\ IF i = 0 THEN UNCHANGED fd ELSE SetFd(t, [op |-> "rootfs", node |-> i])
        /\ UNCHANGED <<ttyVars, kbdVars, device_list, nodes, mount_sb, home, fils, leaked, boot, fault>>

(* The FA_ flags fat_open makes of the O_ flags (ff.h: FA_OPEN_APPEND      *)
(* includes FA_OPEN_ALWAYS), and whether f_open may create the file.       *)
fat_mode(m) ==
    (IF "O_RDONLY" \in m THEN {"FA_READ"} ELSE {})
    \cup (IF "O_WRONLY" \in m THEN {"FA_WRITE"} ELSE {})
    \cup (IF "O_CREAT" \in m \/ "O_APPEND" \in m THEN {"FA_OPEN_ALWAYS"} ELSE {})
    \cup (IF "O_TRUNC" \in m THEN {"FA_CREATE_ALWAYS"} ELSE {})

Creates(m) == fat_mode(m) \cap {"FA_OPEN_ALWAYS", "FA_CREATE_ALWAYS"} # {}

(* What rootfs_open hands to the mounted file system: the path from the    *)
(* last separator of the prefix on.                                        *)
Inside(p, i) == SubSeq(p, Len(nodes[i].path), Len(p))

\* Mutant of OpenFat: a failed f_open does not give the FIL back.
OpenFatNoFree(t, p, m, f, ok) ==
    LET i == find_inode_by_path(nodes, p)
    IN  /\ Running /\ FreeFds(t) # {} /\ Spend("opens")
        /\ TypeAt(i) = "mount" /\ mount_sb = "fat"
        /\ f \notin fils
        /\ ok => Inside(p, i) \in home \/ Creates(m)
        /\ fils' = fils \cup {f}
        /\ home' = IF ok THEN home \cup {Inside(p, i)} ELSE home
        /\ IF ok THEN SetFd(t, [op |-> "fat", fil |-> f, mode |-> fat_mode(m)])
                 ELSE UNCHANGED fd
        /\ UNCHANGED <<ttyVars, kbdVars, device_list, nodes, mount_sb, leaked, boot, fault>>

(* fat_open: the FIL is allocated first and given back when f_open fails,  *)
(* which it may for any reason.                                            *)
OpenFat(t, p, m, f, ok) ==
    LET i == find_inode_by_path(nodes, p)
    IN  /\ Running /\ FreeFds(t) # {} /\ Spend("opens")
        /\ TypeAt(i) = "mount" /\ mount_sb = "fat"
        /\ f \notin fils
        /\ ok => Inside(p, i) \in home \/ Creates(m)
        /\ fils' = IF ok THEN fils \cup {f} ELSE fils
        /\ home' = IF ok THEN home \cup {Inside(p, i)} ELSE home
        /\ IF ok THEN SetFd(t, [op |-> "fat", fil |-> f, mode |-> fat_mode(m)])
                 ELSE UNCHANGED fd
        /\ UNCHANGED <<ttyVars, kbdVars, device_list, nodes, mount_sb, leaked, boot, fault>>

(* The mount failed, and s_op is read through a null super block. *)
OpenNull(t, p) ==
    LET i == find_inode_by_path(nodes, p)
    IN  /\ Running /\ FreeFds(t) # {} /\ Spend("opens")
        /\ TypeAt(i) = "mount" /\ mount_sb = "null"
        /\ fault' = "wild"
        /\ UNCHANGED <<ttyVars, kbdVars, device_list, nodes, mount_sb, home, fils, fd, leaked, boot>>

-----------------------------------------------------------------------------
(* A descriptor that refers to a device node.  The device is looked up at  *)
(* the first use and kept in the node; one that does not exist fails the   *)
(* assert of device_get.                                                   *)
OnDevice(t, n) ==
    /\ Running /\ fd[t][n].op = "rootfs"
    /\ nodes[fd[t][n].node].type = "dev"

DevOf(t, n) ==
    LET e == nodes[fd[t][n].node]
    IN  IF e.dev # 0 THEN e.dev ELSE device_find(e.subtype, e.nr)

Bind(t, n) ==
    /\ IF DevOf(t, n) = 0
       THEN fault' = "panic" /\ UNCHANGED nodes
       ELSE nodes' = [nodes EXCEPT ![fd[t][n].node].dev = DevOf(t, n)] /\ UNCHANGED fault
    /\ UNCHANGED <<device_list, mount_sb, home, fils, fd, leaked, boot>>

Driver(t, n) == IF DevOf(t, n) = 0 THEN "null" ELSE device_list[DevOf(t, n)]

(* sys_read: the keyboard's read gives a character or nothing; the screen  *)
(* and the disk have none and answer -1.                                   *)
ReadDevice(t, n) ==
    /\ OnDevice(t, n) /\ Bind(t, n)
    /\ IF Driver(t, n) = "keyboard" THEN KeyboardRead ELSE UNCHANGED kbdVars
    /\ UNCHANGED <<ttyVars, left>>

(* sys_write of the string made of c alone: only the screen can write.     *)
WriteDevice(t, n, c) ==
    /\ Spend("chars")
    /\ OnDevice(t, n) /\ Bind(t, n)
    /\ IF Driver(t, n) = "tty" THEN TtyPrint(c) ELSE UNCHANGED ttyVars
    /\ UNCHANGED kbdVars

(* sys_read and sys_write of a number outside fd[], which nobody checks.   *)
(* Calls on an empty descriptor, a directory or a FAT file change nothing  *)
(* modelled here (fat_i_op has no write, f_read is in Fat).                *)
BadFd(t) ==
    /\ Running /\ Spend("exits") /\ fault' = "badfd"
    /\ UNCHANGED <<ttyVars, kbdVars, device_list, nodes, mount_sb, home, fils, fd, leaked, boot>>

(* A task ends and its PCB is used again, cleared: nothing is closed.      *)
TaskExit(t) ==
    /\ Running /\ Spend("exits")
    /\ leaked' = leaked \cup {fd[t][n].fil : n \in {k \in Fd : fd[t][k].op = "fat"}}
    /\ fd' = [fd EXCEPT ![t] = [n \in Fd |-> NoInode]]
    /\ UNCHANGED <<ttyVars, kbdVars, device_list, nodes, mount_sb, home, fils, boot, fault>>

KeyboardStep ==
    /\ Running
    /\ \/ (\E k \in Key : Press(k) \/ Release(k)) /\ Spend("keys")
       \/ OtherKey /\ Spend("keys")
       \/ KeyboardHandler /\ UNCHANGED left
    /\ UNCHANGED <<ttyVars, device_list, nodes, mount_sb, home, fils, fd, leaked, boot, fault>>

Init ==
    /\ TtyInit /\ KeyboardInit
    /\ device_list = [i \in 0 .. DEV_NR - 1 |-> IF i = 1 THEN "tty" ELSE "null"]
    /\ nodes = <<>> /\ mount_sb = "none" /\ home = {<<"/", "hello">>}
    /\ fils = {} /\ leaked = {} /\ fd = [t \in Task |-> [n \in Fd |-> NoInode]]
    /\ boot = <<"vfs", "keyboard">> /\ fault = "none"
    /\ left \in Loads

Next ==
    \/ VfsInit \/ KeyboardBoot \/ KeyboardStep
    \/ \E s \in Subtype : DeviceInstall(s)
    \/ \E p \in KDirs : sys_mkdir(p)
    \/ \E k \in KNodes : sys_mknod(k[1], k[2], k[3])
    \/ \E t \in Task :
        \/ \E p \in UPaths : OpenNode(t, p) \/ OpenNull(t, p)
                             \/ \E m \in Modes, f \in Fil, ok \in BOOLEAN : OpenFat(t, p, m, f, ok)
        \/ \E n \in Fd : ReadDevice(t, n) \/ \E c \in Char : WriteDevice(t, n, c)
        \/ BadFd(t) \/ TaskExit(t)

Spec == Init /\ [][Next]_vars

-----------------------------------------------------------------------------
(* The values of every variable. *)
TypeOK ==
    /\ TtyTypeOK /\ KeyboardTypeOK
    /\ device_list \in [0 .. DEV_NR - 1 -> Subtype \cup {"null"}]
    /\ \A i \in DOMAIN nodes : nodes[i].dev \in 0 .. DEV_NR - 1
    /\ fils \subseteq Fil /\ leaked \subseteq fils
    /\ \A t \in Task, n \in Fd : fd[t][n].op = "rootfs" => fd[t][n].node \in 2 .. Len(nodes)
    /\ fault \in {"none", "panic", "wild", "badfd"}
    /\ \A x \in DOMAIN left : left[x] \in Nat

(* The device number kept in a node (rootfs.c:105,121) is never stale: it  *)
(* is what a look-up today gives, however many devices came later, and 0,  *)
(* which stands for `not yet known', is no device.                         *)
BoundIsCurrent ==
    /\ device_list[0] = "null"
    /\ \A i \in DOMAIN nodes :
        nodes[i].dev # 0 => nodes[i].dev = device_find(nodes[i].subtype, nodes[i].nr)

(* A descriptor denotes one file until its task ends (vfs.c:82-102): no    *)
(* open, by whichever task, puts another inode in its place.               *)
FdStable ==
    [][\A t \in Task, n \in Fd :
        fd[t][n] # NoInode => \/ fd'[t][n] = fd[t][n]
                              \/ left'.exits < left.exits /\ \A k \in Fd : fd'[t][k] = NoInode]_vars

(* A path, once it can be opened, leads to the same node for ever,         *)
(* whatever is made later under the same name or above it.                 *)
PathStable ==
    [][\A p \in UPaths : find_inode_by_path(nodes, p) # 0 =>
        find_inode_by_path(nodes', p) = find_inode_by_path(nodes, p)]_vars

(* Every FIL belongs to exactly one descriptor or to a task that has       *)
(* ended: a failed open leaves none behind (fat.c:43-47) and two opens     *)
(* never share one.                                                        *)
FilsOwned ==
    \A f \in fils :
        Cardinality({x \in Task \X Fd : fd[x[1]][x[2]].op = "fat" /\ fd[x[1]][x[2]].fil = f})
        = IF f \in leaked THEN 0 ELSE 1

=============================================================================
