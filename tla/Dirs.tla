-------------------------------- MODULE Dirs ---------------------------------
(***************************************************************************)
(* The directory tree: the path walk of fs.c (namex) and the system calls  *)
(* of sysfile.c that make, remove and enter directories, by processes that *)
(* take turns at every ilock().                                            *)
(*                                                                         *)
(* A walk locks one directory at a time and holds only a reference between *)
(* two hops, so a step is one hop, or everything a call does with the last *)
(* directory of its path locked.  References are those of working          *)
(* directories and walks; an inode without references and links is freed   *)
(* by the iput() that ends its last use (module Inode takes iput apart).   *)
(***************************************************************************)
EXTENDS Integers, Sequences, FiniteSets

CONSTANTS DirProcs,
          DirNames,     \* entries other than "." and ".."
          NDirInodes,   \* inums are 1 .. NDirInodes, ROOTINO is 1
          Paths         \* bound: the paths that calls use, without leading "/"

Elements == DirNames \cup {".", ".."}

ASSUME DirsAssumption == /\ NDirInodes \in Nat \ {0} /\ Paths \subseteq Seq(Elements) \ {<<>>}
                         /\ DirNames \cap {".", ".."} = {}

VARIABLES type,         \* dinode type: "free", "dir" or "file"
          nlink,
          entry,        \* entry[d][n]: inum, 0 when free
          dotdot,       \* the inum in entry ".."
          cwd,
          walk,         \* the call a process is in
          late,         \* history: something was put into a removed directory
          dirpanic      \* history: a call found an inode without a type

dirVars == <<type, nlink, entry, dotdot, cwd, walk, late, dirpanic>>

Inum == 1 .. NDirInodes
ROOTINO == 1
NoEntries == [n \in DirNames |-> 0]
NoWalk == [op |-> "none", at |-> 0, path |-> <<>>, gone |-> FALSE]

DirInit == /\ type = [i \in Inum |-> IF i = ROOTINO THEN "dir" ELSE "free"]
           /\ nlink = [i \in Inum |-> IF i = ROOTINO THEN 1 ELSE 0]
           /\ entry = [i \in Inum |-> NoEntries]
           /\ dotdot = [i \in Inum |-> IF i = ROOTINO THEN ROOTINO ELSE 0]
           /\ cwd = [p \in DirProcs |-> ROOTINO]
           /\ walk = [p \in DirProcs |-> NoWalk]
           /\ late = FALSE /\ dirpanic = FALSE

(* dirlookup()                                                             *)
dirlookup(d, n) == CASE n = "." -> d [] n = ".." -> dotdot[d] [] OTHER -> entry[d][n]

(* The inodes that processes refer to, given working directories and walks.*)
Referenced(c, w) == {c[p] : p \in DirProcs} \cup {w[p].at : p \in DirProcs}

(* iput(): an inode without links is freed with its last reference.        *)
Unused_linked(i, refs, nl) == nl[i] = 0
Unused(i, refs, nl) == nl[i] = 0 /\ i \notin refs

(* The end of every step: types, links and entries as the call left them,  *)
(* after the iput() of what it no longer refers to.                        *)
Put(ty, nl, en, dd) ==
    LET dead == {i \in Inum : ty[i] # "free" /\ Unused(i, Referenced(cwd', walk'), nl)} IN
       /\ type' = [i \in Inum |-> IF i \in dead THEN "free" ELSE ty[i]]
       /\ nlink' = nl
       /\ entry' = [i \in Inum |-> IF i \in dead THEN NoEntries ELSE en[i]]
       /\ dotdot' = [i \in Inum |-> IF i \in dead THEN 0 ELSE dd[i]]

Return(p) == walk' = [walk EXCEPT ![p] = NoWalk]

(* namex() starts at the root or at the working directory.                 *)
path_call(p, op, d, path) ==
    /\ walk[p] = NoWalk /\ d \in {ROOTINO, cwd[p]}
    /\ walk' = [walk EXCEPT ![p] = [op |-> op, at |-> d, path |-> path, gone |-> FALSE]]
    /\ UNCHANGED <<type, nlink, entry, dotdot, cwd, late, dirpanic>>

sys_mkdir(p, d, path) == path_call(p, "mkdir", d, path)

(* create() makes a device, or a file for open(), in the same way.         *)
sys_mknod(p, d, path) == path_call(p, "create", d, path)

(* ilock() of where the walk is: it panics on a free inode, and a walk     *)
(* gives up on one that is not a directory.                                *)
ilock_ok(p) == walk[p].op # "none" /\ type[walk[p].at] # "free"
ilock_panic(p) ==
    /\ walk[p].op # "none" /\ type[walk[p].at] = "free"
    /\ dirpanic' = TRUE
    /\ UNCHANGED <<type, nlink, entry, dotdot, cwd, walk, late>>

(* skipelem(): the first element of a path, and the rest.                  *)
skipelem(path) == [name |-> Head(path), rest |-> Tail(path)]

(* The elements namex() itself follows: all for chdir(), and all but the   *)
(* last for nameiparent().                                                 *)
Hops(w) == Len(w.path) - IF w.op = "chdir" THEN 0 ELSE 1
Found(w) == dirlookup(w.at, skipelem(w.path).name)

namex(p) ==
    LET w == walk[p] IN
    /\ ilock_ok(p) /\ Hops(w) > 0
    /\ IF type[w.at] = "dir" /\ Found(w) # 0
       THEN walk' = [walk EXCEPT ![p].at = Found(w), ![p].path = skipelem(@).rest, ![p].gone = nlink[w.at] = 0]
       ELSE Return(p)
    /\ UNCHANGED <<cwd, late, dirpanic>>
    /\ Put(type, nlink, entry, dotdot)

AtParent(p, ops) == ilock_ok(p) /\ walk[p].op \in ops /\ Hops(walk[p]) = 0

(* create() that fails or returns what is there: no state changes.         *)
create_found(p) ==
    LET w == walk[p] IN
    /\ AtParent(p, {"mkdir", "create"})
    /\ type[w.at] # "dir" \/ Found(w) # 0
    /\ Return(p)
    /\ UNCHANGED <<cwd, late, dirpanic>>
    /\ Put(type, nlink, entry, dotdot)

(* The link that a new directory's ".." makes, and that removing it takes. *)
DotDotLink_none(kind) == 0
DotDotLink(kind) == IF kind = "dir" THEN 1 ELSE 0

(* create(): ialloc() takes the first free inode (it panics without one).  *)
create_new(p) ==
    LET w == walk[p]
        kind == IF w.op = "mkdir" THEN "dir" ELSE "file"
    IN  /\ AtParent(p, {"mkdir", "create"})
        /\ type[w.at] = "dir" /\ Found(w) = 0
        /\ Return(p)
        /\ late' = (late \/ nlink[w.at] = 0)
        /\ UNCHANGED <<cwd, dirpanic>>
        /\ \E new \in Inum :
              /\ type[new] = "free" /\ \A i \in 1 .. new - 1 : type[i] # "free"
              /\ Put([type EXCEPT ![new] = kind],
                     [nlink EXCEPT ![new] = 1, ![w.at] = @ + DotDotLink(kind)],
                     [entry EXCEPT ![w.at][skipelem(w.path).name] = new],
                     [dotdot EXCEPT ![new] = IF kind = "dir" THEN w.at ELSE 0])

isdirempty_name(d) == \E n \in DirNames : entry[d][n] = 0
isdirempty(d) == entry[d] = NoEntries

(* sys_unlink()'s early returns.                                           *)
MayUnlink(w) == /\ type[w.at] = "dir" /\ skipelem(w.path).name \in DirNames /\ Found(w) # 0
                /\ type[Found(w)] = "dir" => isdirempty(Found(w))

sys_unlink(p) ==
    LET w == walk[p] IN
    /\ AtParent(p, {"unlink"})
    /\ Return(p)
    /\ UNCHANGED <<cwd, late, dirpanic>>
    /\ IF MayUnlink(w)
       THEN LET ip == Found(w) IN
            Put(type,
                [nlink EXCEPT ![ip] = @ - 1, ![w.at] = @ - DotDotLink(type[ip])],
                [entry EXCEPT ![w.at][skipelem(w.path).name] = 0], dotdot)
       ELSE Put(type, nlink, entry, dotdot)

sys_chdir(p) ==
    LET w == walk[p] IN
    /\ AtParent(p, {"chdir"})
    /\ cwd' = IF type[w.at] = "dir" THEN [cwd EXCEPT ![p] = w.at] ELSE cwd
    /\ Return(p)
    /\ UNCHANGED <<late, dirpanic>>
    /\ Put(type, nlink, entry, dotdot)

(* Bound: a behaviour ends with a panic or with the first entry made in a  *)
(* removed directory, after which nothing is claimed.                      *)
DirNext == ~dirpanic /\ ~late /\ \E p \in DirProcs :
    \/ \E d \in Inum, path \in Paths : \/ sys_mkdir(p, d, path) \/ sys_mknod(p, d, path)
                                       \/ path_call(p, "unlink", d, path) \/ path_call(p, "chdir", d, path)
    \/ ilock_panic(p) \/ namex(p) \/ create_found(p) \/ create_new(p) \/ sys_unlink(p) \/ sys_chdir(p)

-----------------------------------------------------------------------------
DirSpec == DirInit /\ [][DirNext]_dirVars

Live == {i \in Inum : type[i] # "free"}
LiveDirs == {i \in Inum : type[i] = "dir"}
NamesOf(i) == {x \in LiveDirs \X DirNames : entry[x[1]][x[2]] = i}
Children(i) == {c \in LiveDirs : \E n \in DirNames : entry[i][n] = c}

(* What is reached from the root in k hops, and at all.                    *)
NamedIn(d) == {entry[d][n] : n \in DirNames} \ {0}
Reached[k \in Nat] == IF k = 0 THEN {ROOTINO}
                      ELSE LET S == Reached[k - 1] IN
                           S \cup UNION {NamedIn(d) : d \in S \cap LiveDirs}
FromRoot == Reached[NDirInodes]

(* A directory is named by the one its ".." names, and an inode has one    *)
(* link for each name and for the ".." of each child.                      *)
DotDotsMatch == \A c \in LiveDirs \ {ROOTINO} : \A x \in NamesOf(c) : dotdot[c] = x[1]
LinksExact ==
    \A i \in Live : nlink[i] = Cardinality(NamesOf(i)) + Cardinality(Children(i))
                               + IF i = ROOTINO THEN 1 ELSE 0

(* While no removed directory is written to, concurrent mkdir, create and  *)
(* unlink leave a tree, in which an inode with a link is reached from the  *)
(* root, so none is lost, and nothing that is reached has been freed.      *)
DirTree ==
    ~late => /\ DotDotsMatch /\ LinksExact
             /\ \A i \in Live : nlink[i] > 0 => i \in FromRoot
             /\ \A i \in FromRoot : i \in Live

(* A working directory stays a directory as long as a process is in it,    *)
(* removed or not.                                                         *)
WorkingDirKept == \A p \in DirProcs : type[cwd[p]] = "dir"

(* ilock() panics on an inode without type only for a walk that took the   *)
(* ".." of a directory already removed: every other hop of namex() lands   *)
(* on an inode that its reference keeps allocated.                         *)
WalkFindsInode ==
    ~late => \A p \in DirProcs : walk[p].op # "none" /\ type[walk[p].at] = "free" => walk[p].gone
=============================================================================
