------------------------------ MODULE SaveFile ------------------------------
(***************************************************************************)
(* How Store writes and reads the state file (src/src/state.cpp:           *)
(* save_locked, load_or_init, reload_keys_from_disk), system call by       *)
(* system call, from the server and the command line tool, which use the   *)
(* same two names: the state file and the temporary file beside it.        *)
(*                                                                         *)
(* A name stands for an inode, and an open stream keeps its inode when the *)
(* name moves on.  The text of a snapshot is a sequence of blocks written  *)
(* one after the other; the parser takes the first value of a file and     *)
(* ignores what follows it.  A process may die between any two calls; the  *)
(* blocks already written stay (a loss of power is not considered).        *)
(***************************************************************************)
EXTENDS Integers, Sequences

CONSTANTS
    Procs,          \* processes that save
    Reader,         \* the one of them that runs reload_keys_from_disk
    Inodes,         \* inodes of the file system
    None,           \* no inode
    Absent,         \* the file is missing, or empty
    Damaged,        \* the file is anything
    Overlap,        \* saves of two processes may overlap
    DiskMayFill,    \* the disk may be full: a write is short
    MaxBlocks,      \* bound: blocks of a snapshot
    MaxSaves        \* bound: saves begun

ASSUME SaveFileAssumption ==
    /\ None \notin Inodes
    /\ Absent \notin Nat /\ Damaged \notin Nat /\ Absent # Damaged
    /\ {Overlap, DiskMayFill} \subseteq BOOLEAN
    /\ MaxBlocks \in Nat \ {0} /\ MaxSaves \in Nat

VARIABLES
    path, tmp,      \* the inodes of the state file and of its temporary file
    data,           \* data[f]: the blocks of inode f
    proc,           \* proc[p]: where process p is, and its save
    reload,         \* the stream of reload_keys_from_disk
    saves,          \* number of saves begun: the number of the last snapshot
    \* History: the snapshot of the last save that ended well, or Damaged when
    \* another save or a full disk had disturbed it.
    good

vars == <<path, tmp, data, proc, reload, saves, good>>

-----------------------------------------------------------------------------
Hole == <<0, 0, 0>>

\* Block i of n of snapshot s.
Block == Nat \X Nat \X Nat

\* The stream of a save: its snapshot and the number of its blocks, the inode
\* it writes to and the blocks already written.  intact (history): all blocks
\* were written and no other save was under way.
Proc == [pc : {"down", "idle", "write", "rename"}, snap : Nat, size : Nat,
         ino : Inodes \cup {None}, off : Nat, intact : BOOLEAN]

Reload == [ino : Inodes \cup {None}, seen : Seq(Block), from : Nat \cup {Absent, Damaged}]

Down == [pc |-> "down", snap |-> 0, size |-> 0, ino |-> None, off |-> 0, intact |-> FALSE]

Up == [pc |-> "idle", snap |-> 0, size |-> 0, ino |-> None, off |-> 0, intact |-> FALSE]

NoReload == [ino |-> None, seen |-> <<>>, from |-> Absent]

saving(p) == proc[p].pc \in {"write", "rename"}

\* An inode that no name and no stream refers to.
unused(f) ==
    f \notin {path, tmp, reload.ino} /\ \A p \in Procs : proc[p].ino # f

\* in >> j: the first value of the file, with what follows it ignored.
whole(c, s) ==
    /\ c # <<>>
    /\ c[1][1] = s
    /\ c[1][3] <= Len(c)
    /\ \A i \in 1..c[1][3] : c[i] = <<s, i, c[1][3]>>

parses(c) == c # <<>> /\ c[1] # Hole /\ whole(c, c[1][1])

contents(f) ==
    IF f = None THEN Absent
    ELSE IF data[f] = <<>> THEN Absent
    ELSE IF parses(data[f]) THEN data[f][1][1]
    ELSE Damaged

-----------------------------------------------------------------------------
\* save_locked opens the temporary file, creating or emptying it.  (Where the
\* open fails it throws, and nothing has changed.)
save_open(p, n) ==
    \E f \in Inodes :
        /\ saves < MaxSaves
        /\ Overlap \/ \A q \in Procs : ~saving(q)
        /\ IF tmp = None THEN unused(f) ELSE f = tmp
        /\ tmp' = f
        /\ data' = [data EXCEPT ![f] = <<>>]
        /\ saves' = saves + 1
        /\ proc' = [q \in Procs |->
               IF q # p THEN [proc[q] EXCEPT !.intact = FALSE]
               ELSE [pc |-> "write", snap |-> saves + 1, size |-> n, ino |-> f, off |-> 0,
                     intact |-> \A x \in Procs : ~saving(x)]]
        /\ UNCHANGED <<path, reload, good>>

\* A process that is up saves; n is the length of its snapshot.
save_locked(p, n) == proc[p].pc = "idle" /\ save_open(p, n)

\* Block b is written at position i, which may be past the end of the file.
put(c, i, b) ==
    [j \in 1..(IF i > Len(c) THEN i ELSE Len(c)) |->
        IF j = i THEN b ELSE IF j <= Len(c) THEN c[j] ELSE Hole]

\* Mutant: a write too many.
write_past(p) ==
    LET i == proc[p].off + 1
    IN  /\ proc[p].pc = "write"
        /\ data' = [data EXCEPT ![proc[p].ino] =
               put(@, i, <<proc[p].snap, i, proc[p].size>>)]
        /\ proc' = [proc EXCEPT ![p].off = i,
                                ![p].pc = IF i > proc[p].size THEN "rename" ELSE "write"]
        /\ UNCHANGED <<path, tmp, reload, saves, good>>

\* out << j.dump(2) and the close of the stream, one write at a time.
save_write(p) ==
    LET i == proc[p].off + 1
    IN  /\ proc[p].pc = "write"
        /\ data' = [data EXCEPT ![proc[p].ino] =
               put(@, i, <<proc[p].snap, i, proc[p].size>>)]
        /\ proc' = [proc EXCEPT ![p].off = i,
                                ![p].pc = IF i = proc[p].size THEN "rename" ELSE "write"]
        /\ UNCHANGED <<path, tmp, reload, saves, good>>

\* The disk is full: the stream goes bad, which nobody looks at.
save_short(p) ==
    /\ DiskMayFill
    /\ proc[p].pc = "write"
    /\ proc' = [proc EXCEPT ![p].pc = "rename", ![p].intact = FALSE]
    /\ UNCHANGED <<path, tmp, data, reload, saves, good>>

\* Mutants: the name is replaced before the stream is closed; the old file is
\* removed first; the new text is copied into the old file.
rename_early(p) ==
    /\ saving(p) /\ tmp # None
    /\ path' = tmp /\ tmp' = None
    /\ good' = IF proc[p].intact THEN proc[p].snap ELSE Damaged
    /\ proc' = [proc EXCEPT ![p] = Up]
    /\ UNCHANGED <<data, reload, saves>>
rename_removes(p) ==
    /\ proc[p].pc = "rename" /\ tmp # None
    /\ IF path # None
       THEN path' = None /\ UNCHANGED <<tmp, good, proc>>
       ELSE /\ path' = tmp /\ tmp' = None
            /\ good' = IF proc[p].intact THEN proc[p].snap ELSE Damaged
            /\ proc' = [proc EXCEPT ![p] = Up]
    /\ UNCHANGED <<data, reload, saves>>
rename_copies(p) ==
    /\ proc[p].pc = "rename" /\ tmp # None
    /\ IF path = None THEN path' = tmp /\ tmp' = None /\ UNCHANGED data
       ELSE data' = [data EXCEPT ![path] = data[tmp]] /\ UNCHANGED <<path, tmp>>
    /\ good' = IF proc[p].intact THEN proc[p].snap ELSE Damaged
    /\ proc' = [proc EXCEPT ![p] = Up]
    /\ UNCHANGED <<reload, saves>>

\* rename(tmp, path) moves whatever the temporary name now stands for.
save_rename(p) ==
    /\ proc[p].pc = "rename" /\ tmp # None
    /\ path' = tmp /\ tmp' = None
    /\ good' = IF proc[p].intact THEN proc[p].snap ELSE Damaged
    /\ proc' = [proc EXCEPT ![p] = Up]
    /\ UNCHANGED <<data, reload, saves>>

\* rename fails, always so when another process has moved the file: throw.
save_throw(p) ==
    /\ proc[p].pc = "rename"
    /\ proc' = [proc EXCEPT ![p] = Up]
    /\ UNCHANGED <<path, tmp, data, reload, saves, good>>

-----------------------------------------------------------------------------
\* Store's constructor: a file that is missing or empty is a first start, and
\* the new noise key is saved at once; one that does not parse is an error.
load_or_init(p) ==
    /\ proc[p].pc = "down"
    /\ \/ /\ contents(path) = Absent
          /\ \E n \in 1..MaxBlocks : save_open(p, n)
       \/ /\ contents(path) \in Nat
          /\ proc' = [proc EXCEPT ![p] = Up]
          /\ UNCHANGED <<path, tmp, data, reload, saves, good>>

\* The process dies or exits.
crash(p) ==
    /\ proc[p].pc # "down"
    /\ proc' = [proc EXCEPT ![p] = Down]
    /\ reload' = IF p = Reader THEN NoReload ELSE reload
    /\ UNCHANGED <<path, tmp, data, saves, good>>

\* reload_keys_from_disk, on another thread than the save: it opens the file
\* and reads it block by block, without the lock ...
reload_open ==
    /\ proc[Reader].pc # "down" /\ reload.ino = None /\ path # None
    /\ reload' = [ino |-> path, seen |-> <<>>, from |-> good]
    /\ UNCHANGED <<path, tmp, data, proc, saves, good>>

at_end == reload.ino # None /\ Len(reload.seen) >= Len(data[reload.ino])

reload_block ==
    /\ reload.ino # None /\ ~at_end
    /\ reload' = [reload EXCEPT !.seen = Append(@, data[reload.ino][Len(@) + 1])]
    /\ UNCHANGED <<path, tmp, data, proc, saves, good>>

\* ... and installs the keys, or returns when what it read does not parse.
reload_done ==
    /\ at_end
    /\ reload' = NoReload
    /\ UNCHANGED <<path, tmp, data, proc, saves, good>>

-----------------------------------------------------------------------------
\* Nothing is saved yet; mktemp may have made an empty state file.
Init ==
    /\ path \in Inodes \cup {None} /\ tmp = None
    /\ data = [f \in Inodes |-> <<>>]
    /\ proc = [p \in Procs |-> Down]
    /\ reload = NoReload
    /\ saves = 0
    /\ good = Absent

ProcNext(p) ==
    \/ \E n \in 1..MaxBlocks : save_locked(p, n)
    \/ save_write(p) \/ save_short(p) \/ save_rename(p) \/ save_throw(p)
    \/ load_or_init(p) \/ crash(p)

Next ==
    \/ \E p \in Procs : ProcNext(p)
    \/ reload_open \/ reload_block \/ reload_done

Spec == Init /\ [][Next]_vars

-----------------------------------------------------------------------------
\* Names, inodes and streams.
TypeOK ==
    /\ path \in Inodes \cup {None} /\ tmp \in Inodes \cup {None}
    /\ data \in [Inodes -> Seq(Block)]
    /\ proc \in [Procs -> Proc]
    /\ \A p \in Procs : proc[p].off <= proc[p].size
    /\ reload \in Reload
    /\ saves \in 0..MaxSaves
    /\ good \in 0..MaxSaves \cup {Absent, Damaged}

\* While nothing has disturbed the last save, the state file holds exactly its
\* snapshot, whatever saves have been begun, have thrown or have died since:
\* save_locked writes beside the file and renames.
LastSaveStands == good # Damaged => contents(path) = good

\* Blocks 1 to k of snapshot s, which has n.
text(s, k, n) == [i \in 1..k |-> <<s, i, n>>]

\* A save under way: one that nothing has disturbed is the only one, and the
\* file that the temporary name stands for has exactly the blocks it wrote.
SaveOK(p) ==
    saving(p) =>
        /\ proc[p].ino \in Inodes
        /\ proc[p].size \in 1..MaxBlocks
        /\ proc[p].pc = "write" => proc[p].off < proc[p].size
        /\ proc[p].snap \in 1..saves
        /\ good # Damaged => proc[p].ino # path
        /\ ~proc[p].intact => Overlap \/ DiskMayFill
        /\ proc[p].intact =>
               /\ tmp = proc[p].ino
               /\ data[tmp] = text(proc[p].snap, proc[p].off, proc[p].size)
               /\ proc[p].pc = "rename" => proc[p].off = proc[p].size
               /\ good \in Nat => proc[p].snap > good
               /\ \A q \in Procs : saving(q) => q = p

\* The state file has the text of the last save, or is new.
FileOK ==
    /\ good = Absent => path = None \/ data[path] = <<>>
    /\ good \in Nat =>
           /\ path # None
           /\ good \in 1..saves
           /\ \E n \in 1..MaxBlocks : data[path] = text(good, n, n)

\* The inductive invariant behind LastSaveStands: what SaveOK says of every
\* save keeps the streams of unfinished saves away from the state file.
SaveIInv ==
    /\ TypeOK
    /\ tmp # None => tmp # path
    /\ \A p \in Procs : SaveOK(p)
    /\ FileOK

\* A reload that opened the file between undisturbed saves reads the whole
\* snapshot that was there, however the file is replaced while it reads.
ReloadWhole ==
    reload.from \in Nat /\ at_end => parses(reload.seen) /\ reload.seen[1][1] = reload.from

\* A process takes the state file for that of a first start only when no save
\* has ended yet ("empty file from mktemp / first create", state.cpp:73), or
\* the last one was disturbed.
FreshOnlyFirst ==
    [][\A p \in Procs : proc[p].pc = "down" /\ proc'[p].pc = "write"
           => good \in {Absent, Damaged}]_proc

\* What Store takes the file for.
Register == INSTANCE StateFile WITH
    MayDamage <- Overlap \/ DiskMayFill,
    file <- IF good = Damaged THEN Damaged ELSE contents(path)

\* The files and names implement the register that Store's variable disk
\* stands for: only a rename changes it, to a later snapshot.
AtomicRegister == Register!Spec
=============================================================================
