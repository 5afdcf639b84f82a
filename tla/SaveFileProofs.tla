-------------------------- MODULE SaveFileProofs ---------------------------
(***************************************************************************)
(* SaveIInv is inductive, SaveFile implements StateFile, a reload of an    *)
(* undisturbed file reads all of it, and only the first start finds none:  *)
(* for any processes, inodes and lengths of snapshots, with crashes, failed*)
(* renames, overlapping saves and short writes.                            *)
(***************************************************************************)
EXTENDS SaveFile, TLAPS

USE SaveFileAssumption

\* A sequence's length and elements.
LEMMA SeqParts ==
    ASSUME NEW S, NEW s \in Seq(S)
    PROVE  /\ Len(s) \in Nat /\ DOMAIN s = 1..Len(s) /\ s \in [1..Len(s) -> S]
           /\ \A i \in 1..Len(s) : s[i] \in S
OBVIOUS

\* A function on 1..n is a sequence.
LEMMA FunctionIsSeq ==
    ASSUME NEW S, NEW n \in Nat, NEW f \in [1..n -> S]
    PROVE  f \in Seq(S) /\ Len(f) = n
OBVIOUS

\* Sequences with equal lengths and elements are equal.
LEMMA SameSeq ==
    ASSUME NEW S, NEW s \in Seq(S), NEW t \in Seq(S), Len(s) = Len(t),
           \A i \in 1..Len(s) : s[i] = t[i]
    PROVE  s = t
OBVIOUS

\* A sequence with one more element.
LEMMA Pushed ==
    ASSUME NEW S, NEW s \in Seq(S), NEW e \in S
    PROVE  /\ Append(s, e) \in Seq(S) /\ Len(Append(s, e)) = Len(s) + 1
           /\ \A i \in 1..Len(s) : Append(s, e)[i] = s[i]
           /\ Append(s, e)[Len(s) + 1] = e
OBVIOUS

-----------------------------------------------------------------------------
\* The stream of a reload that opened the file of an undisturbed save: its
\* inode holds the complete text, no save writes to that inode or will, and
\* what has been read is the beginning of the text.
ReloadOK ==
    reload.from \in Nat =>
        /\ reload.ino \in Inodes /\ reload.ino # tmp
        /\ \A p \in Procs : saving(p) => proc[p].ino # reload.ino
        /\ reload.from # 0
        /\ \E n \in 1..MaxBlocks :
               /\ data[reload.ino] = text(reload.from, n, n)
               /\ Len(reload.seen) <= n
               /\ reload.seen = text(reload.from, Len(reload.seen), n)

-----------------------------------------------------------------------------
\* text(s, k, n) is a sequence of k blocks.
LEMMA TextSeq ==
    ASSUME NEW s \in Nat, NEW k \in Nat, NEW n \in Nat
    PROVE  /\ text(s, k, n) \in Seq(Block)
           /\ Len(text(s, k, n)) = k
           /\ \A i \in 1..k : text(s, k, n)[i] = <<s, i, n>>
<1>1. \A i \in 1..k : <<s, i, n>> \in Block
  BY DEF Block
<1>2. text(s, k, n) \in [1..k -> Block]
  BY <1>1 DEF text
<1>3. text(s, k, n) \in Seq(Block)
  BY <1>2, FunctionIsSeq
<1>4. DOMAIN text(s, k, n) = 1..k
  BY DEF text
<1>5. Len(text(s, k, n)) = k
  BY <1>3, <1>4, SeqParts
<1> QED
  BY <1>3, <1>5 DEF text

\* Writing the next block continues the text (save_write on an intact save).
LEMMA PutNext ==
    ASSUME NEW s \in Nat, NEW k \in Nat, NEW n \in Nat
    PROVE  put(text(s, k, n), k + 1, <<s, k + 1, n>>) = text(s, k + 1, n)
<1>1. Len(text(s, k, n)) = k
  BY TextSeq
<1>2. \A j \in 1..(k + 1) : j # k + 1 => j \in 1..k
  OBVIOUS
<1>3. put(text(s, k, n), k + 1, <<s, k + 1, n>>)
        = [j \in 1..(k + 1) |-> IF j = k + 1 THEN <<s, k + 1, n>>
                                ELSE IF j <= k THEN text(s, k, n)[j] ELSE Hole]
  BY <1>1 DEF put
<1>4. \A j \in 1..(k + 1) :
        (IF j = k + 1 THEN <<s, k + 1, n>>
         ELSE IF j <= k THEN text(s, k, n)[j] ELSE Hole) = <<s, j, n>>
  <2> TAKE j \in 1..(k + 1)
  <2>1. CASE j = k + 1
    BY <2>1
  <2>2. CASE j # k + 1
    <3>1. j \in 1..k /\ j <= k
      BY <2>2
    <3>2. text(s, k, n)[j] = <<s, j, n>>
      BY <3>1, TextSeq, Zenon
    <3> QED
      BY <2>2, <3>1, <3>2
  <2> QED
    BY <2>1, <2>2
<1>5. [j \in 1..(k + 1) |-> IF j = k + 1 THEN <<s, k + 1, n>>
                            ELSE IF j <= k THEN text(s, k, n)[j] ELSE Hole]
        = [j \in 1..(k + 1) |-> <<s, j, n>>]
  BY ONLY <1>4, Zenon
<1> QED
  BY <1>3, <1>5, Zenon DEF text

\* A block is written into a sequence of blocks.
LEMMA PutSeq ==
    ASSUME NEW c \in Seq(Block), NEW i \in Nat \ {0}, NEW b \in Block
    PROVE  put(c, i, b) \in Seq(Block)
<1> DEFINE m == IF i > Len(c) THEN i ELSE Len(c)
<1>1. Len(c) \in Nat /\ m \in Nat
  BY SeqParts
<1>2. Hole \in Block
  BY DEF Hole, Block
<1>3. \A j \in 1..m : j <= Len(c) => c[j] \in Block
  BY <1>1, SeqParts
<1>4. put(c, i, b) \in [1..m -> Block]
  BY <1>2, <1>3 DEF put
<1> QED
  BY <1>1, <1>4, FunctionIsSeq

\* Reading the next block continues the text (reload_block).
LEMMA ReadNext ==
    ASSUME NEW s \in Nat, NEW k \in Nat, NEW n \in Nat
    PROVE  Append(text(s, k, n), <<s, k + 1, n>>) = text(s, k + 1, n)
<1> DEFINE a == Append(text(s, k, n), <<s, k + 1, n>>)
           t == text(s, k + 1, n)
<1>1. /\ text(s, k, n) \in Seq(Block) /\ Len(text(s, k, n)) = k
      /\ \A i \in 1..k : text(s, k, n)[i] = <<s, i, n>>
  BY TextSeq, Zenon
<1>2. /\ t \in Seq(Block) /\ Len(t) = k + 1
      /\ \A i \in 1..(k + 1) : t[i] = <<s, i, n>>
  <2>1. k + 1 \in Nat
    OBVIOUS
  <2> QED
    BY <2>1, TextSeq, Zenon
<1>3. <<s, k + 1, n>> \in Block
  BY DEF Block
<1>4. /\ a \in Seq(Block) /\ Len(a) = k + 1
      /\ \A i \in 1..k : a[i] = text(s, k, n)[i]
      /\ a[k + 1] = <<s, k + 1, n>>
  BY <1>1, <1>3, Pushed
<1>5. \A i \in 1..(k + 1) : a[i] = t[i]
  <2> TAKE i \in 1..(k + 1)
  <2>1. CASE i = k + 1
    BY <1>2, <1>4, <2>1, Zenon
  <2>2. CASE i # k + 1
    <3>1. i \in 1..k
      BY <2>2
    <3> QED
      BY <1>1, <1>2, <1>4, <3>1, Zenon
  <2> QED
    BY <2>1, <2>2, Zenon
<1> HIDE DEF a, t
<1>6. a = t
  BY <1>2, <1>4, <1>5, SameSeq
<1> QED
  BY <1>6 DEF a, t

\* A complete text parses as its snapshot.
LEMMA TextWhole ==
    ASSUME NEW c, NEW s \in Nat \ {0}, NEW n \in Nat \ {0}, c = text(s, n, n)
    PROVE  c # <<>> /\ c[1][1] = s /\ parses(c)
<1>1. /\ Len(c) = n
      /\ \A i \in 1..n : c[i] = <<s, i, n>>
  <2>1. /\ Len(text(s, n, n)) = n
        /\ \A i \in 1..n : text(s, n, n)[i] = <<s, i, n>>
    BY TextSeq, Zenon
  <2> QED
    BY <2>1, Zenon
<1>0. Len(<<>>) = 0
  OBVIOUS
<1>2. c # <<>>
  <2> SUFFICES ASSUME c = <<>> PROVE FALSE
    OBVIOUS
  <2>1. n = 0
    BY <1>0, <1>1
  <2> QED
    BY <2>1
<1>3. c[1] = <<s, 1, n>>
  BY <1>1
<1>4. c[1][1] = s /\ c[1][3] = n
  BY <1>3
<1>5. whole(c, s)
  BY <1>1, <1>2, <1>4 DEF whole
<1>6. c[1] # Hole
  BY <1>3 DEF Hole
<1> QED
  BY <1>2, <1>4, <1>5, <1>6 DEF parses

\* A file that holds a complete text has its snapshot.
LEMMA TextParses ==
    ASSUME NEW f \in Inodes, NEW s \in Nat \ {0}, NEW n \in Nat \ {0},
           data[f] = text(s, n, n)
    PROVE  contents(f) = s
<1>1. data[f] # <<>> /\ data[f][1][1] = s /\ parses(data[f])
  BY TextWhole
<1> QED
  BY <1>1 DEF contents

-----------------------------------------------------------------------------
\* The initial states satisfy the invariant.
LEMMA SaveInit == Init => SaveIInv
<1> SUFFICES ASSUME Init PROVE SaveIInv
  OBVIOUS
<1>1. \A p \in Procs : ~saving(p)
  BY Zenon DEF Init, saving, Down
<1>2. data \in [Inodes -> Seq(Block)]
  BY DEF Init
<1>3. proc \in [Procs -> Proc] /\ \A p \in Procs : proc[p].off <= proc[p].size
  BY DEF Init, Down, Proc
<1>4. reload \in Reload
  BY DEF Init, NoReload, Reload
<1>5. TypeOK
  BY <1>2, <1>3, <1>4 DEF Init, TypeOK
<1>6. FileOK
  BY DEF Init, FileOK
<1> QED
  BY <1>1, <1>5, <1>6 DEF Init, SaveIInv, SaveOK

\* A process leaves its save, or starts or ends, and the files stay.
LEMMA SaveLeave ==
    ASSUME SaveIInv, NEW p \in Procs,
           proc' = [proc EXCEPT ![p] = Up] \/ proc' = [proc EXCEPT ![p] = Down],
           reload' \in Reload,
           UNCHANGED <<path, tmp, data, saves, good>>
    PROVE  SaveIInv'
<1> USE DEF SaveIInv
<1>1. Up \in Proc /\ Down \in Proc /\ Up.off <= Up.size /\ Down.off <= Down.size
  BY DEF Up, Down, Proc
<1>2. Up.pc = "idle" /\ Down.pc = "down"
  BY DEF Up, Down
<1>3. \A q \in Procs : saving(q)' => saving(q) /\ proc'[q] = proc[q]
  BY <1>2 DEF TypeOK, saving
<1>4. proc' \in [Procs -> Proc] /\ \A q \in Procs : proc'[q].off <= proc'[q].size
  BY <1>1, Zenon DEF TypeOK
<1>5. TypeOK'
  BY <1>4 DEF TypeOK
<1>6. \A q \in Procs : SaveOK(q)'
  BY <1>3 DEF SaveOK, saving
<1>7. FileOK'
  BY DEF FileOK
<1> QED
  BY <1>5, <1>6, <1>7

\* A save begins.
LEMMA SaveOpen ==
    ASSUME SaveIInv, NEW p \in Procs, NEW n \in 1..MaxBlocks, ~saving(p), save_open(p, n)
    PROVE  SaveIInv'
<1> USE DEF SaveIInv
<1> PICK f \in Inodes :
        /\ saves < MaxSaves
        /\ Overlap \/ \A q \in Procs : ~saving(q)
        /\ IF tmp = None THEN unused(f) ELSE f = tmp
        /\ tmp' = f
        /\ data' = [data EXCEPT ![f] = <<>>]
        /\ saves' = saves + 1
        /\ proc' = [q \in Procs |->
               IF q # p THEN [proc[q] EXCEPT !.intact = FALSE]
               ELSE [pc |-> "write", snap |-> saves + 1, size |-> n, ino |-> f, off |-> 0,
                     intact |-> \A x \in Procs : ~saving(x)]]
        /\ UNCHANGED <<path, reload, good>>
  BY Zenon DEF save_open
<1>1. f # path /\ f # None
  BY DEF unused
<1>2. saves \in Nat /\ saves' \in 0..MaxSaves /\ saves' = saves + 1
  BY DEF TypeOK
<1>3. /\ proc'[p].pc = "write" /\ proc'[p].snap = saves + 1 /\ proc'[p].size = n
      /\ proc'[p].ino = f /\ proc'[p].off = 0
      /\ proc'[p].intact = (\A x \in Procs : ~saving(x))
  BY Zenon
<1>4. \A q \in Procs \ {p} : proc'[q] = [proc[q] EXCEPT !.intact = FALSE]
  OBVIOUS
<1>5. \A q \in Procs \ {p} : /\ proc'[q].pc = proc[q].pc /\ proc'[q].snap = proc[q].snap
                             /\ proc'[q].size = proc[q].size /\ proc'[q].ino = proc[q].ino
                             /\ proc'[q].off = proc[q].off /\ proc'[q].intact = FALSE
  BY <1>4, SMTT(20) DEF TypeOK, Proc
<1>6. TypeOK'
  <2>1. \A q \in Procs : proc'[q] \in Proc
    <3>1. proc'[p] \in Proc
      <4>1. proc'[p] = [pc |-> "write", snap |-> saves + 1, size |-> n, ino |-> f, off |-> 0,
                        intact |-> \A x \in Procs : ~saving(x)]
        OBVIOUS
      <4>2. (\A x \in Procs : ~saving(x)) \in BOOLEAN
        OBVIOUS
      <4> QED
        BY <4>1, <4>2, <1>2 DEF Proc
    <3>2. \A q \in Procs : [proc[q] EXCEPT !.intact = FALSE] \in Proc
      BY Zenon DEF TypeOK, Proc
    <3> QED
      BY <3>1, <3>2, <1>4
  <2>2. proc' \in [Procs -> Proc] /\ \A q \in Procs : proc'[q].off <= proc'[q].size
    BY <2>1, <1>3, <1>5 DEF TypeOK
  <2>3. data' \in [Inodes -> Seq(Block)]
    BY DEF TypeOK
  <2> QED
    BY <2>2, <2>3, <1>2 DEF TypeOK
<1>7. ASSUME NEW q \in Procs PROVE SaveOK(q)'
  <2>1. CASE q = p
    <3>1. text(saves + 1, 0, n) = <<>>
      BY DEF text
    <3>2. proc'[p].intact => \A x \in Procs : saving(x)' => x = p
      BY <1>3, <1>5 DEF saving
    <3>3. ~proc'[p].intact => Overlap
      BY <1>3
    <3>4. good \in Nat => good <= saves
      BY <1>2 DEF FileOK
    <3>5. data'[f] = <<>>
      BY DEF TypeOK
    <3>6. good \in Nat => saves + 1 > good
      BY <3>4, <1>2
    <3>7. proc'[p].intact =>
               /\ tmp' = proc'[p].ino
               /\ data'[tmp'] = text(proc'[p].snap, proc'[p].off, proc'[p].size)
               /\ proc'[p].pc = "rename" => proc'[p].off = proc'[p].size
               /\ good' \in Nat => proc'[p].snap > good'
               /\ \A x \in Procs : saving(x)' => x = p
      BY <3>1, <3>2, <3>5, <3>6, <1>3
    <3>8. /\ proc'[p].ino \in Inodes
          /\ proc'[p].size \in 1..MaxBlocks
          /\ proc'[p].pc = "write" => proc'[p].off < proc'[p].size
          /\ proc'[p].snap \in 1..saves'
          /\ good' # Damaged => proc'[p].ino # path'
      BY <1>1, <1>2, <1>3
    <3> QED
      BY <2>1, <3>3, <3>7, <3>8 DEF SaveOK
  <2>2. CASE q # p
    <3> SUFFICES ASSUME saving(q)' PROVE SaveOK(q)'
      BY DEF SaveOK
    <3>1. saving(q)
      BY <2>2, <1>5 DEF saving
    <3>2. Overlap
      BY <3>1
    <3>3. /\ proc[q].ino \in Inodes
          /\ proc[q].size \in 1..MaxBlocks
          /\ proc[q].pc = "write" => proc[q].off < proc[q].size
          /\ proc[q].snap \in 1..saves
          /\ good # Damaged => proc[q].ino # path
      BY <3>1 DEF SaveOK
    <3>4. proc[q].snap \in 1..saves'
      BY <3>3, <1>2
    <3>5. /\ proc'[q].ino \in Inodes
          /\ proc'[q].size \in 1..MaxBlocks
          /\ proc'[q].pc = "write" => proc'[q].off < proc'[q].size
          /\ proc'[q].snap \in 1..saves'
          /\ good' # Damaged => proc'[q].ino # path'
          /\ ~proc'[q].intact
      BY <2>2, <3>3, <3>4, <1>5, Zenon
    <3> QED
      BY <3>2, <3>5 DEF SaveOK
  <2> QED
    BY <2>1, <2>2
<1>8. FileOK'
  <2>1. path \in Inodes => data'[path] = data[path]
    BY <1>1 DEF TypeOK
  <2> QED
    BY <2>1, <1>2 DEF FileOK, TypeOK
<1> QED
  BY <1>1, <1>6, <1>7, <1>8

\* A block is written.
LEMMA SaveWrite ==
    ASSUME SaveIInv, NEW p \in Procs, save_write(p)
    PROVE  SaveIInv'
<1> DEFINE i == proc[p].off + 1
           b == <<proc[p].snap, i, proc[p].size>>
           pc1 == IF i = proc[p].size THEN "rename" ELSE "write"
<1>1. /\ TypeOK /\ FileOK /\ \A q \in Procs : SaveOK(q)
      /\ tmp # None => tmp # path
  BY DEF SaveIInv
<1>2. proc[p].pc = "write" /\ saving(p)
  BY DEF save_write, saving
<1>3. /\ proc[p].ino \in Inodes
      /\ proc[p].size \in 1..MaxBlocks
      /\ proc[p].off < proc[p].size
      /\ proc[p].snap \in 1..saves
      /\ good # Damaged => proc[p].ino # path
      /\ ~proc[p].intact => Overlap \/ DiskMayFill
  BY <1>1, <1>2 DEF SaveOK
<1>4. proc[p] \in Proc
  BY <1>1 DEF TypeOK
<1>5. i \in Nat \ {0} /\ i <= proc[p].size /\ b \in Block
  BY <1>3, <1>4 DEF Proc, Block
<1>6. /\ data' = [data EXCEPT ![proc[p].ino] = put(data[proc[p].ino], i, b)]
      /\ proc' = [proc EXCEPT ![p].off = i, ![p].pc = pc1]
      /\ UNCHANGED <<path, tmp, reload, saves, good>>
  BY DEF save_write
<1>7. proc'[p] = [proc[p] EXCEPT !.off = i, !.pc = pc1]
  BY <1>1, <1>6 DEF TypeOK
<1>8. /\ proc'[p].ino = proc[p].ino /\ proc'[p].size = proc[p].size
      /\ proc'[p].snap = proc[p].snap /\ proc'[p].intact = proc[p].intact
      /\ proc'[p].off = i /\ proc'[p].pc = pc1
  BY <1>4, <1>7 DEF Proc
<1>9. \A q \in Procs \ {p} : proc'[q] = proc[q]
  BY <1>1, <1>6 DEF TypeOK
<1>10. \A q \in Procs : saving(q)' <=> saving(q)
  BY <1>2, <1>8, <1>9 DEF saving
<1>11. TypeOK'
  <2>1. put(data[proc[p].ino], i, b) \in Seq(Block)
    BY <1>1, <1>3, <1>5, PutSeq, Zenon DEF TypeOK
  <2>2. data' \in [Inodes -> Seq(Block)]
    BY <2>1, <1>1, <1>6, Zenon DEF TypeOK
  <2>3. proc'[p] \in Proc
    BY <1>4, <1>5, <1>7, Zenon DEF Proc
  <2>4. proc' \in [Procs -> Proc]
    BY <2>3, <1>1, <1>6 DEF TypeOK
  <2>5. \A q \in Procs : proc'[q].off <= proc'[q].size
    BY <1>1, <1>5, <1>8, <1>9 DEF TypeOK
  <2> QED
    BY <2>2, <2>4, <2>5, <1>1, <1>6 DEF TypeOK
<1>12. SaveOK(p)'
  <2>1. pc1 = "write" => i < proc[p].size
    BY <1>3, <1>5
  <2>2. pc1 = "rename" => i = proc[p].size
    OBVIOUS
  <2>3. ASSUME proc[p].intact
        PROVE  /\ tmp' = proc'[p].ino
               /\ data'[tmp'] = text(proc'[p].snap, proc'[p].off, proc'[p].size)
               /\ good' \in Nat => proc'[p].snap > good'
               /\ \A q \in Procs : saving(q)' => q = p
    <3>1. /\ tmp = proc[p].ino
          /\ data[tmp] = text(proc[p].snap, proc[p].off, proc[p].size)
          /\ good \in Nat => proc[p].snap > good
          /\ \A q \in Procs : saving(q) => q = p
      BY <1>1, <1>2, <2>3 DEF SaveOK
    <3>2. proc[p].snap \in Nat /\ proc[p].off \in Nat /\ proc[p].size \in Nat
      BY <1>4 DEF Proc
    <3>3. put(data[tmp], i, b) = text(proc[p].snap, i, proc[p].size)
      BY <3>1, <3>2, PutNext
    <3>4. data'[tmp] = put(data[tmp], i, b)
      BY <3>1, <1>1, <1>3, <1>6 DEF TypeOK
    <3> QED
      BY <3>1, <3>3, <3>4, <1>6, <1>8, <1>10
  <2> QED
    BY <2>1, <2>2, <2>3, <1>3, <1>6, <1>8 DEF SaveOK
<1>13. ASSUME NEW q \in Procs, q # p PROVE SaveOK(q)'
  <2> SUFFICES ASSUME saving(q)' PROVE SaveOK(q)'
    BY DEF SaveOK
  <2>1. saving(q) /\ proc'[q] = proc[q]
    BY <1>9, <1>10, <1>13
  <2>2. ~proc[q].intact
    BY <2>1, <1>1, <1>2, <1>13 DEF SaveOK
  <2> QED
    BY <2>1, <2>2, <1>1, <1>6 DEF SaveOK
<1>14. FileOK'
  <2>1. good # Damaged /\ path \in Inodes => data'[path] = data[path]
    BY <1>1, <1>3, <1>6 DEF TypeOK
  <2>2. good # Damaged /\ path # None => path \in Inodes
    BY <1>1 DEF TypeOK
  <2> QED
    BY <2>1, <2>2, <1>1, <1>6 DEF FileOK
<1> QED
  BY <1>1, <1>6, <1>11, <1>12, <1>13, <1>14 DEF SaveIInv

\* The disk is full.
LEMMA SaveShort ==
    ASSUME SaveIInv, NEW p \in Procs, save_short(p)
    PROVE  SaveIInv'
<1>1. /\ TypeOK /\ FileOK /\ \A q \in Procs : SaveOK(q)
      /\ tmp # None => tmp # path
  BY DEF SaveIInv
<1>2. DiskMayFill /\ saving(p)
  BY DEF save_short, saving
<1>3. /\ proc' = [proc EXCEPT ![p].pc = "rename", ![p].intact = FALSE]
      /\ UNCHANGED <<path, tmp, data, reload, saves, good>>
  BY DEF save_short
<1>4. proc[p] \in Proc /\ proc'[p] = [proc[p] EXCEPT !.pc = "rename", !.intact = FALSE]
  BY <1>1, <1>3 DEF TypeOK
<1>5. /\ proc'[p].ino = proc[p].ino /\ proc'[p].size = proc[p].size
      /\ proc'[p].snap = proc[p].snap /\ proc'[p].intact = FALSE
      /\ proc'[p].off = proc[p].off /\ proc'[p].pc = "rename"
  BY <1>4 DEF Proc
<1>6. \A q \in Procs \ {p} : proc'[q] = proc[q]
  BY <1>1, <1>3 DEF TypeOK
<1>7. \A q \in Procs : saving(q)' <=> saving(q)
  BY <1>2, <1>5, <1>6 DEF saving
<1>8. TypeOK'
  <2>1. proc'[p] \in Proc
    BY <1>4, Zenon DEF Proc
  <2>2. proc' \in [Procs -> Proc] /\ \A q \in Procs : proc'[q].off <= proc'[q].size
    BY <2>1, <1>1, <1>3, <1>5, <1>6 DEF TypeOK
  <2> QED
    BY <2>2, <1>1, <1>3 DEF TypeOK
<1>9. SaveOK(p)'
  <2>1. /\ proc[p].ino \in Inodes /\ proc[p].size \in 1..MaxBlocks
        /\ proc[p].snap \in 1..saves
        /\ good # Damaged => proc[p].ino # path
    BY <1>1, <1>2 DEF SaveOK
  <2> QED
    BY <2>1, <1>2, <1>3, <1>5 DEF SaveOK
<1>10. ASSUME NEW q \in Procs, q # p PROVE SaveOK(q)'
  <2> SUFFICES ASSUME saving(q)' PROVE SaveOK(q)'
    BY DEF SaveOK
  <2>1. saving(q) /\ proc'[q] = proc[q]
    BY <1>6, <1>7, <1>10
  <2>2. ~proc[q].intact
    BY <2>1, <1>1, <1>2, <1>10 DEF SaveOK
  <2> QED
    BY <2>1, <2>2, <1>1, <1>3 DEF SaveOK
<1>11. FileOK'
  BY <1>1, <1>3 DEF FileOK
<1> QED
  BY <1>1, <1>3, <1>8, <1>9, <1>10, <1>11 DEF SaveIInv

\* The temporary file is renamed.
LEMMA SaveRename ==
    ASSUME SaveIInv, NEW p \in Procs, save_rename(p)
    PROVE  SaveIInv'
<1>1. /\ TypeOK /\ FileOK /\ \A q \in Procs : SaveOK(q)
      /\ tmp # None => tmp # path
  BY DEF SaveIInv
<1>2. proc[p].pc = "rename" /\ saving(p) /\ tmp \in Inodes
  BY <1>1 DEF save_rename, saving, TypeOK
<1>3. /\ path' = tmp /\ tmp' = None
      /\ good' = IF proc[p].intact THEN proc[p].snap ELSE Damaged
      /\ proc' = [proc EXCEPT ![p] = Up]
      /\ UNCHANGED <<data, reload, saves>>
  BY DEF save_rename
<1>4. Up \in Proc /\ Up.off <= Up.size /\ Up.pc = "idle"
  BY DEF Up, Proc
<1>5. \A q \in Procs : saving(q)' => q # p /\ saving(q) /\ proc'[q] = proc[q]
  BY <1>1, <1>3, <1>4 DEF TypeOK, saving
<1>6. proc[p] \in Proc /\ proc[p].snap \in 1..saves /\ proc[p].size \in 1..MaxBlocks
  BY <1>1, <1>2 DEF SaveOK, TypeOK
<1>7. TypeOK'
  <2>1. good' \in 0..MaxSaves \cup {Absent, Damaged}
    BY <1>1, <1>3, <1>6 DEF TypeOK
  <2>2. proc' \in [Procs -> Proc] /\ \A q \in Procs : proc'[q].off <= proc'[q].size
    BY <1>1, <1>3, <1>4 DEF TypeOK
  <2> QED
    BY <2>1, <2>2, <1>1, <1>3 DEF TypeOK
<1>8. CASE proc[p].intact
  <2>1. /\ data[tmp] = text(proc[p].snap, proc[p].off, proc[p].size)
        /\ proc[p].off = proc[p].size
        /\ \A q \in Procs : saving(q) => q = p
    BY <1>1, <1>2, <1>8 DEF SaveOK
  <2>2. \A q \in Procs : ~saving(q)'
    BY <2>1, <1>5
  <2>3. good' = proc[p].snap /\ data'[path'] = text(good', proc[p].size, proc[p].size)
    BY <2>1, <1>3, <1>8
  <2>4. FileOK'
    BY <2>3, <1>2, <1>3, <1>6 DEF FileOK, TypeOK
  <2> QED
    BY <2>2, <2>4, <1>3, <1>7 DEF SaveIInv, SaveOK
<1>9. CASE ~proc[p].intact
  <2>1. good' = Damaged
    BY <1>3, <1>9
  <2>2. FileOK'
    BY <2>1 DEF FileOK
  <2>3. ASSUME NEW q \in Procs PROVE SaveOK(q)'
    <3> SUFFICES ASSUME saving(q)' PROVE SaveOK(q)'
      BY DEF SaveOK
    <3>1. q # p /\ saving(q) /\ proc'[q] = proc[q]
      BY <1>5
    <3>2. ~proc[q].intact
      BY <3>1, <1>1, <1>2 DEF SaveOK
    <3> QED
      BY <2>1, <3>1, <3>2, <1>1, <1>3 DEF SaveOK
  <2> QED
    BY <2>2, <2>3, <1>3, <1>7 DEF SaveIInv
<1> QED
  BY <1>8, <1>9

\* Every step keeps the invariant.
LEMMA SaveStep == SaveIInv /\ [Next]_vars => SaveIInv'
<1> SUFFICES ASSUME SaveIInv, [Next]_vars PROVE SaveIInv'
  OBVIOUS
<1>1. TypeOK
  BY DEF SaveIInv
<1>2. ASSUME NEW p \in Procs, NEW n \in 1..MaxBlocks, save_locked(p, n) PROVE SaveIInv'
  BY <1>2, SaveOpen DEF save_locked, saving
<1>3. ASSUME NEW p \in Procs, save_write(p) PROVE SaveIInv'
  BY <1>3, SaveWrite
<1>4. ASSUME NEW p \in Procs, save_short(p) PROVE SaveIInv'
  BY <1>4, SaveShort
<1>5. ASSUME NEW p \in Procs, save_rename(p) PROVE SaveIInv'
  BY <1>5, SaveRename
<1>6. ASSUME NEW p \in Procs, save_throw(p) PROVE SaveIInv'
  BY <1>1, <1>6, SaveLeave, Zenon DEF save_throw, TypeOK
<1>7. ASSUME NEW p \in Procs, load_or_init(p) PROVE SaveIInv'
  <2>1. ~saving(p)
    BY <1>7 DEF load_or_init, saving
  <2>2. ASSUME NEW n \in 1..MaxBlocks, save_open(p, n) PROVE SaveIInv'
    BY <2>1, <2>2, SaveOpen
  <2>3. CASE /\ proc' = [proc EXCEPT ![p] = Up]
             /\ UNCHANGED <<path, tmp, data, reload, saves, good>>
    BY <1>1, <2>3, SaveLeave, Zenon DEF TypeOK
  <2> QED
    BY <1>7, <2>2, <2>3 DEF load_or_init
<1>8. ASSUME NEW p \in Procs, crash(p) PROVE SaveIInv'
  <2>1. NoReload \in Reload
    BY DEF NoReload, Reload
  <2>2. reload' \in Reload
    BY <1>1, <1>8, <2>1 DEF crash, TypeOK
  <2> QED
    BY <1>8, <2>2, SaveLeave, Zenon DEF crash
<1>9. ASSUME reload' \in Reload, UNCHANGED <<path, tmp, data, proc, saves, good>>
      PROVE  SaveIInv'
  BY <1>9 DEF SaveIInv, TypeOK, SaveOK, FileOK, saving
<1>10. CASE reload_open
  <2>1. reload' = [ino |-> path, seen |-> <<>>, from |-> good] /\ path \in Inodes
    BY <1>1, <1>10 DEF reload_open, TypeOK
  <2>2. reload' \in Reload
    BY <2>1, <1>1 DEF Reload, TypeOK
  <2> QED
    BY <2>2, <1>9, <1>10 DEF reload_open
<1>11. CASE reload_block
  <2>1. reload.ino \in Inodes /\ reload \in Reload
    BY <1>1, <1>11 DEF reload_block, TypeOK, Reload
  <2>2. /\ data[reload.ino] \in Seq(Block) /\ reload.seen \in Seq(Block)
        /\ Len(reload.seen) < Len(data[reload.ino])
    BY <2>1, <1>1, <1>11 DEF reload_block, at_end, TypeOK, Reload
  <2>3. data[reload.ino][Len(reload.seen) + 1] \in Block
    BY <2>2, SeqParts
  <2>4. Append(reload.seen, data[reload.ino][Len(reload.seen) + 1]) \in Seq(Block)
    BY <2>2, <2>3, Pushed
  <2>5. reload' \in Reload
    BY <2>1, <2>4, <1>11, Zenon DEF reload_block, Reload
  <2> QED
    BY <2>5, <1>9, <1>11 DEF reload_block
<1>12. CASE reload_done
  <2>1. reload' \in Reload
    BY <1>12 DEF reload_done, NoReload, Reload
  <2> QED
    BY <2>1, <1>9, <1>12 DEF reload_done
<1>13. CASE UNCHANGED vars
  BY <1>1, <1>9, <1>13 DEF vars, TypeOK
<1> QED
  BY <1>2, <1>3, <1>4, <1>5, <1>6, <1>7, <1>8, <1>10, <1>11, <1>12, <1>13
  DEF Next, ProcNext

-----------------------------------------------------------------------------
\* Unless the last save was disturbed, the state file is its snapshot.
LEMMA FileIsGood ==
    ASSUME SaveIInv
    PROVE  good # Damaged => contents(path) = good
<1>1. TypeOK /\ FileOK
  BY DEF SaveIInv
<1>2. CASE good = Absent
  BY <1>1, <1>2 DEF FileOK, contents
<1>3. CASE good \in Nat
  <2>1. PICK n \in 1..MaxBlocks : data[path] = text(good, n, n)
    BY <1>1, <1>3 DEF FileOK
  <2>2. path \in Inodes /\ good \in Nat \ {0} /\ n \in Nat \ {0}
    BY <1>1, <1>3 DEF FileOK, TypeOK
  <2> QED
    BY <2>1, <2>2, TextParses
<1> QED
  BY <1>1, <1>2, <1>3 DEF TypeOK

\* The invariant holds throughout: whatever processes save, overlap, fail and
\* die, a save that nothing disturbs has the temporary file to itself.
THEOREM SaveInductive == Spec => []SaveIInv
<1>1. Init => SaveIInv
  BY SaveInit
<1>2. SaveIInv /\ [Next]_vars => SaveIInv'
  BY SaveStep
<1> QED
  BY <1>1, <1>2, PTL DEF Spec

\* The state file always holds the snapshot of the last save that was not
\* disturbed: a failed or interrupted save leaves it alone (save_locked).
THEOREM LastSaveKept == Spec => []LastSaveStands
<1>1. SaveIInv => LastSaveStands
  BY FileIsGood DEF LastSaveStands
<1> QED
  BY <1>1, SaveInductive, PTL

\* A process that finds no state file while it starts is the first, or follows
\* a save that was disturbed (load_or_init).
LEMMA FreshStep ==
    ASSUME SaveIInv, [Next]_vars
    PROVE  [\A p \in Procs : proc[p].pc = "down" /\ proc'[p].pc = "write"
               => good \in {Absent, Damaged}]_proc
<1> SUFFICES ASSUME NEW p \in Procs, proc[p].pc = "down", proc'[p].pc = "write"
             PROVE  good \in {Absent, Damaged}
  OBVIOUS
<1>1. proc \in [Procs -> Proc]
  BY DEF SaveIInv, TypeOK
<1>2. load_or_init(p) \/ \E q \in Procs : q # p /\ ProcNext(q)
  BY <1>1, Zenon DEF Next, ProcNext, vars, save_locked, save_write, save_short, save_rename,
     save_throw, crash, reload_open, reload_block, reload_done
<1>3. ASSUME NEW q \in Procs, q # p, ProcNext(q) PROVE FALSE
  <2>1. proc[p] \in Proc
    BY <1>1
  <2>2. ASSUME NEW n, save_open(q, n) PROVE FALSE
    <3>1. proc'[p] = [proc[p] EXCEPT !.intact = FALSE]
      BY <1>3, <2>2 DEF save_open
    <3> QED
      BY <2>1, <3>1 DEF Proc
  <2> QED
    BY <1>1, <1>3, <2>2
    DEF ProcNext, save_locked, save_write, save_short, save_rename, save_throw, load_or_init,
        crash
<1>4. ASSUME load_or_init(p) PROVE contents(path) = Absent
  <2>1. proc'[p] # Up
    BY DEF Up
  <2> QED
    BY <1>1, <1>4, <2>1 DEF load_or_init
<1> QED
  BY <1>2, <1>3, <1>4, FileIsGood DEF SaveIInv, TypeOK

\* A process takes the state file for that of a first start only when no save
\* has ended, or the last one was disturbed.
THEOREM FreshStartFirst == Spec => FreshOnlyFirst
<1>1. SaveIInv /\ [Next]_vars =>
          [\A p \in Procs : proc[p].pc = "down" /\ proc'[p].pc = "write"
               => good \in {Absent, Damaged}]_proc
  BY FreshStep
<1> QED
  BY <1>1, SaveInductive, PTL DEF Spec, FreshOnlyFirst

-----------------------------------------------------------------------------
\* The step of ReloadOK: an inode that is being read is neither reused nor
\* written to.
LEMMA ReloadStep ==
    ASSUME SaveIInv, ReloadOK, [Next]_vars
    PROVE  ReloadOK'
<1>0. /\ TypeOK /\ FileOK /\ \A p \in Procs : SaveOK(p)
      /\ tmp # None => tmp # path
      /\ reload \in Reload /\ proc \in [Procs -> Proc] /\ data \in [Inodes -> Seq(Block)]
  BY DEF SaveIInv, TypeOK
<1>1. SUFFICES ASSUME reload'.from \in Nat
               PROVE  ReloadOK'
  BY DEF ReloadOK
<1> DEFINE f == reload.ino
<1>2. ASSUME reload' = reload, tmp' = tmp \/ tmp' # f, data'[f] = data[f],
             \A p \in Procs : saving(p)' =>
                 (saving(p) /\ proc'[p].ino = proc[p].ino) \/ proc'[p].ino # f
      PROVE  ReloadOK'
  BY <1>1, <1>2 DEF ReloadOK
<1>3. reload' = reload => f \in Inodes /\ f # tmp /\ \A p \in Procs : saving(p) => proc[p].ino # f
  BY <1>1 DEF ReloadOK
<1>4. Up.pc = "idle" /\ Down.pc = "down"
  BY DEF Up, Down
<1>5. ASSUME NEW p \in Procs, NEW n, save_open(p, n) PROVE ReloadOK'
  <2>1. reload' = reload
    BY <1>5 DEF save_open
  <2>2. PICK g \in Inodes :
        /\ IF tmp = None THEN unused(g) ELSE g = tmp
        /\ tmp' = g
        /\ data' = [data EXCEPT ![g] = <<>>]
        /\ proc' = [q \in Procs |->
               IF q # p THEN [proc[q] EXCEPT !.intact = FALSE]
               ELSE [pc |-> "write", snap |-> saves + 1, size |-> n, ino |-> g, off |-> 0,
                     intact |-> \A x \in Procs : ~saving(x)]]
    BY <1>5, Zenon DEF save_open
  <2>3. g # f
    BY <1>3, <2>1, <2>2 DEF unused
  <2>4. data'[f] = data[f]
    BY <1>0, <1>3, <2>1, <2>2, <2>3
  <2>5. ASSUME NEW q \in Procs, q # p, saving(q)' PROVE saving(q) /\ proc'[q].ino = proc[q].ino
    <3>1. proc'[q] = [proc[q] EXCEPT !.intact = FALSE] /\ proc[q] \in Proc
      BY <1>0, <2>2, <2>5
    <3> QED
      BY <2>5, <3>1 DEF saving, Proc
  <2>6. proc'[p].ino = g
    BY <2>2
  <2> QED
    BY <1>2, <2>1, <2>2, <2>3, <2>4, <2>5, <2>6
<1>6. ASSUME NEW p \in Procs, save_write(p) PROVE ReloadOK'
  <2>1. saving(p) /\ reload' = reload /\ tmp' = tmp
    BY <1>6 DEF save_write, saving
  <2>2. data'[f] = data[f]
    BY <1>0, <1>3, <1>6, <2>1 DEF save_write
  <2>3. ASSUME NEW q \in Procs, saving(q)' PROVE saving(q) /\ proc'[q].ino = proc[q].ino
    <3>1. proc[q] \in Proc
      BY <1>0
    <3> QED
      BY <1>0, <1>6, <2>1, <2>3, <3>1 DEF save_write, saving, Proc
  <2> QED
    BY <1>2, <2>1, <2>2, <2>3
<1>7. ASSUME NEW p \in Procs, save_short(p) PROVE ReloadOK'
  <2>1. saving(p) /\ reload' = reload /\ tmp' = tmp /\ data' = data
    BY <1>7 DEF save_short, saving
  <2>2. ASSUME NEW q \in Procs, saving(q)' PROVE saving(q) /\ proc'[q].ino = proc[q].ino
    <3>1. proc[q] \in Proc
      BY <1>0
    <3> QED
      BY <1>0, <1>7, <2>1, <2>2, <3>1 DEF save_short, saving, Proc
  <2> QED
    BY <1>2, <2>1, <2>2
<1>8. ASSUME NEW p \in Procs, proc' = [proc EXCEPT ![p] = Up] \/ proc' = [proc EXCEPT ![p] = Down],
             reload' = reload, data' = data, tmp' = tmp \/ tmp' = None
      PROVE  ReloadOK'
  <2>1. \A q \in Procs : saving(q)' => saving(q) /\ proc'[q] = proc[q]
    BY <1>0, <1>4, <1>8 DEF saving
  <2>2. tmp' = tmp \/ tmp' # f
    BY <1>3, <1>8
  <2> QED
    BY <1>2, <1>8, <2>1, <2>2
<1>9. ASSUME NEW p \in Procs, ProcNext(p) PROVE ReloadOK'
  <2>1. NoReload.from \notin Nat
    BY DEF NoReload
  <2>2. CASE crash(p)
    BY <1>1, <1>8, <2>1, <2>2, Zenon DEF crash
  <2>3. CASE load_or_init(p)
    BY <1>5, <1>8, <2>3 DEF load_or_init
  <2>4. CASE save_rename(p) \/ save_throw(p)
    BY <1>8, <2>4 DEF save_rename, save_throw
  <2> QED
    BY <1>5, <1>6, <1>7, <1>9, <2>2, <2>3, <2>4 DEF ProcNext, save_locked
<1>10. CASE reload_open
  <2>1. /\ reload' = [ino |-> path, seen |-> <<>>, from |-> good]
        /\ path # None /\ tmp' = tmp /\ proc' = proc /\ data' = data
    BY <1>10 DEF reload_open
  <2>2. good \in Nat /\ good # Damaged /\ path \in Inodes /\ path # tmp
    BY <1>0, <1>1, <2>1 DEF TypeOK
  <2>3. \A p \in Procs : saving(p) => proc[p].ino # path
    BY <1>0, <2>2 DEF SaveOK
  <2>4. good # 0
    BY <1>0, <2>2 DEF FileOK
  <2>5. PICK n \in 1..MaxBlocks : data[path] = text(good, n, n)
    BY <1>0, <2>2 DEF FileOK
  <2>6. Len(<<>>) = 0 /\ text(good, 0, n) = <<>>
    BY DEF text
  <2>7. /\ reload'.ino = path /\ reload'.seen = <<>> /\ reload'.from = good
    BY <2>1
  <2>8. /\ data'[reload'.ino] = text(reload'.from, n, n)
        /\ Len(reload'.seen) <= n
        /\ reload'.seen = text(reload'.from, Len(reload'.seen), n)
    BY <2>1, <2>5, <2>6, <2>7
  <2> QED
    BY <2>1, <2>2, <2>3, <2>4, <2>7, <2>8 DEF saving, ReloadOK
<1>11. CASE reload_block
  <2> DEFINE k == Len(reload.seen)
  <2>1. /\ reload' = [reload EXCEPT !.seen = Append(reload.seen, data[f][k + 1])]
        /\ tmp' = tmp /\ proc' = proc /\ data' = data
        /\ ~(k >= Len(data[f]))
    BY <1>11 DEF reload_block, at_end
  <2>2. /\ reload'.ino = f /\ reload'.from = reload.from
        /\ reload'.seen = Append(reload.seen, data[f][k + 1])
    BY <1>0, <2>1 DEF Reload
  <2>3. PICK n \in 1..MaxBlocks :
               /\ data[f] = text(reload.from, n, n)
               /\ k <= n
               /\ reload.seen = text(reload.from, k, n)
    BY <1>1, <2>2 DEF ReloadOK
  <2>4. reload.from \in Nat /\ n \in Nat /\ k \in Nat
    BY <1>0, <1>1, <2>2, SeqParts DEF Reload
  <2>5. Len(data[f]) = n /\ \A i \in 1..n : data[f][i] = <<reload.from, i, n>>
    <3>1. /\ Len(text(reload.from, n, n)) = n
          /\ \A i \in 1..n : text(reload.from, n, n)[i] = <<reload.from, i, n>>
      BY <2>4, TextSeq, Zenon
    <3> QED
      BY <2>3, <3>1, Zenon
  <2>6. k + 1 <= n /\ data[f][k + 1] = <<reload.from, k + 1, n>>
    <3>1. k + 1 <= n /\ k + 1 \in 1..n
      BY <2>1, <2>4, <2>5
    <3> QED
      BY <2>5, <3>1
  <2>7. reload'.seen = text(reload.from, k + 1, n)
    <3>1. reload'.seen = Append(text(reload.from, k, n), <<reload.from, k + 1, n>>)
      BY <2>2, <2>3, <2>6
    <3> QED
      BY <2>4, <3>1, ReadNext, Zenon
  <2>8. Len(reload'.seen) = k + 1
    <3>1. k + 1 \in Nat
      BY <2>4
    <3>2. Len(text(reload.from, k + 1, n)) = k + 1
      BY <2>4, <3>1, TextSeq, Zenon
    <3> QED
      BY <2>7, <3>2, Zenon
  <2>9. /\ data'[reload'.ino] = text(reload'.from, n, n)
        /\ Len(reload'.seen) <= n
        /\ reload'.seen = text(reload'.from, Len(reload'.seen), n)
    BY <2>1, <2>2, <2>3, <2>6, <2>7, <2>8
  <2> QED
    BY <1>1, <2>1, <2>2, <2>9, Zenon DEF ReloadOK, saving
<1>12. CASE reload_done
  <2>1. reload'.from = Absent
    BY <1>12 DEF reload_done, NoReload
  <2> QED
    BY <1>1, <2>1
<1>13. CASE UNCHANGED vars
  BY <1>2, <1>13 DEF vars, saving
<1> QED
  BY <1>9, <1>10, <1>11, <1>12, <1>13 DEF Next

\* A reload that opened the file between undisturbed saves reads the whole
\* snapshot that was there, however many saves replace the file while
\* reload_keys_from_disk reads it without the lock.
THEOREM ReloadReadsWhole == Spec => []ReloadWhole
<1>1. Init => ReloadOK
  BY DEF Init, NoReload, ReloadOK
<1>2. SaveIInv /\ ReloadOK /\ [Next]_vars => ReloadOK'
  BY ReloadStep
<1>3. SaveIInv /\ ReloadOK => ReloadWhole
  <2> SUFFICES ASSUME SaveIInv, ReloadOK, reload.from \in Nat, at_end
               PROVE  parses(reload.seen) /\ reload.seen[1][1] = reload.from
    BY DEF ReloadWhole
  <2>1. PICK n \in 1..MaxBlocks :
               /\ data[reload.ino] = text(reload.from, n, n)
               /\ Len(reload.seen) <= n
               /\ reload.seen = text(reload.from, Len(reload.seen), n)
    BY DEF ReloadOK
  <2>2. reload.from \in Nat \ {0} /\ n \in Nat \ {0} /\ Len(reload.seen) \in Nat
    BY SeqParts DEF ReloadOK, SaveIInv, TypeOK, Reload
  <2>3. Len(data[reload.ino]) = n
    <3>1. Len(text(reload.from, n, n)) = n
      BY <2>2, TextSeq, Zenon
    <3> QED
      BY <2>1, <3>1, Zenon
  <2>4. Len(reload.seen) = n
    BY <2>1, <2>2, <2>3 DEF at_end
  <2>5. reload.seen = text(reload.from, n, n)
    BY <2>1, <2>4
  <2> QED
    BY <2>2, <2>5, TextWhole, Zenon
<1> QED
  BY <1>1, <1>2, <1>3, SaveInductive, PTL DEF Spec

-----------------------------------------------------------------------------
\* The files implement the register that Store takes its disk for: Init maps to
\* an absent file, an undisturbed rename to replace, a disturbed one, which
\* needs overlapping saves or a full disk, to damage, and every other step to
\* a stutter.
THEOREM FileImplementsRegister == Spec => AtomicRegister
<1> DEFINE bar == IF good = Damaged THEN Damaged ELSE contents(path)
<1>1. Init => Register!Init
  BY DEF Init, Register!Init, contents
<1>2. SaveIInv => bar = good
  BY FileIsGood
<1>2p. SaveIInv' => (bar = good)'
  BY <1>2, PTL
<1>3. ASSUME SaveIInv, SaveIInv', [Next]_vars PROVE [Register!Next]_bar
  <2>1. bar = good
    BY <1>2, <1>3
  <2>2. bar' = good'
    BY <1>2p, <1>3
  <2>3. ASSUME NEW p \in Procs, save_rename(p) PROVE Register!Next
    <3>1. good' = IF proc[p].intact THEN proc[p].snap ELSE Damaged
      BY <2>3 DEF save_rename
    <3>2. saving(p) /\ SaveOK(p)
      BY <1>3, <2>3 DEF save_rename, saving, SaveIInv
    <3>3. CASE proc[p].intact
      <4>1. good' \in Nat /\ (good \in Nat => good' > good)
        BY <3>1, <3>2, <3>3 DEF SaveOK
      <4> QED
        BY <4>1, <2>1, <2>2 DEF Register!Next, Register!replace
    <3>4. CASE ~proc[p].intact
      <4>1. good' = Damaged /\ (Overlap \/ DiskMayFill)
        BY <3>1, <3>2, <3>4 DEF SaveOK
      <4> QED
        BY <4>1, <2>2 DEF Register!Next, Register!damage
    <3> QED
      BY <3>3, <3>4
  <2>4. CASE \A p \in Procs : ~save_rename(p)
    <3>1. good' = good
      BY <1>3, <2>4, Zenon DEF Next, ProcNext, vars, save_locked, save_open, save_write, save_short,
         save_throw, load_or_init, crash, reload_open, reload_block, reload_done
    <3> QED
      BY <3>1, <2>1, <2>2
  <2> QED
    BY <2>3, <2>4
<1> QED
  BY <1>1, <1>3, SaveInductive, PTL DEF Spec, AtomicRegister, Register!Spec
=============================================================================
