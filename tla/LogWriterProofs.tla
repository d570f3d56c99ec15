--------------------------- MODULE LogWriterProofs ---------------------------
(***************************************************************************)
(* Proofs about LogWriter for any lines, inodes and writers: its types;    *)
(* and that one writer, in a directory that is on disk, implements the     *)
(* append-only log of ClaimLog, so that no acknowledged line is lost.      *)
(***************************************************************************)
EXTENDS LogWriter, SequenceTheorems, FiniteSetTheorems, TLAPS

-----------------------------------------------------------------------------
(* write(2) *)

\* A write leaves lines and holes.
LEMMA WriteType ==
  ASSUME NEW old \in Content, NEW off \in Nat, NEW new \in Content
  PROVE  WriteAt(old, off, new) \in Content
<1> DEFINE m == Len(old)
           k == Len(new)
           S == Line \cup {Hole}
<1>1. /\ m \in Nat /\ k \in Nat
      /\ \A i \in 1..m : old[i] \in S
      /\ \A i \in 1..k : new[i] \in S
  BY LenProperties, ElementOfSeq DEF Content
<1> DEFINE len == IF off + k > m THEN off + k ELSE m
           at(i) == IF i > off /\ i <= off + k THEN new[i - off]
                    ELSE IF i <= m THEN old[i] ELSE Hole
<1>2. WriteAt(old, off, new) = [i \in 1..len |-> at(i)]
  BY Zenon DEF WriteAt
<1> HIDE DEF m, k
<1>3. len \in Nat
  BY <1>1
<1>4. ASSUME NEW i \in 1..len  PROVE at(i) \in S
  <2>1. i > off /\ i <= off + k => i - off \in 1..k
    BY <1>1, <1>3
  <2>2. i <= m => i \in 1..m
    BY <1>1, <1>3
  <2> QED  BY <1>1, <2>1, <2>2
<1>5. [i \in 1..len |-> at(i)] \in [1..len -> S]
  BY <1>4
<1> HIDE DEF at, len
<1>6. [i \in 1..len |-> at(i)] \in Seq(S)
  BY <1>3, <1>5
<1> QED  BY <1>2, <1>6 DEF Content

\* Into an empty file, the copy of the log is the log.
LEMMA WriteCopy ==
  ASSUME NEW new \in Content
  PROVE  WriteAt(<<>>, 0, new) = new
<1> DEFINE k == Len(new)
           e == <<>>
           m == Len(e)
<1>1. k \in Nat /\ new = [i \in 1..k |-> new[i]] /\ m = 0
  BY LenProperties DEF Content
<1>2. WriteAt(e, 0, new) =
        [i \in 1..(IF 0 + k > m THEN 0 + k ELSE m) |->
           IF i > 0 /\ i <= 0 + k THEN new[i - 0] ELSE IF i <= m THEN e[i] ELSE Hole]
  BY Zenon DEF WriteAt
<1> HIDE DEF k, m, e
<1>3. (IF 0 + k > m THEN 0 + k ELSE m) = k
  BY <1>1
<1>4. ASSUME NEW i \in 1..k
      PROVE  (IF i > 0 /\ i <= 0 + k THEN new[i - 0] ELSE IF i <= m THEN e[i] ELSE Hole)
               = new[i]
  BY <1>1
<1>5. WriteAt(e, 0, new) = [i \in 1..k |-> new[i]]
  BY <1>2, <1>3, <1>4
<1> QED  BY <1>1, <1>5 DEF e

\* At the end of the copy, the line is appended.
LEMMA WriteEnd ==
  ASSUME NEW old \in Content, NEW l \in Line
  PROVE  WriteAt(old, Len(old), <<l>>) = Append(old, l)
<1> DEFINE m == Len(old)
           S == Line \cup {Hole}
           t == Append(old, l)
<1>1. /\ t \in Seq(S) /\ Len(t) = m + 1
      /\ \A i \in 1..m : t[i] = old[i]
      /\ t[m + 1] = l
  BY AppendProperties DEF Content
<1>2. m \in Nat /\ t = [i \in 1..(m + 1) |-> t[i]]
  BY <1>1, LenProperties DEF Content
<1>3. Len(<<l>>) = 1 /\ <<l>>[1] = l
  OBVIOUS
<1>4. WriteAt(old, m, <<l>>) =
        [i \in 1..(IF m + 1 > m THEN m + 1 ELSE m) |->
           IF i > m /\ i <= m + 1 THEN <<l>>[i - m]
           ELSE IF i <= m THEN old[i] ELSE Hole]
  BY Zenon, <1>3 DEF WriteAt
<1> HIDE DEF m, t
<1>5. WriteAt(old, m, <<l>>) = [i \in 1..(m + 1) |-> t[i]]
  <2>1. (IF m + 1 > m THEN m + 1 ELSE m) = m + 1
    BY <1>2
  <2>2. ASSUME NEW i \in 1..(m + 1)
        PROVE  (IF i > m /\ i <= m + 1 THEN <<l>>[i - m]
                ELSE IF i <= m THEN old[i] ELSE Hole) = t[i]
    <3>1. CASE i = m + 1
      <4>1. i - m = 1 /\ i > m /\ i <= m + 1
        BY <1>2, <3>1
      <4> QED  BY <1>1, <1>3, <3>1, <4>1
    <3>2. CASE i # m + 1
      <4>1. i \in 1..m /\ ~(i > m) /\ i <= m
        BY <1>2, <3>2
      <4> QED  BY <1>1, <4>1
    <3> QED  BY <3>1, <3>2
  <2> QED  BY <1>4, <2>1, <2>2
<1> QED  BY <1>2, <1>5 DEF m, t

-----------------------------------------------------------------------------
(* Types *)

\* A writer at work has its line, and while it writes, its descriptor.
Holds(w) ==
  /\ pc[w] # "idle" => line[w] \in tried
  /\ pc[w] \in {"copy", "write", "sync"} => fd[w] \in Inode

TypesInv == TypeOK /\ \A w \in Writer : Holds(w)

\* Directories and descriptors refer to fewer inodes than there are.
LEMMA FreeInode ==
  ASSUME TypeOK
  PROVE  (CHOOSE j \in Inode : j \notin InUse) \in Inode \ InUse
<1> DEFINE held == {fd[w] : w \in Writer}
           A == held \cup {dir.log}
           B == A \cup {dir.tmp}
           C == B \cup {diskDir.log}
           D == C \cup {diskDir.tmp}
<1>1. IsFiniteSet(Writer) /\ Cardinality(Writer) \in Nat
  BY LogWriterAssumption, FS_CardinalityType
<1>2. fd \in Surjection(Writer, held)
  BY DEF Surjection, TypeOK
<1>3. IsFiniteSet(held) /\ Cardinality(held) <= Cardinality(Writer) /\ Cardinality(held) \in Nat
  BY <1>1, <1>2, FS_Surjection, FS_CardinalityType
<1> HIDE DEF held
<1>4. IsFiniteSet(A) /\ Cardinality(A) <= Cardinality(Writer) + 1 /\ Cardinality(A) \in Nat
  BY <1>1, <1>3, FS_AddElement
<1> HIDE DEF A
<1>5. IsFiniteSet(B) /\ Cardinality(B) <= Cardinality(Writer) + 2 /\ Cardinality(B) \in Nat
  BY <1>1, <1>4, FS_AddElement
<1> HIDE DEF B
<1>6. IsFiniteSet(C) /\ Cardinality(C) <= Cardinality(Writer) + 3 /\ Cardinality(C) \in Nat
  BY <1>1, <1>5, FS_AddElement
<1> HIDE DEF C
<1>7. IsFiniteSet(D) /\ Cardinality(D) <= Cardinality(Writer) + 4 /\ Cardinality(D) \in Nat
  <2>1. /\ IsFiniteSet(D)
        /\ Cardinality(D) = IF diskDir.tmp \in C THEN Cardinality(C) ELSE Cardinality(C) + 1
    BY <1>6, FS_AddElement
  <2> HIDE DEF D
  <2> QED  BY <1>1, <1>6, <2>1
<1>8. InUse = D
  BY DEF InUse, A, B, C, held
<1> HIDE DEF D
<1>9. ~(Inode \subseteq D)
  <2> SUFFICES ASSUME Inode \subseteq D PROVE FALSE
    OBVIOUS
  <2>1. IsFiniteSet(Inode) /\ Cardinality(Inode) <= Cardinality(D) /\ Cardinality(Inode) \in Nat
    BY <1>7, FS_Subset, FS_CardinalityType
  <2> QED  BY <1>1, <1>7, <2>1, LogWriterAssumption
<1> QED  BY <1>8, <1>9

LEMMA EmptyContent == <<>> \in Content
BY EmptySeq DEF Content

LEMMA ReadContent ==
  ASSUME NEW d \in Entries, NEW content \in [Inode -> Content]
  PROVE  Read(d, content) \in Content
BY EmptyContent DEF Read, Entries

LEMMA ReadExistingTypes ==
  ASSUME TypesInv, NEW w \in Writer, NEW l \in Line, ReadExisting(w, l)
  PROVE  TypesInv'
<1>1. Visible \in Content
  BY ReadContent DEF TypesInv, TypeOK, Visible
<1>2. TypeOK'
  BY <1>1 DEF TypesInv, TypeOK, ReadExisting, Goto, Steps
<1>3. \A v \in Writer : Holds(v)'
  BY DEF TypesInv, TypeOK, Holds, ReadExisting, Goto, Steps
<1> QED  BY <1>2, <1>3 DEF TypesInv

LEMMA OpenTmpTypes ==
  ASSUME TypesInv, NEW w \in Writer, OpenTmp(w)
  PROVE  TypesInv'
<1> DEFINE i == IF dir.tmp # NoFile THEN dir.tmp ELSE CHOOSE j \in Inode : j \notin InUse
<1>1. i \in Inode
  BY FreeInode DEF TypesInv, TypeOK, Entries
<1>2. /\ inode' = [inode EXCEPT ![i] = <<>>]
      /\ disk' = disk \/ disk' = [disk EXCEPT ![i] = <<>>]
      /\ dir' = [dir EXCEPT !.tmp = i]
      /\ fd' = [fd EXCEPT ![w] = i]
  BY Zenon DEF OpenTmp
<1> HIDE DEF i
<1>3. inode' \in [Inode -> Content] /\ disk' \in [Inode -> Content]
  BY <1>1, <1>2, EmptyContent DEF TypesInv, TypeOK
<1>4. dir' \in Entries
  BY <1>1, <1>2 DEF TypesInv, TypeOK, Entries
<1>5. fd' \in [Writer -> Inode \cup {NoFile}] /\ fd'[w] = i
  BY <1>1, <1>2 DEF TypesInv, TypeOK
<1>6. pc' \in [Writer -> Steps]
  BY DEF TypesInv, TypeOK, OpenTmp, Goto, Steps
<1>7. TypeOK'
  BY <1>3, <1>4, <1>5, <1>6 DEF TypesInv, TypeOK, OpenTmp
<1>8. ASSUME NEW v \in Writer  PROVE Holds(v)'
  <2>1. CASE v = w
    BY <1>1, <1>5, <2>1 DEF TypesInv, TypeOK, Holds, OpenTmp, Goto
  <2>2. CASE v # w
    BY <1>2, <2>2 DEF TypesInv, TypeOK, Holds, OpenTmp, Goto
  <2> QED  BY <2>1, <2>2
<1> QED  BY <1>7, <1>8 DEF TypesInv

\* A write into the descriptor leaves everything else.
LEMMA WriteTypes ==
  ASSUME TypesInv, NEW w \in Writer, NEW new \in Content, NEW at \in {"write", "sync"},
         inode' = [inode EXCEPT ![fd[w]] = new],
         pc[w] \in {"copy", "write"}, Goto(w, at),
         UNCHANGED <<disk, dir, diskDir, line, existing, fd, tried, acked>>
  PROVE  TypesInv'
<1>1. inode' \in [Inode -> Content] /\ pc' \in [Writer -> Steps]
  BY DEF TypesInv, TypeOK, Goto, Steps
<1>2. TypeOK'
  BY <1>1 DEF TypesInv, TypeOK
<1>3. \A v \in Writer : Holds(v)'
  BY DEF TypesInv, TypeOK, Holds, Goto
<1> QED  BY <1>2, <1>3 DEF TypesInv

LEMMA WritesTypes ==
  ASSUME TypesInv, NEW w \in Writer, WriteExisting(w) \/ WriteLine(w)
  PROVE  TypesInv'
<1>1. fd[w] \in Inode /\ existing[w] \in Content /\ inode[fd[w]] \in Content
      /\ line[w] \in Line
  <2>1. pc[w] \in {"copy", "write"}
    BY DEF WriteExisting, WriteLine
  <2> QED  BY <2>1 DEF TypesInv, TypeOK, Holds
<1>2. CASE WriteExisting(w)
  <2> DEFINE new == WriteAt(inode[fd[w]], 0, existing[w])
  <2>1. new \in Content
    BY <1>1, WriteType
  <2>2. inode' = [inode EXCEPT ![fd[w]] = new]
    BY Zenon, <1>2 DEF WriteExisting
  <2> HIDE DEF new
  <2> QED  BY <1>2, <2>1, <2>2, WriteTypes DEF WriteExisting
<1>3. CASE WriteLine(w)
  <2> DEFINE new == WriteAt(inode[fd[w]], Len(existing[w]), <<line[w]>>)
  <2>1. new \in Content
    <3>1. <<line[w]>> \in Content
      BY <1>1 DEF Content
    <3>2. Len(existing[w]) \in Nat
      BY <1>1, LenProperties DEF Content
    <3> QED  BY Zenon, <1>1, <3>1, <3>2, WriteType
  <2>2. inode' = [inode EXCEPT ![fd[w]] = new]
    BY Zenon, <1>3 DEF WriteLine
  <2> HIDE DEF new
  <2> QED  BY <1>3, <2>1, <2>2, WriteTypes DEF WriteLine
<1> QED  BY <1>2, <1>3

\* The rest of an append, and its early end.
LEMMA EndsTypes ==
  ASSUME TypesInv, NEW w \in Writer,
         SyncTmp(w) \/ Rename(w) \/ SyncDir(w) \/ Abort(w)
  PROVE  TypesInv'
<1>1. CASE SyncTmp(w)
  <2>1. fd[w] \in Inode /\ inode[fd[w]] \in Content
    BY <1>1 DEF SyncTmp, TypesInv, TypeOK, Holds
  <2>2. TypeOK'
    BY <1>1, <2>1 DEF SyncTmp, TypesInv, TypeOK, Goto, Steps
  <2>3. \A v \in Writer : Holds(v)'
    BY <1>1 DEF SyncTmp, TypesInv, TypeOK, Holds, Goto
  <2> QED  BY <2>2, <2>3 DEF TypesInv
<1>2. CASE Rename(w)
  <2>1. TypeOK'
    BY <1>2 DEF Rename, TypesInv, TypeOK, Goto, Steps, Entries
  <2>2. \A v \in Writer : Holds(v)'
    BY <1>2 DEF Rename, TypesInv, TypeOK, Holds, Goto
  <2> QED  BY <2>1, <2>2 DEF TypesInv
<1>3. CASE SyncDir(w) \/ Abort(w)
  <2>1. Release(w) /\ UNCHANGED <<inode, disk, dir, tried>>
        /\ diskDir' \in {diskDir, dir} /\ acked' \in {acked, acked \cup {line[w]}}
        /\ (acked' # acked => line[w] \in tried)
    BY <1>3 DEF SyncDir, Abort, files, TypesInv, Holds
  <2>2. TypeOK'
    BY <2>1, EmptyContent DEF Release, TypesInv, TypeOK, Goto, Steps
  <2>3. \A v \in Writer : Holds(v)'
    BY <2>1 DEF Release, TypesInv, TypeOK, Holds, Goto
  <2> QED  BY <2>2, <2>3 DEF TypesInv
<1> QED  BY <1>1, <1>2, <1>3

\* Write-back and power failure.
LEMMA SystemTypes ==
  ASSUME TypesInv, (\E i \in Inode : FlushInode(i)) \/ FlushDir \/ PowerLoss
  PROVE  TypesInv'
<1>1. ASSUME NEW i \in Inode, FlushInode(i)  PROVE TypesInv'
  BY <1>1 DEF FlushInode, TypesInv, TypeOK, Holds
<1>2. CASE FlushDir
  BY <1>2 DEF FlushDir, TypesInv, TypeOK, Holds
<1>3. CASE PowerLoss
  <2>1. TypeOK'
    BY <1>3, EmptyContent DEF PowerLoss, TypesInv, TypeOK, Entries, Steps
  <2>2. \A v \in Writer : Holds(v)'
    BY <1>3 DEF PowerLoss, Holds
  <2> QED  BY <2>1, <2>2 DEF TypesInv
<1> QED  BY <1>1, <1>2, <1>3

LEMMA InitTypes == Init => TypesInv
BY EmptyContent, LogWriterAssumption DEF Init, TypesInv, TypeOK, Holds, Empty, Entries, Steps

LEMMA StepTypes == TypesInv /\ [Next]_vars => TypesInv'
<1>1. ASSUME TypesInv, Next  PROVE TypesInv'
  BY Zenon, <1>1, ReadExistingTypes, OpenTmpTypes, WritesTypes, EndsTypes, SystemTypes DEF Next, Step
<1>2. ASSUME TypesInv, UNCHANGED vars  PROVE TypesInv'
  BY <1>2 DEF vars, TypesInv, TypeOK, Holds
<1> QED  BY <1>1, <1>2

\* Files hold whole lines and gaps, descriptors are open files, and only what
\* some append was called with is acknowledged, whatever the writers of one
\* asserter do to each other's temporary file (log.rs:127-255).
THEOREM TypeCorrect == Spec => []TypeOK
<1>1. TypesInv => TypeOK
  BY DEF TypesInv
<1> QED  BY <1>1, InitTypes, StepTypes, PTL DEF Spec

-----------------------------------------------------------------------------
(* One writer implements the append-only log *)

OneWriter == \A v, w \in Writer : v = w

\* The file being written is neither the log nor the log on disk, and these two
\* are on disk as they are read.
Apart ==
  /\ dir.tmp # NoFile => dir.tmp \notin {dir.log, diskDir.log}
  /\ diskDir.tmp # NoFile => diskDir.tmp # diskDir.log
  /\ dir.log # NoFile => disk[dir.log] = inode[dir.log]
  /\ diskDir.log # NoFile => disk[diskDir.log] = inode[diskDir.log]

\* What the temporary file holds, by how far the append has got.
Appending(w) ==
  /\ pc[w] \in {"open", "copy", "write", "sync", "rename"} => existing[w] = Visible
  /\ pc[w] \in {"copy", "write", "sync"} => fd[w] = dir.tmp
  /\ pc[w] = "copy" => inode[dir.tmp] = <<>>
  /\ pc[w] = "write" => inode[dir.tmp] = existing[w]
  /\ pc[w] \in {"sync", "rename"} => inode[dir.tmp] = Append(existing[w], line[w])
  /\ pc[w] = "rename" => dir.tmp # NoFile /\ disk[dir.tmp] = inode[dir.tmp]
  /\ pc[w] = "syncdir" => line[w] \in ToSet(Visible)

LogInv == TypesInv /\ Apart /\ \A w \in Writer : Appending(w)

\* Steps that no reader sees, now or after a power failure.
Unseen == UNCHANGED <<Visible, Durable, acked>>

LEMMA ReadExistingImplements ==
  ASSUME OneWriter, LogInv, NEW w \in Writer, NEW l \in Line, ReadExisting(w, l)
  PROVE  Apart' /\ Appending(w)' /\ Unseen
<1>1. Unseen
  BY DEF ReadExisting, Unseen, Visible, Durable, Read
<1>2. Apart'
  BY DEF ReadExisting, LogInv, Apart
<1>3. existing'[w] = Visible /\ pc'[w] = "open"
  BY DEF ReadExisting, Goto, LogInv, TypesInv, TypeOK
<1> QED  BY <1>1, <1>2, <1>3 DEF Appending, Unseen

\* The temporary file is truncated, or a free inode: not what readers see.
LEMMA OpenTmpImplements ==
  ASSUME OneWriter, LogInv, NEW w \in Writer, OpenTmp(w)
  PROVE  Apart' /\ Appending(w)' /\ Unseen
<1> DEFINE i == IF dir.tmp # NoFile THEN dir.tmp ELSE CHOOSE j \in Inode : j \notin InUse
<1>1. i \in Inode /\ i \notin {dir.log, diskDir.log}
  BY FreeInode DEF LogInv, TypesInv, TypeOK, Entries, Apart, InUse
<1>2. /\ inode' = [inode EXCEPT ![i] = <<>>]
      /\ disk' = disk \/ disk' = [disk EXCEPT ![i] = <<>>]
      /\ dir' = [dir EXCEPT !.tmp = i]
      /\ fd' = [fd EXCEPT ![w] = i]
  BY Zenon DEF OpenTmp
<1> HIDE DEF i
<1>3. dir'.log = dir.log /\ dir'.tmp = i /\ fd'[w] = i /\ inode'[i] = <<>>
  BY <1>1, <1>2 DEF LogInv, TypesInv, TypeOK, Entries
<1>4. ASSUME NEW k \in Inode, k # i
      PROVE  inode'[k] = inode[k] /\ disk'[k] = disk[k]
  BY <1>2, <1>4 DEF LogInv, TypesInv, TypeOK
<1>5. diskDir' = diskDir /\ acked' = acked /\ existing' = existing
      /\ pc[w] = "open" /\ pc'[w] = "copy"
  BY DEF OpenTmp, Goto, LogInv, TypesInv, TypeOK
<1>6. dir.log \in Inode \cup {NoFile} /\ diskDir.log \in Inode \cup {NoFile}
      /\ diskDir.tmp \in Inode \cup {NoFile}
  BY DEF LogInv, TypesInv, TypeOK, Entries
<1>7. Visible' = Visible /\ Durable' = Durable
  BY <1>1, <1>3, <1>4, <1>5, <1>6 DEF Visible, Durable, Read
<1>8. Apart'
  BY <1>1, <1>3, <1>4, <1>5, <1>6 DEF LogInv, Apart
<1>9. existing[w] = Visible
  BY <1>5 DEF LogInv, Appending
<1>10. Appending(w)'
  BY <1>3, <1>5, <1>7, <1>9 DEF Appending
<1> QED  BY <1>5, <1>7, <1>8, <1>10 DEF Unseen

\* An element of an append.
LEMMA AppendElement ==
  ASSUME NEW s \in Content, NEW l \in Line
  PROVE  l \in ToSet(Append(s, l)) /\ Append(s, l) \in Content
<1> DEFINE t == Append(s, l)
<1>1. /\ t \in Content /\ Len(t) = Len(s) + 1 /\ t[Len(s) + 1] = l
  BY AppendProperties DEF Content
<1>2. Len(s) \in Nat /\ DOMAIN t = 1..Len(t)
  BY <1>1, LenProperties DEF Content
<1> HIDE DEF t
<1>3. Len(s) + 1 \in DOMAIN t
  BY <1>1, <1>2
<1>4. l \in ToSet(t)
  BY <1>1, <1>3 DEF ToSet
<1> QED  BY <1>1, <1>4 DEF t

\* A write into the temporary file is read by nobody.
LEMMA WriteUnseen ==
  ASSUME LogInv, NEW w \in Writer, NEW new \in Content,
         pc[w] \in {"copy", "write"},
         inode' = [inode EXCEPT ![fd[w]] = new],
         UNCHANGED <<disk, dir, diskDir, acked>>
  PROVE  Apart' /\ Unseen /\ inode'[dir.tmp] = new
<1>1. fd[w] \in Inode /\ fd[w] = dir.tmp /\ dir.tmp \notin {dir.log, diskDir.log}
  BY LogWriterAssumption DEF LogInv, TypesInv, Holds, Appending, Apart
<1>2. dir.log \in Inode \cup {NoFile} /\ diskDir.log \in Inode \cup {NoFile}
  BY DEF LogInv, TypesInv, TypeOK, Entries
<1>3. inode'[dir.tmp] = new /\ \A k \in Inode \ {dir.tmp} : inode'[k] = inode[k]
  BY <1>1 DEF LogInv, TypesInv, TypeOK
<1>4. Unseen
  BY <1>1, <1>2, <1>3 DEF Unseen, Visible, Durable, Read
<1>5. Apart'
  BY <1>1, <1>2, <1>3 DEF LogInv, Apart
<1> QED  BY <1>3, <1>4, <1>5

LEMMA WritesImplement ==
  ASSUME OneWriter, LogInv, NEW w \in Writer, WriteExisting(w) \/ WriteLine(w)
  PROVE  Apart' /\ Appending(w)' /\ Unseen
<1>1. /\ existing[w] \in Content /\ line[w] \in Line \cup {NoFile}
      /\ pc[w] \in {"copy", "write"} /\ fd[w] = dir.tmp /\ line[w] \in tried /\ tried \subseteq Line
  BY DEF LogInv, TypesInv, TypeOK, Holds, Appending, WriteExisting, WriteLine
<1>2. UNCHANGED <<disk, dir, diskDir, acked>> /\ UNCHANGED <<existing, line, fd>>
  BY DEF WriteExisting, WriteLine
<1>3. existing[w] = Visible
  BY <1>1 DEF LogInv, Appending
<1>4. CASE WriteExisting(w)
  <2>1. pc[w] = "copy" /\ inode[fd[w]] = <<>> /\ pc'[w] = "write"
    BY <1>4 DEF WriteExisting, LogInv, TypesInv, TypeOK, Appending, Goto
  <2>2. inode' = [inode EXCEPT ![fd[w]] = WriteAt(inode[fd[w]], 0, existing[w])]
    BY Zenon, <1>4 DEF WriteExisting
  <2>3. inode' = [inode EXCEPT ![fd[w]] = existing[w]]
    BY Zenon, <1>1, <2>1, <2>2, WriteCopy
  <2>4. Apart' /\ Unseen /\ inode'[dir.tmp] = existing[w]
    BY <1>1, <1>2, <2>3, WriteUnseen
  <2> QED  BY <1>1, <1>2, <1>3, <2>1, <2>4 DEF Appending, Unseen
<1>5. CASE WriteLine(w)
  <2> DEFINE new == Append(existing[w], line[w])
  <2>1. pc[w] = "write" /\ inode[fd[w]] = existing[w] /\ pc'[w] = "sync"
    BY <1>5 DEF WriteLine, LogInv, TypesInv, TypeOK, Appending, Goto
  <2>2. inode' = [inode EXCEPT ![fd[w]] = WriteAt(inode[fd[w]], Len(existing[w]), <<line[w]>>)]
    BY Zenon, <1>5 DEF WriteLine
  <2>3. line[w] \in Line
    BY <1>1
  <2>4. WriteAt(existing[w], Len(existing[w]), <<line[w]>>) = new
    BY Zenon, <1>1, <2>3, WriteEnd
  <2>5. inode' = [inode EXCEPT ![fd[w]] = new]
    BY Zenon, <2>1, <2>2, <2>4
  <2>6. new \in Content
    BY Zenon, <1>1, <2>3, AppendElement
  <2>7. new' = new
    BY Zenon, <1>2
  <2> HIDE DEF new
  <2>8. Apart' /\ Unseen /\ inode'[dir.tmp] = new
    BY <1>1, <1>2, <2>5, <2>6, WriteUnseen
  <2>9. (inode[dir.tmp] = Append(existing[w], line[w]))'
    BY <1>2, <2>7, <2>8 DEF new
  <2> QED  BY <1>1, <1>2, <1>3, <2>1, <2>8, <2>9 DEF Appending, Unseen
<1> QED  BY <1>4, <1>5

LEMMA SyncTmpImplements ==
  ASSUME OneWriter, LogInv, NEW w \in Writer, SyncTmp(w)
  PROVE  Apart' /\ Appending(w)' /\ Unseen
<1>1. fd[w] \in Inode /\ fd[w] = dir.tmp /\ dir.tmp \notin {dir.log, diskDir.log}
      /\ pc[w] = "sync" /\ pc'[w] = "rename"
  BY LogWriterAssumption DEF SyncTmp, Goto, LogInv, TypesInv, TypeOK, Holds, Appending, Apart
<1>2. dir.log \in Inode \cup {NoFile} /\ diskDir.log \in Inode \cup {NoFile}
  BY DEF LogInv, TypesInv, TypeOK, Entries
<1>3. disk'[dir.tmp] = inode[dir.tmp] /\ \A k \in Inode \ {dir.tmp} : disk'[k] = disk[k]
  BY <1>1 DEF SyncTmp, LogInv, TypesInv, TypeOK
<1>4. UNCHANGED <<inode, dir, diskDir, acked>> /\ UNCHANGED <<existing, line>>
  BY DEF SyncTmp
<1>5. Unseen
  BY <1>1, <1>2, <1>3, <1>4 DEF Unseen, Visible, Durable, Read
<1>6. Apart'
  BY <1>1, <1>2, <1>3, <1>4 DEF LogInv, Apart
<1>7. /\ existing[w] = Visible /\ inode[dir.tmp] = Append(existing[w], line[w])
      /\ dir.tmp # NoFile
  BY <1>1, LogWriterAssumption DEF LogInv, Appending
<1> QED  BY <1>1, <1>3, <1>4, <1>5, <1>6, <1>7 DEF Appending, Unseen

\* The rename publishes the line.
LEMMA RenameImplements ==
  ASSUME OneWriter, LogInv, NEW w \in Writer, Rename(w)
  PROVE  Apart' /\ Appending(w)' /\ \E l \in Line : Abstract!Publish(l)
<1>1. /\ dir.tmp \in Inode /\ dir.tmp # NoFile /\ dir.tmp \notin {dir.log, diskDir.log}
      /\ pc[w] = "rename" /\ pc'[w] = "syncdir"
      /\ dir' = [log |-> dir.tmp, tmp |-> NoFile]
  BY DEF Rename, Goto, LogInv, TypesInv, TypeOK, Apart, Entries
<1>2. UNCHANGED <<inode, disk, diskDir, acked>> /\ UNCHANGED <<existing, line, fd>>
  BY DEF Rename
<1>3. /\ inode[dir.tmp] = Append(Visible, line[w])
      /\ disk[dir.tmp] = inode[dir.tmp] /\ line[w] \in Line
      /\ Visible \in Content
  BY <1>1, ReadContent DEF LogInv, Appending, TypesInv, TypeOK, Holds, Visible
<1>4. Visible' = Append(Visible, line[w]) /\ Durable' = Durable
  BY <1>1, <1>2, <1>3 DEF Visible, Durable, Read
<1>5. Apart'
  BY <1>1, <1>2, <1>3 DEF LogInv, Apart
<1>6. line[w] \in ToSet(Append(Visible, line[w]))
  BY Zenon, <1>3, AppendElement
<1>7. Appending(w)'
  BY <1>1, <1>2, <1>4, <1>6 DEF Appending
<1>8. Abstract!Publish(line[w])
  BY <1>2, <1>4 DEF Abstract!Publish
<1> QED  BY <1>3, <1>5, <1>7, <1>8

\* The fsync of the directory promises the line.
LEMMA SyncDirImplements ==
  ASSUME OneWriter, LogInv, NEW w \in Writer, SyncDir(w)
  PROVE  Apart' /\ Appending(w)' /\ \E l \in Line : Abstract!Return(l)
<1>1. /\ pc[w] = "syncdir" /\ pc'[w] = "idle"
      /\ diskDir' = dir /\ acked' = acked \cup {line[w]}
      /\ UNCHANGED <<inode, disk, dir>>
  BY DEF SyncDir, Release, Goto, LogInv, TypesInv, TypeOK
<1>2. line[w] \in Line /\ line[w] \in ToSet(Visible)
  BY <1>1 DEF LogInv, Appending, TypesInv, TypeOK, Holds
<1>3. Visible' = Visible /\ Durable' = Visible
  BY <1>1 DEF Visible, Durable, Read, LogInv, Apart
<1>4. Apart'
  BY <1>1 DEF LogInv, Apart
<1>5. Appending(w)'
  BY <1>1 DEF Appending
<1>6. Abstract!Return(line[w])
  BY <1>1, <1>2, <1>3 DEF Abstract!Return, Abstract!ToSet, ToSet
<1> QED  BY <1>2, <1>4, <1>5, <1>6

\* An append that ends early leaves the files.
LEMMA EarlyEndImplements ==
  ASSUME OneWriter, LogInv, NEW w \in Writer, Abort(w)
  PROVE  Apart' /\ Appending(w)' /\ Unseen
<1>1. pc'[w] = "idle" /\ UNCHANGED <<inode, disk, dir, diskDir>> /\ acked' = acked
  BY DEF Abort, Release, Goto, files, LogInv, TypesInv, TypeOK
<1>2. Apart' /\ Unseen
  BY <1>1 DEF LogInv, Apart, Unseen, Visible, Durable, Read
<1>3. Appending(w)'
  BY <1>1 DEF Appending
<1> QED  BY <1>2, <1>3

\* Write-back changes what a power failure would leave only as a whole.
LEMMA FlushImplements ==
  ASSUME OneWriter, LogInv, (\E i \in Inode : FlushInode(i)) \/ FlushDir
  PROVE  Apart' /\ (\A w \in Writer : Appending(w)') /\ (Unseen \/ Abstract!Flush)
<1>1. ASSUME NEW i \in Inode, FlushInode(i)
      PROVE  Apart' /\ (\A w \in Writer : Appending(w)') /\ Unseen
  <2>1. disk'[i] = inode[i] /\ \A k \in Inode \ {i} : disk'[k] = disk[k]
    BY <1>1 DEF FlushInode, LogInv, TypesInv, TypeOK
  <2>2. UNCHANGED <<inode, dir, diskDir, acked>> /\ UNCHANGED <<pc, line, existing, fd>>
    BY <1>1 DEF FlushInode
  <2>3. /\ dir.log \in Inode \cup {NoFile} /\ diskDir.log \in Inode \cup {NoFile}
        /\ dir.tmp \in Inode \cup {NoFile}
    BY DEF LogInv, TypesInv, TypeOK, Entries
  <2>4. Unseen
    BY <2>1, <2>2, <2>3 DEF LogInv, Apart, Unseen, Visible, Durable, Read
  <2>5. Apart'
    BY <2>1, <2>2, <2>3 DEF LogInv, Apart
  <2>6. ASSUME NEW w \in Writer  PROVE Appending(w)'
    <3>1. Appending(w)
      BY DEF LogInv
    <3> QED  BY <2>1, <2>2, <2>3, <2>4, <3>1 DEF Appending, Unseen
  <2> QED  BY <2>4, <2>5, <2>6
<1>2. CASE FlushDir
  <2>1. diskDir' = dir /\ UNCHANGED <<inode, disk, dir, acked>>
        /\ UNCHANGED <<pc, line, existing, fd>>
    BY <1>2 DEF FlushDir
  <2>2. Visible' = Visible /\ Durable' = Visible
    BY <2>1 DEF LogInv, Apart, Visible, Durable, Read
  <2>3. Apart'
    BY <2>1 DEF LogInv, Apart
  <2>4. ASSUME NEW w \in Writer  PROVE Appending(w)'
    BY <2>1, <2>2 DEF LogInv, Appending
  <2> QED  BY <2>1, <2>2, <2>3, <2>4 DEF Abstract!Flush
<1> QED  BY <1>1, <1>2

\* What is left after a power failure is what was promised.
LEMMA PowerLossImplements ==
  ASSUME LogInv, PowerLoss
  PROVE  Apart' /\ (\A w \in Writer : Appending(w)') /\ Abstract!PowerLoss
<1>1. inode' = disk /\ dir' = diskDir /\ diskDir' = diskDir /\ disk' = disk /\ acked' = acked
  BY DEF PowerLoss, LogInv, Apart
<1>2. Visible' = Durable /\ Durable' = Durable
  BY <1>1 DEF Visible, Durable, Read
<1>3. Apart'
  BY <1>1 DEF LogInv, Apart
<1>4. \A w \in Writer : pc'[w] = "idle"
  BY DEF PowerLoss
<1> QED  BY <1>1, <1>2, <1>3, <1>4 DEF Appending, Abstract!PowerLoss

AbstractVars == <<Visible, Durable, acked>>

\* Every step of the one writer, or of the system, is one of the log's, or is
\* not seen.
LEMMA StepImplements ==
  ASSUME OneWriter, LogInv, [Next]_vars
  PROVE  Apart' /\ (\A w \in Writer : Appending(w)') /\ (Abstract!Next \/ Unseen)
<1>1. ASSUME NEW w \in Writer,
             (\E l \in Line : ReadExisting(w, l)) \/ Step(w) \/ Abort(w)
      PROVE  Apart' /\ Appending(w)' /\ (Abstract!Next \/ Unseen)
  <2>1. CASE (\E l \in Line : ReadExisting(w, l)) \/ OpenTmp(w) \/ WriteExisting(w)
             \/ WriteLine(w) \/ SyncTmp(w) \/ Abort(w)
    BY Zenon, <2>1, ReadExistingImplements, OpenTmpImplements, WritesImplement,
       SyncTmpImplements, EarlyEndImplements
  <2>2. CASE Rename(w)
    BY Zenon, <2>2, RenameImplements DEF Abstract!Next
  <2>3. CASE SyncDir(w)
    BY Zenon, <2>3, SyncDirImplements DEF Abstract!Next
  <2> QED  BY Zenon, <1>1, <2>1, <2>2, <2>3 DEF Step
<1>2. ASSUME NEW w \in Writer, Apart' /\ Appending(w)' /\ (Abstract!Next \/ Unseen)
      PROVE  \A v \in Writer : Appending(v)'
  BY <1>2 DEF OneWriter
<1>3. CASE (\E i \in Inode : FlushInode(i)) \/ FlushDir
  BY Zenon, <1>3, FlushImplements DEF Abstract!Next
<1>4. CASE PowerLoss
  BY Zenon, <1>4, PowerLossImplements DEF Abstract!Next
<1>5. CASE UNCHANGED vars
  BY <1>5 DEF vars, LogInv, Apart, Appending, Unseen, Visible, Durable, Read
<1> QED  BY Zenon, <1>1, <1>2, <1>3, <1>4, <1>5 DEF Next

LEMMA StepKeeps == OneWriter /\ LogInv /\ [Next]_vars => LogInv'
BY Zenon, StepImplements, StepTypes DEF LogInv

LEMMA InitKeeps == Init => LogInv
<1> SUFFICES ASSUME Init PROVE LogInv
  OBVIOUS
<1>1. Apart
  BY DEF Init, Apart, Empty
<1>2. \A w \in Writer : Appending(w)
  BY DEF Init, Appending
<1> QED  BY <1>1, <1>2, InitTypes DEF LogInv

LEMMA OneWriterKeeps ==
  ASSUME OneWriter
  PROVE  Spec => []LogInv
<1>1. LogInv /\ [Next]_vars => LogInv'
  BY StepKeeps
<1>2. Init => LogInv
  BY InitKeeps
<1> QED  BY <1>1, <1>2, PTL DEF Spec

\* One writer implements the append-only log, whatever is killed, written back
\* or lost with the power: readers see the log grow by whole lines, and fall back
\* to what was promised at worst (log.rs:8-31, 127-255).
THEOREM OneWriterImplementsLog ==
  ASSUME OneWriter
  PROVE  Spec => AbstractSpec
<1>1. Init => Abstract!Init
  BY DEF Init, Abstract!Init, Visible, Durable, Read, Empty
<1>2. LogInv /\ [Next]_vars => [Abstract!Next]_(Abstract!vars)
  BY StepImplements DEF Unseen, Abstract!vars
<1> QED  BY <1>1, <1>2, OneWriterKeeps, PTL DEF Spec, AbstractSpec, Abstract!Spec

-----------------------------------------------------------------------------
(* What was acknowledged *)

Promised == acked \subseteq ToSet(Durable) /\ ToSet(Durable) \subseteq ToSet(Visible)

\* What the log promises, it keeps in every step of its own.
LEMMA PromiseKept ==
  ASSUME TypesInv, Promised, Abstract!Next
  PROVE  Promised'
<1>1. CASE \E l \in Line : Abstract!Publish(l)
  <2>1. PICK l \in Line : Abstract!Publish(l)
    BY <1>1
  <2> DEFINE s == Visible
             t == Append(s, l)
  <2>2. Visible' = t /\ Durable' = Durable /\ acked' = acked
    BY <2>1 DEF Abstract!Publish
  <2>3. s \in Content
    BY ReadContent DEF TypesInv, TypeOK, Visible
  <2>4. ToSet(s) \subseteq ToSet(t)
    <3>1. s \in Seq(Line \cup {Hole}) /\ l \in Line \cup {Hole}
      BY <2>3 DEF Content
    <3> HIDE DEF s
    <3>2. /\ t \in Seq(Line \cup {Hole}) /\ Len(t) = Len(s) + 1
          /\ \A i \in 1..Len(s) : t[i] = s[i]
      BY <3>1, AppendProperties
    <3>3. /\ Len(s) \in Nat /\ DOMAIN s = 1..Len(s) /\ DOMAIN t = 1..Len(t)
      BY <3>1, <3>2, LenProperties
    <3> HIDE DEF t
    <3>4. \A i \in DOMAIN s : i \in DOMAIN t /\ t[i] = s[i]
      BY <3>2, <3>3
    <3> QED  BY <3>4 DEF ToSet
  <2> HIDE DEF t
  <2> QED  BY <2>2, <2>4 DEF Promised, ToSet
<1>2. CASE \E l \in Line : Abstract!Return(l)
  BY <1>2 DEF Abstract!Return, Abstract!ToSet, ToSet, Promised
<1>3. CASE Abstract!Flush
  BY <1>3 DEF Abstract!Flush, Promised, ToSet
<1>4. CASE Abstract!PowerLoss
  BY <1>4 DEF Abstract!PowerLoss, Promised, ToSet
<1> QED  BY <1>1, <1>2, <1>3, <1>4 DEF Abstract!Next

\* With one writer, an acknowledged line stays readable, and would after a power
\* failure: what fails with two (AckedLinesKept of two writers is refuted) holds
\* when each asserter is used by one process at a time (log.rs:20-31).
THEOREM OneWriterKeepsAcked ==
  ASSUME OneWriter
  PROVE  Spec => []AckedLinesKept
<1>1. Init => Promised
  BY DEF Init, Promised, Visible, Durable, Read, Empty, ToSet
<1>2. LogInv /\ Promised /\ [Next]_vars => Promised'
  <2>1. ASSUME LogInv, Promised, Unseen  PROVE Promised'
    BY <2>1 DEF Unseen, Promised, ToSet
  <2> QED  BY <2>1, StepImplements, PromiseKept DEF LogInv
<1>3. Promised => AckedLinesKept
  BY DEF Promised, AckedLinesKept
<1> QED  BY <1>1, <1>2, <1>3, OneWriterKeeps, PTL DEF Spec
=============================================================================
