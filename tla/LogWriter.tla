------------------------------ MODULE LogWriter ------------------------------
(***************************************************************************)
(* LogWriter::append of claim/src/log.rs on one asserter directory: the    *)
(* directory holds at most log.jsonl and log.jsonl.tmp, and several        *)
(* processes may append as the same asserter, with no lock between them.   *)
(*                                                                         *)
(* Files are inodes so that a rename, an open descriptor and a truncation  *)
(* of the shared temporary file mean what they mean to the kernel.  A file *)
(* is a sequence of lines; Hole stands for the zero bytes left by a write  *)
(* beyond the end of a truncated file.  What would survive a power failure *)
(* is kept beside what processes see: disk beside inode, diskDir beside    *)
(* dir.  The asserter directory exists and its own entry in claims/ is on  *)
(* disk from the start: append creates a missing one without syncing       *)
(* claims/, so a first line can be lost with it, which is not modelled.    *)
(***************************************************************************)
EXTENDS Naturals, Sequences, FiniteSets, SequencesExt

CONSTANTS
  Writer,            \* processes appending as this asserter
  Line,              \* claim documents; each is appended at most once
  Inode,             \* inode numbers of the file system
  NoFile,            \* a directory entry that does not exist
  Hole               \* the content of a gap in a file

ASSUME LogWriterAssumption ==
  /\ NoFile \notin Inode
  /\ Hole \notin Line
  /\ IsFiniteSet(Writer)
  /\ IsFiniteSet(Inode) => Cardinality(Inode) > 4 + Cardinality(Writer)

VARIABLES
  inode,             \* what each file holds
  disk,              \* what of it has reached the disk
  dir,               \* entries of the asserter directory
  diskDir,           \* the entries that have reached the disk
  pc, line, existing, fd,   \* each writer's control point and locals
  tried,             \* lines some append was called with
  acked              \* lines whose append returned Ok

vars == <<inode, disk, dir, diskDir, pc, line, existing, fd, tried, acked>>
files == <<inode, disk, dir, diskDir>>

Content == Seq(Line \cup {Hole})
Entries == [log : Inode \cup {NoFile}, tmp : Inode \cup {NoFile}]
Steps   == {"idle", "open", "copy", "write", "sync", "rename", "syncdir"}

\* Types: files hold lines and holes, directory entries name files or nothing,
\* and only lines that were tried are acknowledged.
TypeOK ==
  /\ inode \in [Inode -> Content]
  /\ disk \in [Inode -> Content]
  /\ dir \in Entries
  /\ diskDir \in Entries
  /\ pc \in [Writer -> Steps]
  /\ line \in [Writer -> Line \cup {NoFile}]
  /\ existing \in [Writer -> Content]
  /\ fd \in [Writer -> Inode \cup {NoFile}]
  /\ tried \subseteq Line
  /\ acked \subseteq tried

Empty == [log |-> NoFile, tmp |-> NoFile]

Init ==
  /\ inode = [i \in Inode |-> <<>>]
  /\ disk = [i \in Inode |-> <<>>]
  /\ dir = Empty
  /\ diskDir = Empty
  /\ pc = [w \in Writer |-> "idle"]
  /\ line = [w \in Writer |-> NoFile]
  /\ existing = [w \in Writer |-> <<>>]
  /\ fd = [w \in Writer |-> NoFile]
  /\ tried = {}
  /\ acked = {}

Read(d, content) == IF d.log = NoFile THEN <<>> ELSE content[d.log]

\* The lines readers see, and those they would see after a power failure.
Visible == Read(dir, inode)
Durable == Read(diskDir, disk)

InUse == {dir.log, dir.tmp, diskDir.log, diskDir.tmp} \cup {fd[w] : w \in Writer}

\* write(2) of new at line offset off of a file holding old.
WriteAt(old, off, new) ==
  LET end == off + Len(new)
      len == IF end > Len(old) THEN end ELSE Len(old)
  IN  [k \in 1..len |->
         IF k > off /\ k <= end THEN new[k - off]
         ELSE IF k <= Len(old) THEN old[k] ELSE Hole]

Goto(w, at) == pc' = [pc EXCEPT ![w] = at]

\* The call: validation passed, the asserter directory is there, and the whole
\* log is read into memory.
ReadExisting(w, l) ==
  /\ pc[w] = "idle"
  /\ l \notin tried
  /\ existing' = [existing EXCEPT ![w] = Visible]
  /\ line' = [line EXCEPT ![w] = l]
  /\ tried' = tried \cup {l}
  /\ Goto(w, "open")
  /\ UNCHANGED <<inode, disk, dir, diskDir, fd, acked>>

\* open(log.jsonl.tmp, O_WRONLY | O_CREAT | O_TRUNC): the file may be left
\* over from a crash, or be the one another writer is filling.
OpenTmp(w) ==
  /\ pc[w] = "open"
  /\ LET i == IF dir.tmp # NoFile THEN dir.tmp
              ELSE CHOOSE j \in Inode : j \notin InUse
     IN  /\ inode' = [inode EXCEPT ![i] = <<>>]
         /\ disk' = IF dir.tmp = NoFile THEN [disk EXCEPT ![i] = <<>>] ELSE disk
         /\ dir' = [dir EXCEPT !.tmp = i]
         /\ fd' = [fd EXCEPT ![w] = i]
  /\ Goto(w, "copy")
  /\ UNCHANGED <<diskDir, line, existing, tried, acked>>

\* Both write_all calls go through the descriptor, at its own offset.
WriteExisting(w) ==
  /\ pc[w] = "copy"
  /\ inode' = [inode EXCEPT ![fd[w]] = WriteAt(@, 0, existing[w])]
  /\ Goto(w, "write")
  /\ UNCHANGED <<disk, dir, diskDir, line, existing, fd, tried, acked>>

WriteLine(w) ==
  /\ pc[w] = "write"
  /\ inode' = [inode EXCEPT ![fd[w]] = WriteAt(@, Len(existing[w]), <<line[w]>>)]
  /\ Goto(w, "sync")
  /\ UNCHANGED <<disk, dir, diskDir, line, existing, fd, tried, acked>>

\* sync_all on the temporary file, then the descriptor is closed.
SyncTmp(w) ==
  /\ pc[w] = "sync"
  /\ disk' = [disk EXCEPT ![fd[w]] = inode[fd[w]]]
  /\ fd' = [fd EXCEPT ![w] = NoFile]
  /\ Goto(w, "rename")
  /\ UNCHANGED <<inode, dir, diskDir, line, existing, tried, acked>>

\* Fails, like any other call, when another writer has renamed the file away.
Rename(w) ==
  /\ pc[w] = "rename"
  /\ dir.tmp # NoFile
  /\ dir' = [log |-> dir.tmp, tmp |-> NoFile]
  /\ Goto(w, "syncdir")
  /\ UNCHANGED <<inode, disk, diskDir, line, existing, fd, tried, acked>>

Release(w) ==
  /\ line' = [line EXCEPT ![w] = NoFile]
  /\ existing' = [existing EXCEPT ![w] = <<>>]
  /\ fd' = [fd EXCEPT ![w] = NoFile]
  /\ Goto(w, "idle")

\* Mutant: append returns Ok without the fsync of the directory.
SyncDirSkipped(w) ==
  /\ pc[w] = "syncdir"
  /\ acked' = acked \cup {line[w]}
  /\ Release(w)
  /\ UNCHANGED <<inode, disk, dir, diskDir, tried>>

\* Mutant: the line is released before it is acknowledged.
SyncDirReleased(w) ==
  /\ pc[w] = "syncdir"
  /\ diskDir' = dir
  /\ Release(w)
  /\ acked' = acked \cup {line'[w]}
  /\ UNCHANGED <<inode, disk, dir, tried>>

\* fsync of the asserter directory, after which append returns Ok.
SyncDir(w) ==
  /\ pc[w] = "syncdir"
  /\ diskDir' = dir
  /\ acked' = acked \cup {line[w]}
  /\ Release(w)
  /\ UNCHANGED <<inode, disk, dir, tried>>

Step(w) ==
  \/ OpenTmp(w) \/ WriteExisting(w) \/ WriteLine(w) \/ SyncTmp(w)
  \/ Rename(w) \/ SyncDir(w)

\* A call fails and append returns its error, or the process is killed: in either
\* case what was done so far stays, the temporary file too.
Abort(w) ==
  /\ pc[w] # "idle"
  /\ Release(w)
  /\ UNCHANGED <<files, tried, acked>>

\* Write-back by the kernel, at any time and in any order.
FlushInode(i) ==
  /\ i \in InUse
  /\ disk[i] # inode[i]
  /\ disk' = [disk EXCEPT ![i] = inode[i]]
  /\ UNCHANGED <<inode, dir, diskDir, pc, line, existing, fd, tried, acked>>

FlushDir ==
  /\ diskDir # dir
  /\ diskDir' = dir
  /\ UNCHANGED <<inode, disk, dir, pc, line, existing, fd, tried, acked>>

\* The machine loses power: every process dies and only the disk remains.
PowerLoss ==
  /\ inode' = disk
  /\ dir' = diskDir
  /\ pc' = [w \in Writer |-> "idle"]
  /\ line' = [w \in Writer |-> NoFile]
  /\ existing' = [w \in Writer |-> <<>>]
  /\ fd' = [w \in Writer |-> NoFile]
  /\ UNCHANGED <<disk, diskDir, tried, acked>>

Next ==
  \/ \E w \in Writer : (\E l \in Line : ReadExisting(w, l)) \/ Step(w) \/ Abort(w)
  \/ \E i \in Inode : FlushInode(i)
  \/ FlushDir
  \/ PowerLoss

Spec == Init /\ [][Next]_vars
-----------------------------------------------------------------------------
(* Properties *)

\* The abstract log this one is meant to be: readers see it grow by whole
\* lines, and a power failure falls back to a state it has been in, never to
\* one that misses an acknowledged line (log.rs:20-26).
Abstract == INSTANCE ClaimLog WITH visible <- Visible, durable <- Durable
AbstractSpec == Abstract!Spec

\* A line whose append returned Ok stays readable: no later append, kill or
\* power failure takes it away (log.rs:8-31).
AckedLinesKept == acked \subseteq ToSet(Visible)
=============================================================================
