---------------------------- MODULE RuntimeFiles ----------------------------
(***************************************************************************)
(* readDocument of runtime-files.mts, the bounded read by which every      *)
(* entry point takes evidence bytes, against another process that          *)
(* rewrites, truncates, re-dates, links or replaces the file between any   *)
(* two of its system calls.  File times have a limited resolution: two     *)
(* changes in one clock tick carry the same time.                          *)
(***************************************************************************)
EXTENDS Integers, Sequences

CONSTANTS
  Blocks,       \* what one unit of a file may hold
  Contents,     \* what the files of the model may hold, as sequences of blocks
  Limit,        \* the byte limit of this document
  MaxTime,      \* bound on the file system's clock
  MaxChanges    \* bound on changes by the other process

ASSUME FileAssumption ==
  /\ Contents \subseteq Seq(Blocks)
  /\ {Limit, MaxChanges} \subseteq Nat /\ MaxTime \in Nat \ {0}

VARIABLES
  clock,     \* the file system's clock, in ticks of its resolution
  changes,   \* changes made so far by the other process
  entry,     \* what the requested path names
  disk,      \* the file objects
  pc,        \* where readDocument is
  fd,        \* the file object behind its descriptor
  before,    \* metadata of the first fstat
  statAt,    \* history: when the first fstat was made
  held,      \* history: what the file held at the first fstat
  bytes,     \* bytes read so far
  result     \* pending, refused, or returned

vars == <<clock, changes, entry, disk, pc, fd, before, statAt, held, bytes, result>>
fileSystem == <<clock, changes, entry, disk>>
reader == <<pc, fd, before, statAt, held, bytes, result>>

Files == {"original", "replacement"}
Elsewhere == {"absent", "link-inside", "link-outside"}
NoFile == "none"

Metadata == [size : Nat, mtime : Nat, ctime : Nat]
NoMetadata == [size |-> 0, mtime |-> 0, ctime |-> 0]

FileObjects ==
  [kind : {"regular", "other"}, links : 0 .. 2, data : Contents,
   mtime : 0 .. MaxTime, ctime : 0 .. MaxTime]

Stat(f) == [size |-> Len(disk[f].data), mtime |-> disk[f].mtime, ctime |-> disk[f].ctime]

-----------------------------------------------------------------------------
(* At the start the path may name anything; its file was written in this   *)
(* tick of the clock or in an earlier one.                                 *)
FileObject(kind, links, data, time) ==
  [kind |-> kind, links |-> links, data |-> data, mtime |-> time, ctime |-> time]

Init ==
  /\ clock = 1
  /\ changes = 0
  /\ entry \in {"original"} \cup Elsewhere
  /\ \E kind \in {"regular", "other"}, links \in 1 .. 2,
        data, other \in Contents, time \in 0 .. clock :
       disk = [original    |-> FileObject(kind, links, data, time),
               replacement |-> FileObject("regular", 1, other, 0)]
  /\ pc = "resolve"
  /\ fd = NoFile
  /\ before = NoMetadata
  /\ statAt = 0
  /\ held = <<>>
  /\ bytes = <<>>
  /\ result = "pending"

-----------------------------------------------------------------------------
(* The other process.  The kernel dates every change of a file object.     *)
Reading == pc # "done"

Tick ==
  /\ Reading /\ clock < MaxTime
  /\ clock' = clock + 1
  /\ UNCHANGED <<changes, entry, disk, reader>>

Changed(f, object) ==
  /\ disk' = [disk EXCEPT ![f] = [object EXCEPT !.ctime = clock]]

Rewrite(f) ==
  /\ \E data \in Contents \ {disk[f].data} :
       Changed(f, [disk[f] EXCEPT !.data = data, !.mtime = clock])
  /\ UNCHANGED entry

(* utimes gives back an old modification time, but not the change time.    *)
SetTimes(f) ==
  /\ \E time \in (0 .. clock) \ {disk[f].mtime} :
       Changed(f, [disk[f] EXCEPT !.mtime = time])
  /\ UNCHANGED entry

AddLink(f) ==
  /\ disk[f].links = 1
  /\ Changed(f, [disk[f] EXCEPT !.links = 2])
  /\ UNCHANGED entry

(* The path is unlinked, made a symbolic link, or given to the other file. *)
Repoint ==
  /\ entry' \in (Files \cup Elsewhere) \ {entry}
  /\ IF entry \in Files /\ disk[entry].links > 0
     THEN Changed(entry, [disk[entry] EXCEPT !.links = @ - 1])
     ELSE UNCHANGED disk

OtherProcess ==
  /\ Reading /\ changes < MaxChanges
  /\ changes' = changes + 1
  /\ Repoint \/ \E f \in Files : Rewrite(f) \/ SetTimes(f) \/ AddLink(f)
  /\ UNCHANGED <<clock, reader>>

-----------------------------------------------------------------------------
(* readDocument, one system call per action.  The descriptor is closed     *)
(* whether the read succeeds or not.                                       *)
Finish(outcome) ==
  /\ pc' = "done"
  /\ fd' = NoFile
  /\ result' = outcome
  /\ UNCHANGED <<fileSystem, before, statAt, held, bytes>>

(* realpathSync: the path must lead to something inside the workspace.     *)
Resolve ==
  /\ pc = "resolve"
  /\ \/ /\ entry \notin {"absent", "link-outside"}
        /\ pc' = "open"
        /\ UNCHANGED <<fileSystem, fd, before, statAt, held, bytes, result>>
     \/ entry \in {"absent", "link-outside"} /\ Finish("refused")

(* O_NOFOLLOW refuses what is a symbolic link by now.                      *)
Open ==
  /\ pc = "open"
  /\ \/ /\ entry \in Files
        /\ fd' = entry
        /\ pc' = "stat"
        /\ UNCHANGED <<fileSystem, before, statAt, held, bytes, result>>
     \/ entry \notin Files /\ Finish("refused")

Readable(f) ==
  /\ disk[f].kind = "regular" /\ disk[f].links = 1
  /\ Stat(f).size \in 1 .. Limit

FirstStat ==
  /\ pc = "stat"
  /\ \/ /\ Readable(fd)
        /\ before' = Stat(fd)
        /\ statAt' = clock
        /\ held' = disk[fd].data
        /\ pc' = "read"
        /\ UNCHANGED <<fileSystem, fd, bytes, result>>
     \/ ~Readable(fd) /\ Finish("refused")

(* Mutant: the buffer has room for one more than the extra byte.           *)
ReadPastBuffer ==
  /\ pc = "read"
  /\ Len(bytes) < before.size + 2 /\ Len(bytes) < Len(disk[fd].data)
  /\ bytes' = Append(bytes, disk[fd].data[Len(bytes) + 1])
  /\ UNCHANGED <<fileSystem, pc, fd, before, statAt, held, result>>

(* readSync returns what the file holds now at the read position; a call   *)
(* that returns several blocks is several of these without a change in     *)
(* between.  One block more than the first size is accepted.               *)
ReadBlock ==
  /\ pc = "read"
  /\ Len(bytes) < before.size + 1 /\ Len(bytes) < Len(disk[fd].data)
  /\ bytes' = Append(bytes, disk[fd].data[Len(bytes) + 1])
  /\ UNCHANGED <<fileSystem, pc, fd, before, statAt, held, result>>

(* The loop ends at the end of the file or when the buffer is full.        *)
EndOfRead ==
  /\ pc = "read"
  /\ Len(bytes) = before.size + 1 \/ Len(bytes) >= Len(disk[fd].data)
  /\ pc' = "restat"
  /\ UNCHANGED <<fileSystem, fd, before, statAt, held, bytes, result>>

(* Mutant: the change time is not compared.                                *)
UnchangedBySizeAndDate(after) ==
  /\ Len(bytes) = before.size
  /\ after.size = before.size /\ after.mtime = before.mtime

UnchangedSince(after) ==
  /\ Len(bytes) = before.size
  /\ after = before

SecondStat ==
  /\ pc = "restat"
  /\ \/ UnchangedSince(Stat(fd)) /\ Finish("returned")
     \/ ~UnchangedSince(Stat(fd)) /\ Finish("refused")

(* Any of the calls may fail.                                              *)
CallFails ==
  /\ pc \in {"resolve", "open", "stat", "read", "restat"}
  /\ Finish("refused")

ReadDocument ==
  \/ Resolve \/ Open \/ FirstStat \/ ReadBlock \/ EndOfRead \/ SecondStat
  \/ CallFails

Next == Tick \/ OtherProcess \/ ReadDocument

Spec == Init /\ [][Next]_vars

-----------------------------------------------------------------------------
(* Properties.                                                             *)

(* Types; the buffer never holds more than one block beyond the size the   *)
(* first fstat reported (Buffer.alloc(before.size + 1)).                   *)
TypeOK ==
  /\ clock \in 0 .. MaxTime /\ changes \in 0 .. MaxChanges
  /\ entry \in Files \cup Elsewhere
  /\ disk \in [Files -> FileObjects]
  /\ pc \in {"resolve", "open", "stat", "read", "restat", "done"}
  /\ fd \in Files \cup {NoFile}
  /\ pc \in {"stat", "read", "restat"} <=> fd # NoFile
  /\ before \in Metadata /\ before.size <= Limit
  /\ statAt \in 0 .. clock
  /\ held \in Contents \cup {<<>>}
  /\ bytes \in Seq(Blocks) /\ Len(bytes) <= before.size + 1
  /\ result \in {"pending", "refused", "returned"}

(* A file that had been left alone for a tick when the read began is       *)
(* returned as it then was, as a whole, or refused, however it is changed  *)
(* during the read: no mixture of two versions, nothing missing, nothing   *)
(* beyond the limit (readDocument's comparison of the two fstats).         *)
SettledFileReadsWhole ==
  result = "returned" /\ before.ctime < statAt =>
    bytes = held /\ Len(bytes) \in 1 .. Limit

(* What the comment of readDocument promises without that proviso: a file  *)
(* changed during the read cannot supply evidence bytes.                   *)
ChangedFileSuppliesNothing ==
  result = "returned" => bytes = held
=============================================================================
