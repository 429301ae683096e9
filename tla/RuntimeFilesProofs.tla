------------------------- MODULE RuntimeFilesProofs -------------------------
(***************************************************************************)
(* Proofs about runtime-files.mts.  First RuntimeFiles, for files of any   *)
(* size, any limit and any number of changes: the types, and that          *)
(* readDocument returns a file that was left alone for a clock tick as it  *)
(* was or not at all.  Then JsonDocument, for any texts and nesting limit: *)
(* what parseJson accepts can be read in one way only.                     *)
(***************************************************************************)
EXTENDS RuntimeFiles, JsonDocument, FiniteSetTheorems, SequenceTheorems,
        WellFoundedInduction, TLAPS

Opened == {"stat", "read", "restat"}
Statted == {"read", "restat"}

(* The file behind the descriptor, while it carries the change time of the *)
(* first fstat and that time lay in the past, is what the first fstat saw, *)
(* and the bytes read so far are the beginning of it.                      *)
Settled == before.ctime < statAt

StillHeld ==
  pc \in Statted /\ Settled /\ disk[fd].ctime = before.ctime =>
    /\ disk[fd].data = held
    /\ Len(bytes) <= Len(held)
    /\ \A i \in 1 .. Len(bytes) : bytes[i] = held[i]

Measured ==
  pc \in Statted => before.size = Len(held) /\ before.size \in 1 .. Limit

NotYetRead == pc \in {"resolve", "open", "stat"} => bytes = <<>>

ChangesInThePast == \A f \in Files : disk[f].ctime <= clock

IInv ==
  /\ TypeOK
  /\ ChangesInThePast
  /\ Measured
  /\ NotYetRead
  /\ StillHeld
  /\ pc # "done" => result = "pending"
  /\ SettledFileReadsWhole

-----------------------------------------------------------------------------
(* A change dates the object it changes by the clock, and touches no other *)
(* file.                                                                   *)
LEMMA ChangedObject ==
  ASSUME disk \in [Files -> FileObjects], clock \in 0 .. MaxTime,
         NEW f \in Files, NEW object \in FileObjects, Changed(f, object)
  PROVE  /\ disk' \in [Files -> FileObjects]
         /\ \A g \in Files : disk'[g] = disk[g] \/ disk'[g].ctime = clock
  <1> DEFINE changed == [object EXCEPT !.ctime = clock]
  <1>1. changed \in FileObjects /\ changed.ctime = clock
    BY DEF FileObjects
  <1>2. disk' = [disk EXCEPT ![f] = changed]
    BY DEF Changed
  <1> HIDE DEF changed
  <1> QED  BY <1>1, <1>2

(* Whatever the other process does, a file it touched carries the time of  *)
(* the touch as its change time.                                           *)
LEMMA TouchedFilesAreDated ==
  ASSUME TypeOK, OtherProcess
  PROVE  /\ disk' \in [Files -> FileObjects]
         /\ \A g \in Files : disk'[g] = disk[g] \/ disk'[g].ctime = clock
         /\ entry' \in Files \cup Elsewhere
         /\ changes' \in 0 .. MaxChanges
         /\ UNCHANGED <<clock, pc, fd, before, statAt, held, bytes, result>>
         /\ pc # "done"
  <1>1. /\ disk \in [Files -> FileObjects] /\ clock \in 0 .. MaxTime
        /\ entry \in Files \cup Elsewhere
    BY DEF TypeOK
  <1>2. /\ UNCHANGED <<clock, pc, fd, before, statAt, held, bytes, result>>
        /\ pc # "done" /\ changes' \in 0 .. MaxChanges
    BY FileAssumption DEF OtherProcess, TypeOK, Reading, reader
  <1>3. ASSUME Repoint
        PROVE  /\ disk' \in [Files -> FileObjects]
               /\ \A g \in Files : disk'[g] = disk[g] \/ disk'[g].ctime = clock
               /\ entry' \in Files \cup Elsewhere
    <2>1. entry' \in Files \cup Elsewhere
      BY <1>3 DEF Repoint
    <2>2. CASE entry \in Files /\ disk[entry].links > 0
      <3>1. [disk[entry] EXCEPT !.links = @ - 1] \in FileObjects
        BY <1>1, <2>2 DEF FileObjects
      <3>2. Changed(entry, [disk[entry] EXCEPT !.links = @ - 1])
        BY <1>3, <2>2 DEF Repoint
      <3> QED  BY <1>1, <2>1, <2>2, <3>1, <3>2, ChangedObject
    <2>3. CASE ~(entry \in Files /\ disk[entry].links > 0)
      BY <1>1, <1>3, <2>1, <2>3 DEF Repoint
    <2> QED  BY <2>2, <2>3
  <1>4. ASSUME NEW f \in Files, Rewrite(f) \/ SetTimes(f) \/ AddLink(f)
        PROVE  /\ disk' \in [Files -> FileObjects]
               /\ \A g \in Files : disk'[g] = disk[g] \/ disk'[g].ctime = clock
               /\ entry' \in Files \cup Elsewhere
    <2>1. PICK object \in FileObjects : Changed(f, object)
      <3>1. CASE Rewrite(f)
        <4>1. PICK data \in Contents :
                Changed(f, [disk[f] EXCEPT !.data = data, !.mtime = clock])
          BY <3>1 DEF Rewrite
        <4>2. [disk[f] EXCEPT !.data = data, !.mtime = clock] \in FileObjects
          BY <1>1 DEF FileObjects
        <4> QED  BY <4>1, <4>2
      <3>2. CASE SetTimes(f)
        <4>1. PICK time \in 0 .. clock : Changed(f, [disk[f] EXCEPT !.mtime = time])
          BY <3>2 DEF SetTimes
        <4>2. time \in 0 .. MaxTime
          BY <1>1, FileAssumption
        <4>3. [disk[f] EXCEPT !.mtime = time] \in FileObjects
          BY <1>1, <4>2 DEF FileObjects
        <4> QED  BY <4>1, <4>3
      <3>3. CASE AddLink(f)
        <4>1. [disk[f] EXCEPT !.links = 2] \in FileObjects
          BY <1>1 DEF FileObjects
        <4>2. Changed(f, [disk[f] EXCEPT !.links = 2])
          BY <3>3 DEF AddLink
        <4> QED  BY <4>1, <4>2
      <3> QED  BY <1>4, <3>1, <3>2, <3>3
    <2>2. entry' = entry
      BY <1>4 DEF Rewrite, SetTimes, AddLink
    <2> QED  BY <1>1, <2>1, <2>2, ChangedObject
  <1> QED  BY <1>2, <1>3, <1>4 DEF OtherProcess

-----------------------------------------------------------------------------
(* The invariant holds before the first call.                              *)
LEMMA InitEstablishes == Init => IInv
  <1> SUFFICES ASSUME Init PROVE IInv
    OBVIOUS
  <1>1. disk \in [Files -> FileObjects] /\ ChangesInThePast
    <2>1. PICK kind \in {"regular", "other"}, links \in 1 .. 2,
               data \in Contents, other \in Contents, time \in 0 .. 1 :
            disk = [original    |-> FileObject(kind, links, data, time),
                    replacement |-> FileObject("regular", 1, other, 0)]
      BY DEF Init
    <2>2. /\ FileObject(kind, links, data, time) \in FileObjects
          /\ FileObject("regular", 1, other, 0) \in FileObjects
      BY FileAssumption DEF FileObject, FileObjects
    <2>3. /\ FileObject(kind, links, data, time).ctime <= 1
          /\ FileObject("regular", 1, other, 0).ctime <= 1
      BY DEF FileObject
    <2> HIDE DEF FileObject
    <2> QED  BY <2>1, <2>2, <2>3 DEF Init, Files, ChangesInThePast
  <1>2. TypeOK
    BY <1>1, FileAssumption DEF Init, TypeOK, Metadata, NoMetadata, Files, NoFile
  <1> QED  BY <1>1, <1>2 DEF Init, IInv, Measured, NotYetRead, StillHeld, Statted,
    SettledFileReadsWhole

(* The clock and the other process cannot break it: a file they touch is   *)
(* dated later than a settled first fstat.                                 *)
LEMMA EnvironmentPreserves == IInv /\ (Tick \/ OtherProcess) => IInv'
  <1> SUFFICES ASSUME IInv, Tick \/ OtherProcess PROVE IInv'
    OBVIOUS
  <1>1. CASE Tick
    <2>1. /\ clock' = clock + 1 /\ clock' \in 0 .. MaxTime /\ statAt \in 0 .. clock
          /\ UNCHANGED <<changes, entry, disk, pc, fd, before, statAt, held, bytes, result>>
      BY <1>1, FileAssumption DEF Tick, reader, IInv, TypeOK
    <2>2. TypeOK'
      BY <2>1 DEF IInv, TypeOK
    <2>3. ChangesInThePast'
      BY <2>1 DEF IInv, ChangesInThePast, TypeOK, FileObjects
    <2> QED  BY <2>1, <2>2, <2>3 DEF IInv, Measured, NotYetRead, StillHeld, Settled,
      SettledFileReadsWhole
  <1>2. CASE OtherProcess
    <2>1. /\ disk' \in [Files -> FileObjects]
          /\ \A g \in Files : disk'[g] = disk[g] \/ disk'[g].ctime = clock
          /\ entry' \in Files \cup Elsewhere
          /\ changes' \in 0 .. MaxChanges
          /\ UNCHANGED <<clock, pc, fd, before, statAt, held, bytes, result>>
      BY <1>2, TouchedFilesAreDated DEF IInv
    <2>2. TypeOK'
      BY <2>1 DEF IInv, TypeOK
    <2>3. ChangesInThePast'
      BY <2>1 DEF IInv, ChangesInThePast, TypeOK, FileObjects
    <2>4. StillHeld'
      <3> SUFFICES ASSUME pc \in Statted, Settled, disk'[fd].ctime = before.ctime
                   PROVE  /\ disk'[fd].data = held
                          /\ Len(bytes) <= Len(held)
                          /\ \A i \in 1 .. Len(bytes) : bytes[i] = held[i]
        BY <2>1 DEF StillHeld, Settled
      <3>1. fd \in Files /\ before.ctime < clock
        BY DEF IInv, TypeOK, Statted, Settled, Metadata
      <3>2. disk'[fd] = disk[fd]
        BY <2>1, <3>1 DEF IInv, TypeOK, Metadata
      <3> QED  BY <3>2 DEF IInv, StillHeld
    <2> QED  BY <2>1, <2>2, <2>3, <2>4 DEF IInv, Measured, NotYetRead,
      SettledFileReadsWhole
  <1> QED  BY <1>1, <1>2
(* A call that ends the read without returning anything.                   *)
LEMMA RefusalPreserves == IInv /\ Finish("refused") => IInv'
  BY DEF IInv, TypeOK, ChangesInThePast, Measured, NotYetRead, StillHeld, Statted,
    SettledFileReadsWhole, Finish, fileSystem, NoFile, Files

(* What a file held, and what it holds, is a sequence of blocks.           *)
LEMMA BlockSequences == TypeOK => /\ held \in Seq(Blocks) /\ bytes \in Seq(Blocks)
                             /\ \A f \in Files : disk[f].data \in Seq(Blocks)
  <1> SUFFICES ASSUME TypeOK
               PROVE  /\ held \in Seq(Blocks) /\ bytes \in Seq(Blocks)
                      /\ \A f \in Files : disk[f].data \in Seq(Blocks)
    OBVIOUS
  <1>1. held \in Seq(Blocks)
    <2>1. held \in Contents \/ held = <<>>
      BY DEF TypeOK
    <2>2. CASE held \in Contents
      BY <2>2, FileAssumption
    <2>3. CASE held = <<>>
      BY <2>3
    <2> QED  BY <2>1, <2>2, <2>3
  <1>2. \A f \in Files : disk[f].data \in Contents
    BY DEF TypeOK, FileObjects
  <1> QED  BY <1>1, <1>2, FileAssumption DEF TypeOK

(* Between the two fstats: one more block of a file that still is what the *)
(* first fstat saw continues the beginning read so far.                    *)
LEMMA ReadBlockPreserves == IInv /\ ReadBlock => IInv'
  <1> SUFFICES ASSUME IInv, ReadBlock PROVE IInv'
    OBVIOUS
  <1> DEFINE block == disk[fd].data[Len(bytes) + 1]
  <1>1. /\ pc = "read" /\ fd \in Files /\ bytes \in Seq(Blocks)
        /\ disk[fd].data \in Seq(Blocks) /\ disk \in [Files -> FileObjects]
        /\ held \in Seq(Blocks) /\ before \in Metadata
    BY BlockSequences DEF IInv, TypeOK, ReadBlock
  <1>2. /\ Len(bytes) < before.size + 1 /\ Len(bytes) < Len(disk[fd].data)
        /\ bytes' = Append(bytes, block)
        /\ UNCHANGED <<clock, changes, entry, disk, pc, fd, before, statAt, held, result>>
    BY DEF ReadBlock, fileSystem
  <1>3. block \in Blocks
    BY <1>1, <1>2
  <1>4. /\ bytes' \in Seq(Blocks) /\ Len(bytes') = Len(bytes) + 1
        /\ bytes'[Len(bytes) + 1] = block
        /\ \A i \in 1 .. Len(bytes) : bytes'[i] = bytes[i]
    BY <1>1, <1>2, <1>3
  <1> HIDE DEF block
  <1>5. TypeOK'
    BY <1>1, <1>2, <1>4 DEF IInv, TypeOK, Metadata
  <1>6. StillHeld'
    <2> SUFFICES ASSUME Settled, disk[fd].ctime = before.ctime
                 PROVE  /\ disk[fd].data = held
                        /\ Len(bytes') <= Len(held)
                        /\ \A i \in 1 .. Len(bytes') : bytes'[i] = held[i]
      BY <1>2 DEF StillHeld, Settled
    <2>1. /\ disk[fd].data = held
          /\ \A i \in 1 .. Len(bytes) : bytes[i] = held[i]
      BY <1>1 DEF IInv, StillHeld, Statted
    <2>2. block = held[Len(bytes) + 1]
      BY <2>1 DEF block
    <2> QED  BY <1>1, <1>2, <1>4, <2>1, <2>2
  <1> QED  BY <1>1, <1>2, <1>5, <1>6 DEF IInv, ChangesInThePast, Measured, NotYetRead,
    SettledFileReadsWhole

(* Equal metadata and a full length: the bytes are what was held.          *)
LEMMA SecondStatPreserves == IInv /\ SecondStat => IInv'
  <1> SUFFICES ASSUME IInv, SecondStat PROVE IInv'
    OBVIOUS
  <1>1. CASE UnchangedSince(Stat(fd)) /\ Finish("returned")
    <2>1. /\ pc = "restat" /\ bytes \in Seq(Blocks) /\ fd \in Files
          /\ held \in Seq(Blocks) /\ before \in Metadata
      BY BlockSequences DEF IInv, TypeOK, SecondStat
    <2>2. Len(bytes) = before.size /\ disk[fd].ctime = before.ctime
      BY <1>1 DEF UnchangedSince, Stat
    <2>3. Len(bytes) = Len(held) /\ Len(bytes) \in 1 .. Limit
      BY <2>1, <2>2 DEF IInv, Measured, Statted
    <2>4. Settled => bytes = held
      <3> SUFFICES ASSUME Settled PROVE bytes = held
        OBVIOUS
      <3>1. \A i \in 1 .. Len(bytes) : bytes[i] = held[i]
        BY <2>1, <2>2 DEF IInv, StillHeld, Statted
      <3> QED  BY <2>1, <2>3, <3>1
    <2>5. /\ pc' = "done" /\ fd' = NoFile /\ result' = "returned"
          /\ UNCHANGED <<clock, changes, entry, disk, before, statAt, held, bytes>>
      BY <1>1 DEF Finish, fileSystem
    <2>6. TypeOK'
      BY <2>5 DEF IInv, TypeOK, NoFile, Files
    <2> QED  BY <2>3, <2>4, <2>5, <2>6 DEF IInv, ChangesInThePast, Measured, NotYetRead,
      StillHeld, Statted, Settled, SettledFileReadsWhole
  <1>2. CASE Finish("refused")
    BY <1>2, RefusalPreserves
  <1> QED  BY <1>1, <1>2 DEF SecondStat

(* Every system call of readDocument.                                      *)
LEMMA ReaderPreserves == IInv /\ ReadDocument => IInv'
  <1> SUFFICES ASSUME IInv, ReadDocument PROVE IInv'
    OBVIOUS
  <1>1. CASE Finish("refused")
    BY <1>1, RefusalPreserves
  <1>2. CASE Resolve /\ ~Finish("refused")
    BY <1>2 DEF Resolve, IInv, TypeOK, ChangesInThePast, Measured, NotYetRead, StillHeld,
      Statted, SettledFileReadsWhole, fileSystem
  <1>3. CASE Open /\ ~Finish("refused")
    BY <1>3 DEF Open, IInv, TypeOK, ChangesInThePast, Measured, NotYetRead, StillHeld,
      Statted, SettledFileReadsWhole, fileSystem, NoFile, Files
  <1>4. CASE FirstStat /\ ~Finish("refused")
    <2>1. /\ pc = "stat" /\ fd \in Files /\ disk[fd] \in FileObjects
          /\ disk[fd].data \in Seq(Blocks) /\ bytes = <<>> /\ result = "pending"
      BY <1>4, FileAssumption DEF FirstStat, IInv, TypeOK, NotYetRead, FileObjects
    <2>2. /\ Readable(fd) /\ before' = Stat(fd) /\ statAt' = clock
          /\ held' = disk[fd].data /\ pc' = "read"
          /\ UNCHANGED <<clock, changes, entry, disk, fd, bytes, result>>
      BY <1>4 DEF FirstStat, fileSystem
    <2>3. /\ before' \in Metadata /\ before'.size \in 1 .. Limit
          /\ before'.size = Len(held')
      BY <2>1, <2>2, FileAssumption DEF Stat, Readable, Metadata, FileObjects
    <2>4. TypeOK'
      <3>1. held' \in Contents
        BY <2>1, <2>2 DEF FileObjects
      <3>2. before'.size <= Limit /\ Len(bytes) <= before'.size + 1
        BY <2>1, <2>3, FileAssumption
      <3>3. statAt' \in 0 .. clock'
        BY <2>2, FileAssumption DEF IInv, TypeOK
      <3> QED  BY <2>1, <2>2, <2>3, <3>1, <3>2, <3>3 DEF IInv, TypeOK
    <2>5. StillHeld'
      BY <2>1, <2>2 DEF StillHeld, Settled, Stat
    <2> QED  BY <2>1, <2>2, <2>3, <2>4, <2>5 DEF IInv, ChangesInThePast, Measured,
      NotYetRead, SettledFileReadsWhole
  <1>5. CASE ReadBlock
    BY <1>5, ReadBlockPreserves
  <1>6. CASE EndOfRead
    BY <1>6 DEF EndOfRead, IInv, TypeOK, ChangesInThePast, Measured, NotYetRead, StillHeld,
      Statted, Settled, SettledFileReadsWhole, fileSystem
  <1>7. CASE SecondStat
    BY <1>7, SecondStatPreserves
  <1> QED  BY <1>1, <1>2, <1>3, <1>4, <1>5, <1>6, <1>7 DEF ReadDocument, CallFails

(* The strengthened invariant of readDocument.                             *)
THEOREM Invariance == Spec => []IInv
  <1>1. IInv /\ [Next]_vars => IInv'
    <2>1. IInv /\ UNCHANGED vars => IInv'
      BY DEF vars, IInv, TypeOK, ChangesInThePast, Measured, NotYetRead, StillHeld,
        Statted, Settled, SettledFileReadsWhole
    <2> QED  BY <2>1, EnvironmentPreserves, ReaderPreserves DEF Next
  <1> QED  BY <1>1, InitEstablishes, PTL DEF Spec

(* For files of any size and any number of changes, every variable keeps   *)
(* its type and the buffer holds at most one block beyond the first size.  *)
THEOREM TypeCorrect == Spec => []TypeOK
  <1>1. IInv => TypeOK
    BY DEF IInv
  <1> QED  BY <1>1, Invariance, PTL

(* readDocument returns a file that had been left alone for a tick as the  *)
(* first fstat saw it, whole and within the limit, or refuses it, whatever *)
(* another process does to it in between and however often.                *)
THEOREM SettledReadsHold == Spec => []SettledFileReadsWhole
  <1>1. IInv => SettledFileReadsWhole
    BY DEF IInv
  <1> QED  BY <1>1, Invariance, PTL

-----------------------------------------------------------------------------
(* parseJson.                                                              *)

Frames == [closing : ClosingSigns, keys : SUBSET {Decode[s] : s \in Strings}]

(* The traversal's variables.                                              *)
ParserTypes ==
  /\ text \in Texts /\ position \in 1 .. End
  /\ stack \in Seq(Frames)
  /\ stage \in {"value", "member", "separator", "parse", "accepted", "rejected"}
  /\ stage \in {"parse", "accepted"} => position = End /\ stack = <<>>
  /\ stage = "accepted" => Parses(text) /\ Finite
  /\ stage = "member" => stack # <<>>

(* The keys of an open object whose colons were passed are remembered.     *)
Seen(s, n, level, keys) ==
  \A i, colon \in 1 .. n - 1 :
    /\ KeyAt(s, i, colon) /\ Depth(s, i) = level
    /\ \A p \in i .. n : Depth(s, p) >= level
    => Decode[s[i]] \in keys

(* No two keys whose colons were passed have one name in one object.       *)
Distinct(s, n) ==
  \A i, c, j, d \in 1 .. n - 1 :
    KeyAt(s, i, c) /\ KeyAt(s, j, d) /\ i < j /\ SameObject(s, i, j) =>
      Decode[s[i]] # Decode[s[j]]

ShallowBefore(s, n) ==
  \A p \in 1 .. n - 1 : s[p] \in Starts => Depth(s, p) <= MaxDepth

(* No string stands before a position but for blanks.                      *)
AfterStructure(s, n) ==
  \A i \in 1 .. n - 1 : s[i] \in Strings => \E p \in i + 1 .. n - 1 : s[p] # Blank

(* A position of the text has this depth, and what was read of the open    *)
(* objects is remembered.                                                  *)
Placed(n, frames) ==
  /\ Depth(text, n) = Len(frames)
  /\ \A k \in 1 .. Len(frames) : Seen(text, n, k, frames[k].keys)
  /\ Distinct(text, n)

(* In a text that JSON.parse accepts the traversal knows where it is; a    *)
(* value too deep is refused when it is read.                              *)
InPlace ==
  Parses(text) /\ stage # "rejected" =>
    /\ Placed(position, stack)
    /\ \/ ShallowBefore(text, position)
       \/ stage = "value" /\ Len(stack) > MaxDepth
    /\ stage \in {"value", "member"} => AfterStructure(text, position)

JInv == ParserTypes /\ InPlace

-----------------------------------------------------------------------------
(* Positions.                                                              *)

(* Every set of positions that is not empty has a first one.               *)
LEMMA LeastPosition ==
  ASSUME NEW T, T \subseteq Nat, T # {}
  PROVE  \E x \in T : \A y \in T : x <= y
  <1> DEFINE less == {pair \in Nat \X Nat : pair[1] < pair[2]}
  <1>1. IsWellFoundedOn(less, Nat)
    BY NatLessThanWellFounded DEF OpToRel
  <1>2. \A y, x \in Nat : <<y, x>> \in less <=> y < x
    OBVIOUS
  <1> HIDE DEF less
  <1>3. PICK x \in T : \A y \in T : ~(<<y, x>> \in less)
    BY <1>1, WFMin
  <1>4. ASSUME NEW y \in T PROVE x <= y
    <2>1. x \in Nat /\ y \in Nat
      OBVIOUS
    <2>2. ~(<<y, x>> \in less)
      BY <1>3
    <2>3. ~(y < x)
      BY <1>2, <2>1, <2>2
    <2> QED  BY <2>1, <2>3
  <1> QED  BY <1>4

(* The text, its end, and what stands at a position.                       *)
LEMMA TextType ==
  ASSUME TextRules, text \in Texts
  PROVE  /\ text \in Seq(Signs)
         /\ Len(text) \in Nat /\ DOMAIN text = 1 .. Len(text) /\ End = Len(text) + 1
         /\ \A p \in 1 .. End - 1 : p \in DOMAIN text /\ text[p] \in Signs
  <1>1. text \in Seq(Signs)
    BY DEF TextRules
  <1>2. Len(text) \in Nat /\ DOMAIN text = 1 .. Len(text) /\ End = Len(text) + 1
    BY <1>1, LenProperties DEF End
  <1>3. ASSUME NEW p \in 1 .. End - 1 PROVE p \in DOMAIN text /\ text[p] \in Signs
    BY <1>1, <1>2
  <1> QED  BY <1>1, <1>2, <1>3

LEMMA FirstInIs ==
  ASSUME TextRules, text \in Texts, NEW p \in 1 .. End, NEW signs
  PROVE  LET q == FirstIn(p, signs) IN
         /\ q \in p .. End
         /\ q = End \/ text[q] \in signs
         /\ \A r \in p .. q - 1 : text[r] \notin signs
  <1> DEFINE hits == {q \in p .. End : q = End \/ text[q] \in signs}
  <1>1. End \in Nat /\ p \in Nat /\ p <= End
    BY TextType
  <1>2. hits \subseteq Nat /\ End \in hits
    BY <1>1
  <1>3. PICK x \in hits : \A y \in hits : x <= y
    BY <1>2, LeastPosition
  <1>4. /\ x \in p .. End
        /\ x = End \/ text[x] \in signs
        /\ \A r \in p .. x - 1 : text[r] \notin signs
    <2>1. ASSUME NEW r \in p .. x - 1, text[r] \in signs PROVE FALSE
      <3>1. r \in hits
        BY <1>1, <1>2, <2>1
      <3>2. x <= r
        BY <1>3, <3>1
      <3> QED  BY <1>1, <1>2, <3>2
    <2> QED  BY <2>1
  <1>5. \E q \in p .. End :
          /\ q = End \/ text[q] \in signs
          /\ \A r \in p .. q - 1 : text[r] \notin signs
    BY <1>4
  <1> QED  BY <1>5 DEF FirstIn

(* skipWhitespace passes blanks only, to a sign that is none or the end.   *)
LEMMA BlanksSkipped ==
  ASSUME TextRules, text \in Texts, NEW p \in 1 .. End
  PROVE  LET q == AfterBlanks(p) IN
         /\ q \in p .. End
         /\ \A r \in p .. q - 1 : text[r] \in Blanks
         /\ q # End => text[q] \in Signs \ Blanks /\ At(q) = text[q]
         /\ q = End => At(q) = NoSign
  <1> DEFINE q == AfterBlanks(p)
             solid == Signs \ {Blank, OddBlank}
  <1>1. End \in Nat /\ p \in Nat /\ p <= End
    BY TextType
  <1>2. q = FirstIn(p, solid)
    BY <1>1 DEF AfterBlanks
  <1>3. /\ q \in p .. End
        /\ q = End \/ text[q] \in solid
        /\ \A r \in p .. q - 1 : text[r] \notin solid
    BY <1>2, FirstInIs
  <1> HIDE DEF q
  <1>4. \A r \in p .. q - 1 : text[r] \in Blanks
    <2>1. \A r \in p .. q - 1 : r \in 1 .. End - 1
      BY <1>1, <1>3
    <2> QED  BY <1>3, <2>1, TextType DEF Blanks
  <1>5. q # End => q < End
    BY <1>1, <1>3
  <1> QED  BY <1>1, <1>3, <1>4, <1>5 DEF q, At, Blanks

(* The kinds of signs are distinct.                                        *)
LEMMA SignsDiffer ==
  ASSUME TextRules
  PROVE  /\ \A x \in Strings : /\ x \notin Blanks /\ x \notin Opening
                               /\ x \notin ClosingSigns /\ x # ":" /\ x # ","
         /\ \A x \in Blanks : /\ x \notin Strings /\ x \notin Opening
                              /\ x \notin ClosingSigns /\ x # ":" /\ x \notin Starts
         /\ \A x \in Opening : /\ x \notin Strings /\ x \notin Blanks
                               /\ x \notin ClosingSigns /\ x # ":"
         /\ \A x \in ClosingSigns : /\ x \notin Strings /\ x \notin Blanks
                                    /\ x \notin Opening /\ x # ":" /\ x \notin Starts
         /\ \A x \in {":", ","} : /\ x \notin Strings /\ x \notin Blanks /\ x \notin Opening
                                  /\ x \notin ClosingSigns /\ x \notin Starts
         /\ \A x \in {Primitive, Overflow} : /\ x \notin Blanks /\ x \notin Opening
                                             /\ x \notin ClosingSigns /\ x # ":"
         /\ Blank \in Blanks /\ ":" # ","
         /\ NoSign \notin Strings \cup Opening \cup ClosingSigns \cup {":", ","}
  <1> USE DEF NoSign, Blanks, Blank, OddBlank, Opening, ClosingSigns, Primitive, Overflow
  <1>1. \A x \in Others \cup {NoSign} : x \notin Strings
    BY DEF TextRules
  <1>2. /\ Blanks \subseteq Others /\ Opening \subseteq Others /\ ClosingSigns \subseteq Others
        /\ {":", ","} \subseteq Others
    BY DEF Others
  <1>3. \A x \in Strings : /\ x \notin Blanks /\ x \notin Opening
                           /\ x \notin ClosingSigns /\ x # ":" /\ x # ","
    BY <1>1, <1>2, Zenon
  <1>4. \A x \in Blanks : /\ x \notin Opening
                          /\ x \notin ClosingSigns /\ x # ":" /\ x \notin Starts \ Strings
    BY Zenon DEF Starts
  <1>5. \A x \in Opening : x \notin Blanks /\ x \notin ClosingSigns /\ x # ":"
    BY Zenon
  <1>6. \A x \in ClosingSigns : /\ x \notin Blanks /\ x \notin Opening /\ x # ":"
                                /\ x \notin Starts \ Strings
    BY Zenon DEF Starts
  <1>7. \A x \in {":", ","} : /\ x \notin Blanks /\ x \notin Opening
                              /\ x \notin ClosingSigns /\ x \notin Starts \ Strings
    BY Zenon DEF Starts
  <1>8. \A x \in {Primitive, Overflow} : /\ x \notin Blanks /\ x \notin Opening
                                         /\ x \notin ClosingSigns /\ x # ":"
    BY Zenon
  <1>9. Blank \in Blanks /\ ":" # ","
    BY Zenon
  <1>10. NoSign \notin Opening \cup ClosingSigns \cup {":", ","}
    BY Zenon
  <1>11. NoSign \notin Strings
    BY <1>1
  <1> QED  BY <1>1, <1>2, <1>3, <1>4, <1>5, <1>6, <1>7, <1>8, <1>9, <1>10, <1>11, Zenon

LEMMA NoSignIsNone == ASSUME TextRules PROVE NoSign \notin Signs
  BY Zenon DEF TextRules, Signs, NoSign, Others, Primitive, Overflow, BadString, Blank, OddBlank

-----------------------------------------------------------------------------
(* Depths.                                                                 *)

LEMMA BeforeIsFinite ==
  ASSUME NEW s, NEW p \in Nat, NEW signs
  PROVE  IsFiniteSet(Before(s, p, signs)) /\ Cardinality(Before(s, p, signs)) \in Nat
  <1>1. Before(s, p, signs) \subseteq 1 .. p - 1
    BY DEF Before
  <1>2. IsFiniteSet(Before(s, p, signs))
    BY <1>1, FS_Interval, FS_Subset
  <1> QED  BY <1>2, FS_CardinalityType

LEMMA BeforeNext ==
  ASSUME NEW s, NEW p \in Nat \ {0}, NEW signs
  PROVE  Cardinality(Before(s, p + 1, signs))
           = Cardinality(Before(s, p, signs)) + (IF s[p] \in signs THEN 1 ELSE 0)
  <1>1. CASE s[p] \in signs
    <2>1. Before(s, p + 1, signs) = Before(s, p, signs) \cup {p} /\ p \notin Before(s, p, signs)
      BY <1>1 DEF Before
    <2> QED  BY <1>1, <2>1, BeforeIsFinite, FS_AddElement
  <1>2. CASE s[p] \notin signs
    <2>1. Before(s, p + 1, signs) = Before(s, p, signs)
      BY <1>2 DEF Before
    <2> QED  BY <1>2, <2>1, BeforeIsFinite
  <1> QED  BY <1>1, <1>2

(* An opening sign is one level down to what follows, a closing sign one   *)
(* level up.                                                               *)
LEMMA DepthNext ==
  ASSUME NEW s, NEW p \in Nat \ {0}
  PROVE  /\ Depth(s, p) \in Int /\ Depth(s, p + 1) \in Int
         /\ s[p] \in Opening => Depth(s, p + 1) = Depth(s, p) + 1
         /\ s[p] \in ClosingSigns => Depth(s, p + 1) = Depth(s, p) - 1
  <1>1. Opening \cap ClosingSigns = {}
    BY DEF Opening, ClosingSigns
  <1>2. /\ Cardinality(Before(s, p, Opening)) \in Nat
        /\ Cardinality(Before(s, p, ClosingSigns)) \in Nat
    BY BeforeIsFinite
  <1>3. /\ Cardinality(Before(s, p + 1, Opening))
             = Cardinality(Before(s, p, Opening)) + (IF s[p] \in Opening THEN 1 ELSE 0)
        /\ Cardinality(Before(s, p + 1, ClosingSigns))
             = Cardinality(Before(s, p, ClosingSigns)) + (IF s[p] \in ClosingSigns THEN 1 ELSE 0)
    BY BeforeNext
  <1> QED  BY <1>1, <1>2, <1>3 DEF Depth

(* Between brackets the depth stays the same.                              *)
LEMMA DepthFlat ==
  ASSUME NEW s, NEW p \in Nat \ {0}, NEW q \in Nat, p <= q,
         \A r \in p .. q - 1 : s[r] \notin Opening \cup ClosingSigns
  PROVE  \A r \in p .. q : Depth(s, r) = Depth(s, p)
  <1> SUFFICES ASSUME NEW r \in p .. q PROVE Depth(s, r) = Depth(s, p)
    OBVIOUS
  <1>1. ASSUME NEW x \in 1 .. r - 1, s[x] \in Opening \cup ClosingSigns
        PROVE  x \in 1 .. p - 1
    BY <1>1
  <1>2. 1 .. p - 1 \subseteq 1 .. r - 1
    OBVIOUS
  <1>3. Before(s, r, Opening) = Before(s, p, Opening)
    BY <1>1, <1>2 DEF Before
  <1>4. Before(s, r, ClosingSigns) = Before(s, p, ClosingSigns)
    BY <1>1, <1>2 DEF Before
  <1> QED  BY <1>3, <1>4 DEF Depth

LEMMA DepthAtStart == ASSUME NEW s PROVE Depth(s, 1) = 0
  <1>1. Before(s, 1, Opening) = {} /\ Before(s, 1, ClosingSigns) = {}
    BY DEF Before
  <1> QED  BY <1>1, FS_EmptySet DEF Depth

-----------------------------------------------------------------------------
(* What passing signs without a colon keeps.                               *)

NoColon(s, m, n) == \A r \in m .. n - 1 : s[r] # ":"

LEMMA SeenLater ==
  ASSUME NEW s, NEW m \in Nat, NEW n \in Nat, m <= n, NoColon(s, m, n),
         NEW level, NEW keys, Seen(s, m, level, keys)
  PROVE  Seen(s, n, level, keys)
  <1> SUFFICES ASSUME NEW i \in 1 .. n - 1, NEW colon \in 1 .. n - 1,
                      KeyAt(s, i, colon), Depth(s, i) = level,
                      \A p \in i .. n : Depth(s, p) >= level
               PROVE  Decode[s[i]] \in keys
    BY DEF Seen
  <1>1. s[colon] = ":" /\ i < colon
    BY DEF KeyAt
  <1>2. colon \in 1 .. m - 1 /\ i \in 1 .. m - 1
    BY <1>1 DEF NoColon
  <1>3. \A p \in i .. m : Depth(s, p) >= level
    OBVIOUS
  <1> QED  BY <1>2, <1>3 DEF Seen

LEMMA DistinctLater ==
  ASSUME NEW s, NEW m \in Nat, NEW n \in Nat, m <= n, NoColon(s, m, n), Distinct(s, m)
  PROVE  Distinct(s, n)
  <1> SUFFICES ASSUME NEW i \in 1 .. n - 1, NEW c \in 1 .. n - 1,
                      NEW j \in 1 .. n - 1, NEW d \in 1 .. n - 1,
                      KeyAt(s, i, c), KeyAt(s, j, d), i < j, SameObject(s, i, j)
               PROVE  Decode[s[i]] # Decode[s[j]]
    BY DEF Distinct
  <1>1. s[c] = ":" /\ i < c /\ s[d] = ":" /\ j < d
    BY DEF KeyAt
  <1>2. {c, d, i, j} \subseteq 1 .. m - 1
    BY <1>1 DEF NoColon
  <1> QED  BY <1>2 DEF Distinct

(* An object just opened has no keys yet.                                  *)
LEMMA SeenOpened ==
  ASSUME NEW s, NEW m \in Nat, NEW n \in Nat, m <= n, NoColon(s, m, n),
         NEW level \in Nat, Depth(s, m) < level, Depth(s, m) \in Int
  PROVE  Seen(s, n, level, {})
  <1> SUFFICES ASSUME NEW i \in 1 .. n - 1, NEW colon \in 1 .. n - 1,
                      KeyAt(s, i, colon), \A p \in i .. n : Depth(s, p) >= level
               PROVE  FALSE
    BY DEF Seen
  <1>1. s[colon] = ":" /\ i < colon
    BY DEF KeyAt
  <1>2. m \in i .. n
    BY <1>1 DEF NoColon
  <1> QED  BY <1>2

(* A colon belongs to one key.                                             *)
LEMMA OneKey ==
  ASSUME TextRules, NEW s, NEW i \in Nat, NEW j \in Nat, NEW colon \in Nat,
         KeyAt(s, i, colon), KeyAt(s, j, colon)
  PROVE  i = j
  <1>1. s[i] # Blank /\ s[j] # Blank
    <2>1. Blank \notin Strings
      BY SignsDiffer, Zenon
    <2> QED  BY <2>1 DEF KeyAt
  <1>2. ~(i < j)
    <2>1. i < j => j \in i + 1 .. colon - 1
      BY DEF KeyAt
    <2> QED  BY <1>1, <2>1 DEF KeyAt
  <1>3. ~(j < i)
    <2>1. j < i => i \in j + 1 .. colon - 1
      BY DEF KeyAt
    <2> QED  BY <1>1, <2>1 DEF KeyAt
  <1> QED  BY <1>2, <1>3

(* Passing one more key, at j, adds its name at its level and to no other. *)
LEMMA SeenKey ==
  ASSUME TextRules, NEW s, NEW m \in Nat, NEW j \in Nat, NEW colon \in Nat,
         m <= j, j < colon, KeyAt(s, j, colon), NoColon(s, m, colon),
         NEW level, NEW keys, Seen(s, m, level, keys),
         NEW more, keys \subseteq more,
         Depth(s, j) = level => Decode[s[j]] \in more
  PROVE  Seen(s, colon + 1, level, more)
  <1> SUFFICES ASSUME NEW i \in 1 .. colon, NEW c \in 1 .. colon,
                      KeyAt(s, i, c), Depth(s, i) = level,
                      \A p \in i .. colon + 1 : Depth(s, p) >= level
               PROVE  Decode[s[i]] \in more
    BY DEF Seen
  <1>1. s[c] = ":" /\ i < c
    BY DEF KeyAt
  <1>2. CASE c = colon
    BY <1>2, OneKey
  <1>3. CASE c # colon
    <2>1. c \in 1 .. m - 1 /\ i \in 1 .. m - 1
      BY <1>1, <1>3 DEF NoColon
    <2>2. \A p \in i .. m : Depth(s, p) >= level
      OBVIOUS
    <2> QED  BY <2>1, <2>2 DEF Seen
  <1> QED  BY <1>2, <1>3

(* A key whose name is none of those seen at its level is a new one.       *)
LEMMA DistinctKey ==
  ASSUME TextRules, NEW s, NEW m \in Nat, NEW j \in Nat, NEW colon \in Nat,
         m <= j, j < colon, KeyAt(s, j, colon), NoColon(s, m, colon),
         NEW keys, Seen(s, m, Depth(s, j), keys), Decode[s[j]] \notin keys,
         Distinct(s, m)
  PROVE  Distinct(s, colon + 1)
  <1> SUFFICES ASSUME NEW i \in 1 .. colon, NEW c \in 1 .. colon,
                      NEW k \in 1 .. colon, NEW d \in 1 .. colon,
                      KeyAt(s, i, c), KeyAt(s, k, d), i < k, SameObject(s, i, k)
               PROVE  Decode[s[i]] # Decode[s[k]]
    BY DEF Distinct
  <1>1. s[c] = ":" /\ i < c /\ s[d] = ":" /\ k < d
    BY DEF KeyAt
  <1>2. c # colon => c \in 1 .. m - 1
    BY <1>1 DEF NoColon
  <1>3. d # colon => d \in 1 .. m - 1
    BY <1>1 DEF NoColon
  <1>4. c = colon => i = j
    BY OneKey
  <1>5. d = colon => k = j
    BY OneKey
  <1>6. CASE d = colon
    <2>1. k = j
      BY <1>5, <1>6
    <2>2. c # colon
      BY <1>4, <2>1
    <2>3. i \in 1 .. m - 1 /\ c \in 1 .. m - 1
      BY <1>1, <1>2, <2>2
    <2>4. Depth(s, i) = Depth(s, j) /\ \A p \in i .. m : Depth(s, p) >= Depth(s, j)
      BY <2>1 DEF SameObject
    <2>5. Decode[s[i]] \in keys
      BY <2>3, <2>4 DEF Seen
    <2> QED  BY <2>1, <2>5
  <1>7. CASE d # colon
    <2>1. c # colon
      BY <1>1, <1>3, <1>4, <1>7
    <2>2. {i, c, k, d} \subseteq 1 .. m - 1
      BY <1>1, <1>2, <1>3, <1>7, <2>1
    <2> QED  BY <2>2 DEF Distinct
  <1> QED  BY <1>6, <1>7

(* Passing signs that are values or keys only within the nesting limit.    *)
LEMMA ShallowLater ==
  ASSUME NEW s, NEW m \in Nat, NEW n \in Nat, m <= n, ShallowBefore(s, m),
         \A p \in m .. n - 1 : s[p] \in Starts => Depth(s, p) <= MaxDepth
  PROVE  ShallowBefore(s, n)
  BY DEF ShallowBefore

(* After a sign that is neither a string nor a blank, none of them strings *)
(* follows.                                                                *)
LEMMA AfterSign ==
  ASSUME NEW s, NEW n \in Nat, NEW m \in 1 .. n - 1, s[m] \notin Strings, s[m] # Blank,
         \A r \in m + 1 .. n - 1 : s[r] \notin Strings
  PROVE  AfterStructure(s, n)
  <1> SUFFICES ASSUME NEW i \in 1 .. n - 1, s[i] \in Strings
               PROVE  \E p \in i + 1 .. n - 1 : s[p] # Blank
    BY DEF AfterStructure
  <1>1. i < m
    OBVIOUS
  <1>2. m \in i + 1 .. n - 1
    BY <1>1
  <1> QED  BY <1>2

-----------------------------------------------------------------------------
(* Steps of the traversal.                                                 *)

(* From position m on there are only blanks before p.                      *)
Passed(m, p) ==
  /\ p \in Nat /\ m <= p /\ p <= End
  /\ \A r \in m .. p - 1 : text[r] \in Blanks

LEMMA AfterBlanksPassed ==
  ASSUME TextRules, text \in Texts, NEW m \in 1 .. End
  PROVE  LET p == AfterBlanks(m) IN
         /\ p \in 1 .. End /\ Passed(m, p)
         /\ At(p) # NoSign => p \in 1 .. Len(text) /\ At(p) = text[p] /\ text[p] \notin Blanks
         /\ p = End \/ At(p) # NoSign
  <1> DEFINE p == AfterBlanks(m)
  <1>1. End = Len(text) + 1 /\ Len(text) \in Nat
    BY TextType
  <1>2. /\ p \in m .. End
        /\ \A r \in m .. p - 1 : text[r] \in Blanks
        /\ p # End => text[p] \in Signs \ Blanks /\ At(p) = text[p]
        /\ p = End => At(p) = NoSign
    BY BlanksSkipped
  <1> HIDE DEF p
  <1>3. p \in Nat /\ m <= p /\ p <= End /\ p \in 1 .. End
    BY <1>1, <1>2
  <1>4. p # End => p \in 1 .. Len(text)
    BY <1>1, <1>3
  <1>5. p = End \/ At(p) # NoSign
    BY <1>2, NoSignIsNone
  <1> QED  BY <1>2, <1>3, <1>4, <1>5 DEF p, Passed

(* Blanks have no colon, no value, no key and no level.                    *)
LEMMA BlanksAreFlat ==
  ASSUME TextRules, NEW m \in Nat \ {0}, NEW p, Passed(m, p)
  PROVE  /\ \A r \in m .. p - 1 : /\ text[r] # ":" /\ text[r] \notin Strings
                                  /\ text[r] \notin Starts
                                  /\ text[r] \notin Opening \cup ClosingSigns
         /\ \A r \in m .. p : Depth(text, r) = Depth(text, m)
         /\ Depth(text, p) = Depth(text, m)
  <1>1. p \in Nat /\ m <= p /\ \A r \in m .. p - 1 : text[r] \in Blanks
    BY DEF Passed
  <1>2. \A x \in Blanks : /\ x # ":" /\ x \notin Strings /\ x \notin Starts
                          /\ x \notin Opening \cup ClosingSigns
    BY SignsDiffer, Zenon
  <1>3. \A r \in m .. p - 1 : /\ text[r] # ":" /\ text[r] \notin Strings
                              /\ text[r] \notin Starts
                              /\ text[r] \notin Opening \cup ClosingSigns
    BY <1>1, <1>2, Zenon
  <1>4. \A r \in m .. p : Depth(text, r) = Depth(text, m)
    BY <1>1, <1>3, DepthFlat
  <1>5. p \in m .. p
    BY <1>1
  <1> QED  BY <1>3, <1>4, <1>5

(* One step, from a position before blanks to the sign at p.               *)
StringRead(p) ==
  /\ stage = "value" /\ Len(stack) <= MaxDepth
  /\ text[p] \in Strings
  /\ Continue(p + 1, "separator") /\ UNCHANGED stack

EmptyRead(p, q) ==
  /\ stage = "value" /\ Len(stack) <= MaxDepth
  /\ text[p] \in Opening /\ Passed(p + 1, q) /\ text[q] \in ClosingSigns
  /\ Continue(q + 1, "separator") /\ UNCHANGED stack

OpeningRead(p, q, frame) ==
  /\ stage = "value" /\ Len(stack) <= MaxDepth
  /\ text[p] \in Opening /\ Passed(p + 1, q)
  /\ q = End \/ text[q] \notin Blanks \cup {frame.closing}
  /\ frame.closing = Closing(text[p]) /\ frame.keys = {}
  /\ stack' = Append(stack, frame)
  /\ Continue(q, "member")

PrimitiveRead(p, after) ==
  /\ stage = "value" /\ Len(stack) <= MaxDepth
  /\ text[p] \in {Primitive, Overflow, ":"} /\ p < after
  /\ \A r \in p .. after - 1 : text[r] \notin {Blank, OddBlank, ",", "]", "}"}
  /\ Continue(after, "separator") /\ UNCHANGED stack

KeyRead(p, colon) ==
  /\ stage = "member"
  /\ text[p] \in Strings /\ Passed(p + 1, colon) /\ text[colon] = ":"
  /\ Decode[text[p]] \notin Top.keys
  /\ stack' = Append(Below, [Top EXCEPT !.keys = @ \cup {Decode[text[p]]}])
  /\ Continue(colon + 1, "value")

ClosingRead(p) ==
  /\ stage = "separator" /\ stack # <<>>
  /\ text[p] \in ClosingSigns
  /\ stack' = Below /\ Continue(p + 1, "separator")

CommaRead(p) ==
  /\ stage = "separator" /\ stack # <<>>
  /\ text[p] = ","
  /\ Continue(p + 1, "member") /\ UNCHANGED stack

Step(p) ==
  \/ StringRead(p) \/ ClosingRead(p) \/ CommaRead(p)
  \/ \E q \in 1 .. Len(text) : EmptyRead(p, q) \/ KeyRead(p, q)
  \/ \E q \in 1 .. End : PrimitiveRead(p, q) \/ \E frame \in Frames : OpeningRead(p, q, frame)

LEMMA ClosingOfOpening ==
  ASSUME NEW x \in Opening
  PROVE  Closing(x) \in ClosingSigns
  BY DEF Closing, ClosingSigns

(* The innermost open object or array, and those around it.                *)
LEMMA TopBelow ==
  ASSUME stack \in Seq(Frames), stack # <<>>
  PROVE  /\ Len(stack) \in Nat \ {0} /\ Top \in Frames /\ Top = stack[Len(stack)]
         /\ Below \in Seq(Frames) /\ Len(Below) = Len(stack) - 1
         /\ \A k \in 1 .. Len(stack) - 1 : Below[k] = stack[k]
  <1>1. Len(stack) \in Nat \ {0}
    BY EmptySeq, LenProperties
  <1>2. Top \in Frames
    BY <1>1, ElementOfSeq DEF Top
  <1> DEFINE n == Len(stack) - 1
             low == SubSeq(stack, 1, n)
  <1>3. \A i \in 1 .. n : stack[i] \in Frames
    BY <1>1, ElementOfSeq
  <1>4. n \in Nat
    BY <1>1
  <1> HIDE DEF n
  <1>5. /\ low \in Seq(Frames)
        /\ Len(low) = (IF 1 <= n THEN n - 1 + 1 ELSE 0)
        /\ \A i \in 1 .. n - 1 + 1 : low[i] = stack[1 + i - 1]
    BY <1>3, <1>4, SubSeqProperties
  <1> HIDE DEF low
  <1>6. Len(low) = n /\ \A i \in 1 .. n : low[i] = stack[i]
    BY <1>4, <1>5
  <1> QED  BY <1>1, <1>2, <1>5, <1>6 DEF Top, Below, low, n

(* What is read next.                                                      *)
LEMMA SignsRead ==
  ASSUME TextRules
  PROVE  /\ \A x \in Strings \cup Opening \cup ClosingSigns \cup {":", ","} : x # NoSign
         /\ \A x \in Signs \ Blanks :
              x \notin Strings \cup {BadString, "{", "["} /\ x \notin {",", "]", "}"} =>
                x \in {Primitive, Overflow, ":"}
  <1>1. \A x \in Strings \cup Opening \cup ClosingSigns \cup {":", ","} : x # NoSign
    BY SignsDiffer, Zenon
  <1>2. ASSUME NEW x \in Signs \ Blanks,
               x \notin Strings \cup {BadString, "{", "["}, x \notin {",", "]", "}"}
        PROVE  x \in {Primitive, Overflow, ":"}
    BY <1>2, Zenon DEF Signs, Others, Blanks
  <1> QED  BY <1>1, <1>2, Zenon

LEMMA ReadValueSteps ==
  ASSUME TextRules, ParserTypes, ReadValue
  PROVE  \E p \in 1 .. Len(text) : Passed(position, p) /\ Step(p)
  <1> DEFINE p == AfterBlanks(position)
             q == AfterBlanks(p + 1)
             frame == [closing |-> Closing(At(p)), keys |-> {}]
  <1>1. text \in Texts /\ position \in 1 .. End
    BY DEF ParserTypes
  <1>2. /\ p \in 1 .. End /\ Passed(position, p)
        /\ At(p) # NoSign => p \in 1 .. Len(text) /\ At(p) = text[p]
    BY <1>1, AfterBlanksPassed
  <1>3. stage = "value" /\ Len(stack) <= MaxDepth
    BY Zenon DEF ReadValue
  <1>4. \/ At(p) \in Strings /\ Continue(p + 1, "separator") /\ UNCHANGED stack
        \/ /\ At(p) \in Opening
           /\ \/ /\ At(q) = Closing(At(p))
                 /\ Continue(q + 1, "separator") /\ UNCHANGED stack
              \/ /\ At(q) # Closing(At(p))
                 /\ stack' = Append(stack, frame) /\ Continue(q, "member")
    BY Zenon DEF ReadValue, Opening
  <1> HIDE DEF p
  <1>5. p \in 1 .. Len(text) /\ At(p) = text[p]
    <2>1. At(p) # NoSign
      BY <1>4, SignsRead, Zenon
    <2> QED  BY <1>2, <2>1, Zenon
  <1>6. CASE At(p) \in Strings /\ Continue(p + 1, "separator") /\ UNCHANGED stack
    <2>1. StringRead(p)
      BY <1>3, <1>5, <1>6 DEF StringRead
    <2> QED  BY <1>2, <1>5, <2>1 DEF Step
  <1>7. p + 1 \in 1 .. End
    BY <1>1, <1>5, TextType
  <1>8. /\ q \in 1 .. End /\ Passed(p + 1, q)
        /\ At(q) # NoSign => q \in 1 .. Len(text) /\ At(q) = text[q] /\ text[q] \notin Blanks
        /\ q = End \/ At(q) # NoSign
    BY <1>1, <1>7, AfterBlanksPassed
  <1> HIDE DEF q
  <1>9. CASE /\ At(p) \in Opening /\ At(q) = Closing(At(p))
             /\ Continue(q + 1, "separator") /\ UNCHANGED stack
    <2>1. At(q) \in ClosingSigns
      BY <1>9, ClosingOfOpening
    <2>2. q \in 1 .. Len(text) /\ At(q) = text[q]
      <3>1. At(q) # NoSign
        BY <2>1, SignsRead, Zenon
      <3> QED  BY <1>8, <3>1, Zenon
    <2>3. EmptyRead(p, q)
      BY <1>3, <1>5, <1>8, <1>9, <2>1, <2>2 DEF EmptyRead
    <2> QED  BY <1>2, <1>5, <2>2, <2>3 DEF Step
  <1>10. CASE /\ At(p) \in Opening /\ At(q) # Closing(At(p))
              /\ stack' = Append(stack, frame) /\ Continue(q, "member")
    <2>1. frame \in Frames /\ frame.keys = {} /\ frame.closing = Closing(At(p))
      BY <1>10, ClosingOfOpening DEF Frames
    <2> HIDE DEF frame
    <2>2. q = End \/ text[q] \notin Blanks \cup {frame.closing}
      BY <1>8, <1>10, <2>1
    <2>3. OpeningRead(p, q, frame)
      BY <1>3, <1>5, <1>8, <1>10, <2>1, <2>2, Zenon DEF OpeningRead
    <2> QED  BY <1>2, <1>5, <1>8, <2>1, <2>3 DEF Step
  <1> QED  BY <1>4, <1>6, <1>9, <1>10, Zenon

LEMMA SkipPrimitiveSteps ==
  ASSUME TextRules, ParserTypes, SkipPrimitive
  PROVE  \E p \in 1 .. Len(text) : Passed(position, p) /\ Step(p)
  <1> DEFINE p == AfterBlanks(position)
             ends == {Blank, OddBlank, ",", "]", "}"}
             after == FirstIn(p, ends)
  <1>1. text \in Texts /\ position \in 1 .. End
    BY DEF ParserTypes
  <1>2. /\ p \in 1 .. End /\ Passed(position, p)
        /\ At(p) # NoSign => p \in 1 .. Len(text) /\ At(p) = text[p] /\ text[p] \notin Blanks
    BY <1>1, AfterBlanksPassed
  <1>3. /\ stage = "value" /\ Len(stack) <= MaxDepth
        /\ At(p) \notin Strings \cup {BadString, "{", "["}
        /\ after > p /\ Continue(after, "separator") /\ UNCHANGED stack
    BY Zenon DEF SkipPrimitive
  <1> HIDE DEF p, ends
  <1>4. after \in p .. End /\ \A r \in p .. after - 1 : text[r] \notin ends
    BY <1>1, <1>2, FirstInIs
  <1> HIDE DEF after
  <1>5. End = Len(text) + 1 /\ Len(text) \in Nat
    BY <1>1, TextType
  <1>6. /\ after \in 1 .. End /\ p < after /\ p \in 1 .. Len(text)
        /\ p \in p .. after - 1 /\ p < End
    <2>1. p \in 1 .. End /\ after \in p .. End /\ after > p
      BY <1>2, <1>3, <1>4, Zenon
    <2> QED  BY <1>5, <2>1
  <1>7. At(p) = text[p]
    BY <1>6 DEF At
  <1>8. text[p] \in Signs
    BY <1>1, <1>5, <1>6, TextType
  <1>9. text[p] # NoSign
    BY <1>8, NoSignIsNone
  <1>10. text[p] \notin Blanks /\ text[p] \notin {",", "]", "}"}
    <2>1. text[p] \notin ends
      BY <1>4, <1>6
    <2> QED  BY <2>1, Zenon DEF ends, Blanks
  <1>11. text[p] \in {Primitive, Overflow, ":"}
    BY <1>3, <1>7, <1>8, <1>10, SignsRead, Zenon
  <1>12. PrimitiveRead(p, after)
    BY <1>3, <1>4, <1>6, <1>11, Zenon DEF PrimitiveRead, ends
  <1> QED  BY <1>2, <1>6, <1>12 DEF Step

LEMMA ReadKeySteps ==
  ASSUME TextRules, ParserTypes, ReadKey
  PROVE  \E p \in 1 .. Len(text) : Passed(position, p) /\ Step(p)
  <1> DEFINE p == AfterBlanks(position)
             q == AfterBlanks(p + 1)
  <1>1. text \in Texts /\ position \in 1 .. End
    BY DEF ParserTypes
  <1>2. /\ p \in 1 .. End /\ Passed(position, p)
        /\ At(p) # NoSign => p \in 1 .. Len(text) /\ At(p) = text[p]
    BY <1>1, AfterBlanksPassed
  <1>3. /\ stage = "member"
        /\ At(p) \in Strings /\ At(q) = ":"
        /\ Decode[At(p)] \notin Top.keys
        /\ stack' = Append(Below, [Top EXCEPT !.keys = @ \cup {Decode[At(p)]}])
        /\ Continue(q + 1, "value")
    BY Zenon DEF ReadKey
  <1> HIDE DEF p
  <1>4. p \in 1 .. Len(text) /\ At(p) = text[p]
    <2>1. At(p) # NoSign
      BY <1>3, SignsRead, Zenon
    <2> QED  BY <1>2, <2>1, Zenon
  <1>5. p + 1 \in 1 .. End
    BY <1>1, <1>4, TextType
  <1>6. /\ q \in 1 .. End /\ Passed(p + 1, q)
        /\ At(q) # NoSign => q \in 1 .. Len(text) /\ At(q) = text[q]
    BY <1>1, <1>5, AfterBlanksPassed
  <1> HIDE DEF q
  <1>7. q \in 1 .. Len(text) /\ At(q) = text[q]
    <2>1. At(q) # NoSign
      BY <1>3, SignsRead, Zenon
    <2> QED  BY <1>6, <2>1, Zenon
  <1>8. KeyRead(p, q)
    BY <1>3, <1>4, <1>6, <1>7 DEF KeyRead
  <1> QED  BY <1>2, <1>4, <1>7, <1>8 DEF Step

LEMMA ReadSeparatorSteps ==
  ASSUME TextRules, ParserTypes, ReadSeparator
  PROVE  \E p \in 1 .. Len(text) : Passed(position, p) /\ Step(p)
  <1> DEFINE p == AfterBlanks(position)
  <1>1. text \in Texts /\ position \in 1 .. End /\ stack \in Seq(Frames)
    BY DEF ParserTypes
  <1>2. /\ p \in 1 .. End /\ Passed(position, p)
        /\ At(p) # NoSign => p \in 1 .. Len(text) /\ At(p) = text[p]
    BY <1>1, AfterBlanksPassed
  <1>3. /\ stage = "separator" /\ stack # <<>>
        /\ \/ At(p) = Top.closing /\ stack' = Below /\ Continue(p + 1, "separator")
           \/ At(p) = "," /\ Continue(p + 1, "member") /\ UNCHANGED stack
    BY Zenon DEF ReadSeparator
  <1> HIDE DEF p
  <1>4. Top.closing \in ClosingSigns
    <2>1. stack \in Seq(Frames) /\ stack # <<>>
      BY <1>1, <1>3, Zenon
    <2>2. Top \in Frames
      BY <2>1, TopBelow, Zenon
    <2> QED  BY <2>2 DEF Frames
  <1>5. p \in 1 .. Len(text) /\ At(p) = text[p]
    <2>1. At(p) # NoSign
      BY <1>3, <1>4, SignsRead, Zenon
    <2> QED  BY <1>2, <2>1, Zenon
  <1>6. ClosingRead(p) \/ CommaRead(p)
    BY <1>3, <1>4, <1>5, Zenon DEF ClosingRead, CommaRead
  <1> QED  BY <1>2, <1>5, <1>6 DEF Step

LEMMA EndIsReached ==
  ASSUME TextRules, ParserTypes, EndOfTraversal
  PROVE  /\ Passed(position, End) /\ stack = <<>> /\ stage = "separator"
         /\ Continue(End, "parse") /\ UNCHANGED stack
  <1>1. text \in Texts /\ position \in 1 .. End
    BY DEF ParserTypes
  <1>2. AfterBlanks(position) = End /\ stack = <<>> /\ stage = "separator"
        /\ Continue(End, "parse") /\ UNCHANGED stack
    BY DEF EndOfTraversal
  <1>3. Passed(position, AfterBlanks(position))
    BY <1>1, AfterBlanksPassed
  <1> QED  BY <1>2, <1>3

(* Every step of the traversal reads one of these, or goes on at once.     *)
LEMMA TraverseSteps ==
  ASSUME TextRules, ParserTypes, Traverse
  PROVE  \/ \E p \in 1 .. Len(text) : Passed(position, p) /\ Step(p)
         \/ NextElement
         \/ EndOfTraversal
  BY ReadValueSteps, SkipPrimitiveSteps, ReadKeySteps, ReadSeparatorSteps, Zenon DEF Traverse

(* The variables keep their types.                                         *)
LEMMA TypesContinue ==
  ASSUME ParserTypes, NEW where \in 1 .. End, NEW next \in {"value", "member", "separator"},
         Continue(where, next), stack' \in Seq(Frames), next = "member" => stack' # <<>>
  PROVE  ParserTypes'
  <1>1. text' = text /\ position' = where /\ stage' = next
    BY DEF Continue
  <1>2. End' = End
    BY <1>1 DEF End
  <1>3. stage' \in {"value", "member", "separator", "parse", "accepted", "rejected"}
        /\ stage' \notin {"parse", "accepted"}
    BY <1>1
  <1>4. text \in Texts
    BY DEF ParserTypes
  <1> QED  BY <1>1, <1>2, <1>3, <1>4 DEF ParserTypes

LEMMA StepKeepsTypes ==
  ASSUME TextRules, ParserTypes, NEW p \in 1 .. Len(text), Step(p)
  PROVE  ParserTypes'
  <1>1. text \in Texts /\ position \in 1 .. End /\ stack \in Seq(Frames)
        /\ (stage = "member" => stack # <<>>)
    BY DEF ParserTypes
  <1>2. End = Len(text) + 1 /\ Len(text) \in Nat
    BY <1>1, TextType
  <1>3. \A x \in 1 .. Len(text) : x + 1 \in 1 .. End
    BY <1>2
  <1>4. CASE StringRead(p)
    <2>1. Continue(p + 1, "separator") /\ stack' = stack
      BY <1>4 DEF StringRead
    <2> QED  BY <1>1, <1>3, <2>1, TypesContinue
  <1>5. ASSUME NEW q \in 1 .. Len(text), EmptyRead(p, q) PROVE ParserTypes'
    <2>1. Continue(q + 1, "separator") /\ stack' = stack
      BY <1>5 DEF EmptyRead
    <2> QED  BY <1>1, <1>3, <2>1, TypesContinue
  <1>6. ASSUME NEW q \in 1 .. End, NEW frame \in Frames, OpeningRead(p, q, frame)
        PROVE  ParserTypes'
    <2>1. Continue(q, "member") /\ stack' = Append(stack, frame)
      BY <1>6 DEF OpeningRead
    <2>2. stack' \in Seq(Frames) /\ stack' # <<>>
      BY <1>1, <2>1, AppendProperties
    <2> QED  BY <2>1, <2>2, TypesContinue
  <1>7. ASSUME NEW after \in 1 .. End, PrimitiveRead(p, after) PROVE ParserTypes'
    <2>1. Continue(after, "separator") /\ stack' = stack
      BY <1>7, Zenon DEF PrimitiveRead
    <2> QED  BY <1>1, <2>1, TypesContinue
  <1>8. ASSUME NEW colon \in 1 .. Len(text), KeyRead(p, colon) PROVE ParserTypes'
    <2> DEFINE frame == [Top EXCEPT !.keys = @ \cup {Decode[text[p]]}]
    <2>1. /\ stack # <<>> /\ stack' = Append(Below, frame) /\ text[p] \in Strings
          /\ Continue(colon + 1, "value")
      BY <1>1, <1>8 DEF KeyRead
    <2>2. Top \in Frames /\ Below \in Seq(Frames)
      BY <1>1, <2>1, TopBelow
    <2>3. frame \in Frames
      BY <2>1, <2>2 DEF Frames
    <2> HIDE DEF frame
    <2>4. stack' \in Seq(Frames)
      BY <2>1, <2>2, <2>3, AppendProperties
    <2> QED  BY <1>3, <2>1, <2>4, TypesContinue
  <1>9. CASE ClosingRead(p)
    <2>1. stack # <<>> /\ stack' = Below /\ Continue(p + 1, "separator")
      BY <1>9 DEF ClosingRead
    <2>2. stack' \in Seq(Frames)
      BY <1>1, <2>1, TopBelow
    <2> QED  BY <1>3, <2>1, <2>2, TypesContinue
  <1>10. CASE CommaRead(p)
    <2>1. stack # <<>> /\ stack' = stack /\ Continue(p + 1, "member")
      BY <1>10, Zenon DEF CommaRead
    <2> QED  BY <1>1, <1>3, <2>1, TypesContinue
  <1> QED  BY <1>4, <1>5, <1>6, <1>7, <1>8, <1>9, <1>10, Zenon DEF Step

LEMMA NextKeepsTypes ==
  ASSUME TextRules, ParserTypes, [JsonNext]_jsonVars
  PROVE  ParserTypes'
  <1>1. text \in Texts /\ position \in 1 .. End /\ stack \in Seq(Frames)
    BY DEF ParserTypes
  <1>2. End \in 1 .. End
    BY <1>1, TextType
  <1>3. CASE Traverse
    <2>1. CASE \E p \in 1 .. Len(text) : Step(p)
      BY <2>1, StepKeepsTypes
    <2>2. CASE NextElement
      <3>1. Continue(position, "value") /\ stack' = stack
        BY <2>2 DEF NextElement
      <3> QED  BY <1>1, <3>1, TypesContinue
    <2>3. CASE EndOfTraversal
      <3>1. Continue(End, "parse") /\ stack' = stack /\ stack = <<>>
        BY <2>3, EndIsReached
      <3> QED  BY <1>1, <1>2, <3>1 DEF Continue, ParserTypes, End
    <2> QED  BY <1>3, <2>1, <2>2, <2>3, TraverseSteps, Zenon
  <1>4. CASE Refuse
    BY <1>4 DEF Refuse, Reject, ParserTypes, End
  <1>5. CASE Parse
    BY <1>5 DEF Parse, Continue, ParserTypes, End, Finite
  <1>6. CASE UNCHANGED jsonVars
    BY <1>6 DEF jsonVars, ParserTypes, End, Finite
  <1> QED  BY <1>3, <1>4, <1>5, <1>6, Zenon DEF JsonNext

-----------------------------------------------------------------------------
(* The place in a valid text.                                              *)

(* A string, blanks whatever they are, and a colon are a key.              *)
LEMMA KeyIs ==
  ASSUME TextRules, GrammarRules, text \in Texts, Parses(text),
         NEW p \in 1 .. Len(text), NEW colon \in 1 .. Len(text),
         text[p] \in Strings, Passed(p + 1, colon), text[colon] = ":"
  PROVE  KeyAt(text, p, colon) /\ NoColon(text, p, colon) /\ p < colon
  <1>1. Len(text) \in Nat /\ DOMAIN text = 1 .. Len(text)
    BY TextType
  <1>2. p + 1 <= colon /\ p + 1 \in Nat \ {0} /\ p \in Nat
    BY <1>1 DEF Passed
  <1>3. \A r \in p + 1 .. colon - 1 : text[r] \notin Strings /\ text[r] # ":"
    BY <1>2, BlanksAreFlat
  <1>4. \E i \in 1 .. colon - 1 :
          text[i] \in Strings /\ \A j \in i + 1 .. colon - 1 : text[j] = Blank
    BY <1>1, Zenon DEF GrammarRules
  <1>5. PICK i \in 1 .. colon - 1 :
          text[i] \in Strings /\ \A j \in i + 1 .. colon - 1 : text[j] = Blank
    BY <1>4
  <1>6. text[p] # Blank /\ text[p] # ":"
    BY SignsDiffer, Zenon
  <1>7. ~(i < p)
    <2>1. i < p => p \in i + 1 .. colon - 1
      BY <1>1, <1>2
    <2> QED  BY <1>5, <1>6, <2>1
  <1>8. ~(p < i)
    <2>1. p < i => i \in p + 1 .. colon - 1
      BY <1>1, <1>2
    <2> QED  BY <1>3, <1>5, <2>1
  <1>9. i = p
    BY <1>2, <1>7, <1>8
  <1>10. KeyAt(text, p, colon)
    BY <1>2, <1>5, <1>9 DEF KeyAt
  <1>11. NoColon(text, p, colon)
    <2>1. \A r \in p .. colon - 1 : r = p \/ r \in p + 1 .. colon - 1
      BY <1>1, <1>2
    <2> QED  BY <1>3, <1>6, <2>1 DEF NoColon
  <1> QED  BY <1>2, <1>10, <1>11

(* Passing signs that are no colon and no bracket changes nothing.         *)
LEMMA PlaceAfterFlat ==
  ASSUME NEW m \in Nat \ {0}, NEW n \in Nat, m <= n,
         \A r \in m .. n - 1 : text[r] # ":" /\ text[r] \notin Opening \cup ClosingSigns,
         NEW frames, Placed(m, frames)
  PROVE  Placed(n, frames)
  <1>1. NoColon(text, m, n)
    BY DEF NoColon
  <1>2. Depth(text, n) = Depth(text, m)
    <2>1. n \in m .. n
      OBVIOUS
    <2> QED  BY <2>1, DepthFlat
  <1>3. \A k \in 1 .. Len(frames) : Seen(text, n, k, frames[k].keys)
    BY <1>1, SeenLater DEF Placed
  <1>4. Distinct(text, n)
    BY <1>1, DistinctLater DEF Placed
  <1> QED  BY <1>2, <1>3, <1>4 DEF Placed

LEMMA PlaceAfterBlanks ==
  ASSUME TextRules, NEW m \in Nat \ {0}, NEW p, Passed(m, p), NEW frames, Placed(m, frames)
  PROVE  Placed(p, frames)
  <1>1. p \in Nat /\ m <= p
    BY DEF Passed
  <1>2. \A r \in m .. p - 1 : text[r] # ":" /\ text[r] \notin Opening \cup ClosingSigns
    BY BlanksAreFlat, Zenon
  <1> QED  BY <1>1, <1>2, PlaceAfterFlat

LEMMA PlaceAfterSign ==
  ASSUME NEW p \in Nat \ {0}, text[p] # ":", text[p] \notin Opening \cup ClosingSigns,
         NEW frames, Placed(p, frames)
  PROVE  Placed(p + 1, frames)
  <1>1. \A r \in p .. (p + 1) - 1 : text[r] # ":" /\ text[r] \notin Opening \cup ClosingSigns
    OBVIOUS
  <1> QED  BY <1>1, PlaceAfterFlat

LEMMA PlaceAfterOpening ==
  ASSUME TextRules, NEW p \in Nat \ {0}, text[p] \in Opening, NEW frames \in Seq(Frames),
         Placed(p, frames), NEW frame \in Frames, frame.keys = {}
  PROVE  Placed(p + 1, Append(frames, frame))
  <1> DEFINE more == Append(frames, frame)
  <1>1. /\ Len(more) = Len(frames) + 1 /\ Len(frames) \in Nat
        /\ \A k \in 1 .. Len(frames) : more[k] = frames[k]
        /\ more[Len(frames) + 1] = frame
    BY AppendProperties, LenProperties
  <1> HIDE DEF more
  <1>2. Depth(text, p + 1) = Depth(text, p) + 1 /\ Depth(text, p) = Len(frames)
    BY DepthNext DEF Placed
  <1>3. NoColon(text, p, p + 1)
    <2>1. text[p] # ":"
      BY SignsDiffer, Zenon
    <2> QED  BY <2>1 DEF NoColon
  <1>4. ASSUME NEW k \in 1 .. Len(more) PROVE Seen(text, p + 1, k, more[k].keys)
    <2>1. CASE k \in 1 .. Len(frames)
      <3>1. Seen(text, p, k, frames[k].keys)
        BY <2>1 DEF Placed
      <3> QED  BY <1>1, <1>3, <2>1, <3>1, SeenLater
    <2>2. CASE k = Len(frames) + 1
      <3>1. Seen(text, p + 1, k, {})
        BY <1>1, <1>2, <1>3, <2>2, SeenOpened
      <3> QED  BY <1>1, <2>2, <3>1
    <2> QED  BY <1>1, <2>1, <2>2
  <1>5. Distinct(text, p + 1)
    BY <1>3, DistinctLater DEF Placed
  <1> QED  BY <1>1, <1>2, <1>4, <1>5 DEF Placed, more

LEMMA PlaceAfterClosing ==
  ASSUME TextRules, stack \in Seq(Frames), stack # <<>>,
         NEW p \in Nat \ {0}, text[p] \in ClosingSigns, Placed(p, stack)
  PROVE  Placed(p + 1, Below)
  <1>1. /\ Len(stack) \in Nat \ {0} /\ Len(Below) = Len(stack) - 1
        /\ \A k \in 1 .. Len(stack) - 1 : Below[k] = stack[k]
    BY TopBelow
  <1>2. Depth(text, p + 1) = Depth(text, p) - 1
    BY DepthNext
  <1>3. NoColon(text, p, p + 1)
    <2>1. text[p] # ":"
      BY SignsDiffer, Zenon
    <2> QED  BY <2>1 DEF NoColon
  <1>4. ASSUME NEW k \in 1 .. Len(Below) PROVE Seen(text, p + 1, k, Below[k].keys)
    <2>1. k \in 1 .. Len(stack) /\ Below[k] = stack[k]
      BY <1>1
    <2>2. Seen(text, p, k, stack[k].keys)
      BY <2>1 DEF Placed
    <2> QED  BY <1>3, <2>1, <2>2, SeenLater
  <1>5. Distinct(text, p + 1)
    BY <1>3, DistinctLater DEF Placed
  <1> QED  BY <1>1, <1>2, <1>4, <1>5 DEF Placed

(* A key and its colon are on one level.                                   *)
LEMMA KeyIsFlat ==
  ASSUME TextRules, NEW p \in Nat \ {0}, NEW colon \in Nat, p < colon,
         text[p] \in Strings, Passed(p + 1, colon), text[colon] = ":"
  PROVE  \A r \in p .. colon + 1 : Depth(text, r) = Depth(text, p)
  <1>1. text[p] \notin Opening \cup ClosingSigns /\ text[colon] \notin Opening \cup ClosingSigns
    BY SignsDiffer, Zenon
  <1>2. \A r \in p + 1 .. colon - 1 : text[r] \notin Opening \cup ClosingSigns
    <2>1. p + 1 \in Nat \ {0}
      OBVIOUS
    <2> QED  BY <2>1, BlanksAreFlat, Zenon
  <1>3. \A r \in p .. (colon + 1) - 1 : r = p \/ r \in p + 1 .. colon - 1 \/ r = colon
    OBVIOUS
  <1>4. \A r \in p .. (colon + 1) - 1 : text[r] \notin Opening \cup ClosingSigns
    BY <1>1, <1>2, <1>3, Zenon
  <1>5. colon + 1 \in Nat /\ p <= colon + 1
    OBVIOUS
  <1> QED  BY <1>4, <1>5, DepthFlat

LEMMA PlaceAfterKey ==
  ASSUME TextRules, stack \in Seq(Frames), stack # <<>>,
         NEW p \in Nat \ {0}, NEW colon \in Nat, p < colon, KeyAt(text, p, colon),
         Passed(p + 1, colon), NoColon(text, p, colon), Placed(p, stack),
         Decode[text[p]] \notin Top.keys
  PROVE  Placed(colon + 1, Append(Below, [Top EXCEPT !.keys = @ \cup {Decode[text[p]]}]))
  <1> DEFINE frame == [Top EXCEPT !.keys = @ \cup {Decode[text[p]]}]
             frames == Append(Below, frame)
  <1>1. /\ Len(stack) \in Nat \ {0} /\ Top \in Frames /\ Top = stack[Len(stack)]
        /\ Below \in Seq(Frames) /\ Len(Below) = Len(stack) - 1
        /\ \A k \in 1 .. Len(stack) - 1 : Below[k] = stack[k]
    BY TopBelow
  <1>2. frame.keys = Top.keys \cup {Decode[text[p]]}
    BY <1>1 DEF Frames
  <1> HIDE DEF frame
  <1>3. /\ Len(frames) = Len(stack)
        /\ \A k \in 1 .. Len(stack) - 1 : frames[k] = stack[k]
        /\ frames[Len(stack)] = frame
    BY <1>1, AppendProperties
  <1> HIDE DEF frames
  <1>4. Depth(text, p) = Len(stack)
    BY DEF Placed
  <1>6. Depth(text, colon + 1) = Depth(text, p)
    <2>1. text[p] \in Strings /\ text[colon] = ":"
      BY DEF KeyAt
    <2>2. colon + 1 \in p .. colon + 1
      OBVIOUS
    <2> QED  BY <2>1, <2>2, KeyIsFlat
  <1>7. ASSUME NEW k \in 1 .. Len(frames)
        PROVE  Seen(text, colon + 1, k, frames[k].keys)
    <2>1. Seen(text, p, k, stack[k].keys)
      BY <1>3 DEF Placed
    <2>2. CASE k = Len(stack)
      <3>1. /\ Top.keys \subseteq frame.keys /\ Decode[text[p]] \in frame.keys
            /\ Seen(text, p, k, Top.keys)
        BY <1>1, <1>2, <2>1, <2>2
      <3>2. p \in Nat /\ p <= p
        OBVIOUS
      <3>3. Seen(text, colon + 1, k, frame.keys)
        BY <3>1, <3>2, SeenKey, Zenon
      <3> QED  BY <1>3, <2>2, <3>3
    <2>3. CASE k # Len(stack)
      <3>1. k \in 1 .. Len(stack) - 1 /\ Depth(text, p) # k
        BY <1>1, <1>3, <1>4, <2>3
      <3>2. /\ p \in Nat /\ p <= p /\ stack[k].keys \subseteq stack[k].keys
            /\ Depth(text, p) = k => Decode[text[p]] \in stack[k].keys
        BY <3>1
      <3>3. Seen(text, colon + 1, k, stack[k].keys)
        BY <2>1, <3>2, SeenKey, Zenon
      <3> QED  BY <1>3, <3>1, <3>3
    <2> QED  BY <2>2, <2>3
  <1>8. Distinct(text, colon + 1)
    <2>1. Seen(text, p, Depth(text, p), Top.keys)
      <3>1. Len(stack) \in 1 .. Len(stack)
        BY <1>1
      <3> QED  BY <1>1, <1>4, <3>1 DEF Placed
    <2> QED  BY <2>1, DistinctKey DEF Placed
  <1> QED  BY <1>3, <1>4, <1>6, <1>7, <1>8 DEF Placed, frames, frame

LEMMA ShallowAfterBlanks ==
  ASSUME TextRules, NEW m \in Nat \ {0}, NEW p, Passed(m, p), ShallowBefore(text, m)
  PROVE  ShallowBefore(text, p)
  <1>1. p \in Nat /\ m <= p
    BY DEF Passed
  <1>2. \A r \in m .. p - 1 : text[r] \notin Starts
    BY BlanksAreFlat, Zenon
  <1> QED  BY <1>1, <1>2, ShallowLater

LEMMA ShallowAfterSign ==
  ASSUME NEW p \in Nat \ {0}, ShallowBefore(text, p),
         text[p] \in Starts => Depth(text, p) <= MaxDepth
  PROVE  ShallowBefore(text, p + 1)
  <1>1. \A r \in p .. (p + 1) - 1 : r = p
    OBVIOUS
  <1> QED  BY <1>1, ShallowLater

LEMMA InPlaceContinues ==
  ASSUME NEW where, NEW next, NEW frames, Continue(where, next), stack' = frames,
         Placed(where, frames),
         ShallowBefore(text, where) \/ (next = "value" /\ Len(frames) > MaxDepth),
         next \in {"value", "member"} => AfterStructure(text, where)
  PROVE  InPlace'
  <1>1. text' = text /\ position' = where /\ stage' = next
    BY DEF Continue
  <1> QED  BY <1>1 DEF InPlace, Placed

(* What holds where the next sign is read.                                 *)
LEMMA InPlaceAtSign ==
  ASSUME TextRules, ParserTypes, InPlace, Parses(text), stage # "rejected",
         NEW p, Passed(position, p)
  PROVE  /\ p \in Nat \ {0} /\ Placed(p, stack) /\ Depth(text, p) = Len(stack)
         /\ Len(stack) \in Nat /\ MaxDepth \in Nat
         /\ stage # "value" \/ Len(stack) <= MaxDepth => ShallowBefore(text, p)
  <1>1. /\ position \in Nat \ {0} /\ Len(stack) \in Nat /\ MaxDepth \in Nat
        /\ p \in Nat /\ position <= p
    BY LenProperties DEF ParserTypes, Passed, TextRules
  <1>2. Placed(position, stack)
    BY DEF InPlace
  <1>3. Placed(p, stack)
    BY <1>1, <1>2, PlaceAfterBlanks
  <1>4. Depth(text, p) = Len(stack)
    BY <1>3 DEF Placed
  <1>5. ASSUME stage # "value" \/ Len(stack) <= MaxDepth PROVE ShallowBefore(text, p)
    <2>1. ShallowBefore(text, position)
      BY <1>1, <1>5 DEF InPlace
    <2> QED  BY <1>1, <2>1, ShallowAfterBlanks
  <1> QED  BY <1>1, <1>3, <1>4, <1>5

LEMMA StringKeepsPlace ==
  ASSUME TextRules, ParserTypes, InPlace, Parses(text), stage # "rejected",
         NEW p \in 1 .. Len(text), Passed(position, p), StringRead(p)
  PROVE  InPlace'
  <1>1. /\ text[p] \in Strings /\ Len(stack) <= MaxDepth
        /\ Continue(p + 1, "separator") /\ stack' = stack
    BY DEF StringRead
  <1>2. /\ p \in Nat \ {0} /\ Placed(p, stack) /\ Depth(text, p) = Len(stack)
        /\ ShallowBefore(text, p)
    BY <1>1, InPlaceAtSign
  <1>3. text[p] # ":" /\ text[p] \notin Opening \cup ClosingSigns
    BY <1>1, SignsDiffer, Zenon
  <1>4. Placed(p + 1, stack)
    BY <1>2, <1>3, PlaceAfterSign
  <1>5. ShallowBefore(text, p + 1)
    BY <1>1, <1>2, ShallowAfterSign
  <1> QED  BY <1>1, <1>4, <1>5, InPlaceContinues

(* An empty object or array opens a level and closes it.                   *)
LEMMA EmptyKeepsPlace ==
  ASSUME TextRules, ParserTypes, InPlace, Parses(text), stage # "rejected",
         NEW p \in 1 .. Len(text), Passed(position, p),
         NEW q \in 1 .. Len(text), EmptyRead(p, q)
  PROVE  InPlace'
  <1>1. /\ text[p] \in Opening /\ text[q] \in ClosingSigns /\ Len(stack) <= MaxDepth
        /\ Passed(p + 1, q) /\ Continue(q + 1, "separator") /\ stack' = stack
    BY DEF EmptyRead
  <1>2. /\ p \in Nat \ {0} /\ Placed(p, stack) /\ Depth(text, p) = Len(stack)
        /\ ShallowBefore(text, p) /\ Len(stack) \in Nat
    BY <1>1, InPlaceAtSign
  <1>3. p + 1 \in Nat \ {0} /\ q \in Nat \ {0} /\ p + 1 <= q
    BY <1>1, <1>2 DEF Passed
  <1>4. /\ text[p] # ":" /\ text[q] # ":" /\ text[q] \notin Starts
        /\ \A r \in p + 1 .. q - 1 : text[r] # ":"
    BY <1>1, <1>3, BlanksAreFlat, SignsDiffer, Zenon
  <1>5. NoColon(text, p, q + 1)
    <2>1. \A r \in p .. (q + 1) - 1 : r = p \/ r = q \/ r \in p + 1 .. q - 1
      BY <1>2, <1>3
    <2> QED  BY <1>4, <2>1 DEF NoColon
  <1>6. Depth(text, q + 1) = Depth(text, p)
    <2>1. Depth(text, p + 1) = Depth(text, p) + 1
      BY <1>1, <1>2, DepthNext
    <2>2. Depth(text, q) = Depth(text, p + 1)
      BY <1>1, <1>3, BlanksAreFlat
    <2>3. Depth(text, q + 1) = Depth(text, q) - 1
      BY <1>1, <1>3, DepthNext
    <2> QED  BY <1>2, <2>1, <2>2, <2>3
  <1>7. Placed(q + 1, stack)
    <2>1. p <= q + 1 /\ q + 1 \in Nat
      BY <1>2, <1>3
    <2>2. \A k \in 1 .. Len(stack) : Seen(text, q + 1, k, stack[k].keys)
      BY <1>2, <1>5, <2>1, SeenLater DEF Placed
    <2>3. Distinct(text, q + 1)
      BY <1>2, <1>5, <2>1, DistinctLater DEF Placed
    <2> QED  BY <1>2, <1>6, <2>2, <2>3 DEF Placed
  <1>8. ShallowBefore(text, q + 1)
    <2>1. ShallowBefore(text, p + 1)
      BY <1>1, <1>2, ShallowAfterSign
    <2>2. ShallowBefore(text, q)
      BY <1>1, <1>3, <2>1, ShallowAfterBlanks
    <2> QED  BY <1>3, <1>4, <2>2, ShallowAfterSign
  <1> QED  BY <1>1, <1>7, <1>8, InPlaceContinues

LEMMA OpeningKeepsPlace ==
  ASSUME TextRules, ParserTypes, InPlace, Parses(text), stage # "rejected",
         NEW p \in 1 .. Len(text), Passed(position, p),
         NEW q \in 1 .. End, NEW frame \in Frames, OpeningRead(p, q, frame)
  PROVE  InPlace'
  <1>1. /\ text[p] \in Opening /\ Len(stack) <= MaxDepth
        /\ Passed(p + 1, q) /\ Continue(q, "member")
        /\ frame.keys = {} /\ stack' = Append(stack, frame)
    BY DEF OpeningRead
  <1>2. /\ p \in Nat \ {0} /\ Placed(p, stack) /\ Depth(text, p) = Len(stack)
        /\ ShallowBefore(text, p)
    BY <1>1, InPlaceAtSign
  <1>3. p + 1 \in Nat \ {0} /\ q \in Nat /\ p + 1 <= q
    BY <1>1, <1>2 DEF Passed
  <1>4. stack \in Seq(Frames)
    BY DEF ParserTypes
  <1>5. Placed(p + 1, stack')
    BY <1>1, <1>2, <1>4, PlaceAfterOpening
  <1>6. Placed(q, stack')
    BY <1>1, <1>3, <1>5, PlaceAfterBlanks
  <1>7. ShallowBefore(text, q)
    <2>1. ShallowBefore(text, p + 1)
      BY <1>1, <1>2, ShallowAfterSign
    <2> QED  BY <1>1, <1>3, <2>1, ShallowAfterBlanks
  <1>8. AfterStructure(text, q)
    <2>1. text[p] \notin Strings /\ text[p] # Blank
      BY <1>1, SignsDiffer, Zenon
    <2>2. \A r \in p + 1 .. q - 1 : text[r] \notin Strings
      BY <1>1, <1>3, BlanksAreFlat, Zenon
    <2>3. p \in 1 .. q - 1
      BY <1>2, <1>3
    <2> QED  BY <1>3, <2>1, <2>2, <2>3, AfterSign
  <1> QED  BY <1>1, <1>6, <1>7, <1>8, InPlaceContinues

(* A primitive that JSON.parse accepts is one sign.                        *)
LEMMA PrimitiveIsOneSign ==
  ASSUME TextRules, GrammarRules, text \in Texts, Parses(text),
         NEW p \in 1 .. Len(text), text[p] \in {Primitive, Overflow},
         NEW after \in 1 .. End, PrimitiveRead(p, after)
  PROVE  after = p + 1
  <1> DEFINE ends == {Blank, OddBlank, ",", "]", "}"}
  <1>1. p < after /\ \A r \in p .. after - 1 : text[r] \notin ends
    BY Zenon DEF PrimitiveRead
  <1> HIDE DEF ends
  <1>2. End = Len(text) + 1 /\ Len(text) \in Nat /\ DOMAIN text = 1 .. Len(text)
    BY TextType
  <1>3. p = Len(text) \/ text[p + 1] \in {Blank, ",", "]", "}"}
    BY <1>2, Zenon DEF GrammarRules
  <1>4. SUFFICES ASSUME after # p + 1 PROVE FALSE
    OBVIOUS
  <1>5. p + 1 \in p .. after - 1 /\ p # Len(text)
    <2>1. p < after
      BY <1>1, Zenon
    <2>2. p \in Nat /\ after \in Nat /\ after <= Len(text) + 1 /\ Len(text) \in Nat
      BY <1>2
    <2> QED  BY <1>4, <2>1, <2>2
  <1>6. text[p + 1] \in ends
    BY <1>3, <1>5, Zenon DEF ends
  <1> QED  BY <1>1, <1>5, <1>6

(* No value begins with a colon, because none follows a string.            *)
LEMMA PrimitiveKeepsPlace ==
  ASSUME TextRules, GrammarRules, ParserTypes, InPlace, Parses(text), stage # "rejected",
         NEW p \in 1 .. Len(text), Passed(position, p),
         NEW after \in 1 .. End, PrimitiveRead(p, after)
  PROVE  InPlace'
  <1>1. /\ text[p] \in {Primitive, Overflow, ":"} /\ stage = "value" /\ Len(stack) <= MaxDepth
        /\ Continue(after, "separator") /\ stack' = stack
    BY Zenon DEF PrimitiveRead
  <1>2. /\ text \in Texts /\ position \in Nat \ {0} /\ End = Len(text) + 1
        /\ Len(text) \in Nat /\ DOMAIN text = 1 .. Len(text)
    BY TextType DEF ParserTypes
  <1>3. /\ p \in Nat \ {0} /\ Placed(p, stack) /\ Depth(text, p) = Len(stack)
        /\ ShallowBefore(text, p) /\ position <= p
    BY <1>1, InPlaceAtSign DEF Passed
  <1>4. text[p] # ":"
    <2>1. SUFFICES ASSUME text[p] = ":" PROVE FALSE
      OBVIOUS
    <2>2. PICK i \in 1 .. p - 1 :
            text[i] \in Strings /\ \A j \in i + 1 .. p - 1 : text[j] = Blank
      BY <1>2, <2>1, Zenon DEF GrammarRules
    <2>3. AfterStructure(text, position)
      BY <1>1 DEF InPlace
    <2>4. CASE i \in 1 .. position - 1
      <3>1. PICK j \in i + 1 .. position - 1 : text[j] # Blank
        BY <2>2, <2>3, <2>4 DEF AfterStructure
      <3>2. j \in i + 1 .. p - 1
        BY <1>2, <1>3
      <3> QED  BY <2>2, <3>1, <3>2
    <2>5. CASE i \in position .. p - 1
      <3>1. text[i] \notin Strings
        BY <1>2, <2>5, BlanksAreFlat, Zenon
      <3> QED  BY <2>2, <3>1
    <2>6. i \in 1 .. position - 1 \/ i \in position .. p - 1
      BY <1>2, <1>3
    <2> QED  BY <2>4, <2>5, <2>6
  <1>5. text[p] \in {Primitive, Overflow}
    BY <1>1, <1>4
  <1>7. after = p + 1
    BY <1>2, <1>5, PrimitiveIsOneSign
  <1>8. text[p] \notin Opening \cup ClosingSigns
    BY <1>5, SignsDiffer, Zenon
  <1>9. Placed(p + 1, stack)
    BY <1>3, <1>4, <1>8, PlaceAfterSign
  <1>10. ShallowBefore(text, p + 1)
    BY <1>1, <1>3, ShallowAfterSign
  <1> QED  BY <1>1, <1>7, <1>9, <1>10, InPlaceContinues

LEMMA KeyKeepsPlace ==
  ASSUME TextRules, GrammarRules, ParserTypes, InPlace, Parses(text), stage # "rejected",
         NEW p \in 1 .. Len(text), Passed(position, p),
         NEW colon \in 1 .. Len(text), KeyRead(p, colon)
  PROVE  InPlace'
  <1> DEFINE frame == [Top EXCEPT !.keys = @ \cup {Decode[text[p]]}]
  <1>1. /\ stage = "member" /\ text[p] \in Strings /\ Passed(p + 1, colon)
        /\ text[colon] = ":" /\ Decode[text[p]] \notin Top.keys
        /\ stack' = Append(Below, frame) /\ Continue(colon + 1, "value")
    BY DEF KeyRead
  <1>2. text \in Texts /\ stack \in Seq(Frames) /\ stack # <<>>
    BY <1>1 DEF ParserTypes
  <1>3. /\ p \in Nat \ {0} /\ Placed(p, stack) /\ Depth(text, p) = Len(stack)
        /\ ShallowBefore(text, p) /\ Len(stack) \in Nat /\ MaxDepth \in Nat
    BY <1>1, InPlaceAtSign
  <1>4. KeyAt(text, p, colon) /\ NoColon(text, p, colon) /\ p < colon
    BY <1>1, <1>2, KeyIs
  <1>5. colon \in Nat \ {0} /\ p + 1 \in Nat \ {0} /\ p + 1 <= colon
    BY <1>1, <1>3 DEF Passed
  <1>6. Placed(colon + 1, Append(Below, frame))
    BY <1>1, <1>2, <1>3, <1>4, <1>5, PlaceAfterKey
  <1>7. Len(Append(Below, frame)) = Len(stack)
    <2>1. Below \in Seq(Frames) /\ Top \in Frames /\ Len(Below) = Len(stack) - 1
      BY <1>2, TopBelow
    <2>2. frame \in Frames
      BY <1>1, <2>1 DEF Frames
    <2> HIDE DEF frame
    <2> QED  BY <1>3, <2>1, <2>2, AppendProperties
  <1> HIDE DEF frame
  <1>8. ASSUME Len(stack) <= MaxDepth PROVE ShallowBefore(text, colon + 1)
    <2>1. ShallowBefore(text, p + 1)
      BY <1>3, <1>8, ShallowAfterSign
    <2>2. ShallowBefore(text, colon)
      BY <1>1, <1>5, <2>1, ShallowAfterBlanks
    <2>3. text[colon] \notin Starts
      BY <1>1, SignsDiffer, Zenon
    <2> QED  BY <1>5, <2>2, <2>3, ShallowAfterSign
  <1>9. ShallowBefore(text, colon + 1) \/ Len(Append(Below, frame)) > MaxDepth
    BY <1>3, <1>7, <1>8
  <1>10. AfterStructure(text, colon + 1)
    <2>1. text[colon] \notin Strings /\ text[colon] # Blank
      BY <1>1, SignsDiffer, Zenon
    <2>2. \A r \in colon + 1 .. (colon + 1) - 1 : text[r] \notin Strings
      BY <1>5
    <2>3. colon \in 1 .. (colon + 1) - 1
      BY <1>5
    <2> QED  BY <1>5, <2>1, <2>2, <2>3, AfterSign
  <1> QED  BY <1>1, <1>6, <1>9, <1>10, InPlaceContinues

LEMMA ClosingKeepsPlace ==
  ASSUME TextRules, ParserTypes, InPlace, Parses(text), stage # "rejected",
         NEW p \in 1 .. Len(text), Passed(position, p), ClosingRead(p)
  PROVE  InPlace'
  <1>1. /\ stage = "separator" /\ stack # <<>> /\ text[p] \in ClosingSigns
        /\ stack' = Below /\ Continue(p + 1, "separator")
    BY DEF ClosingRead
  <1>2. p \in Nat \ {0} /\ Placed(p, stack) /\ ShallowBefore(text, p)
    BY <1>1, InPlaceAtSign
  <1>3. stack \in Seq(Frames)
    BY DEF ParserTypes
  <1>4. Placed(p + 1, Below)
    BY <1>1, <1>2, <1>3, PlaceAfterClosing
  <1>5. ShallowBefore(text, p + 1)
    <2>1. text[p] \notin Starts
      BY <1>1, SignsDiffer, Zenon
    <2> QED  BY <1>2, <2>1, ShallowAfterSign
  <1> QED  BY <1>1, <1>4, <1>5, InPlaceContinues

LEMMA CommaKeepsPlace ==
  ASSUME TextRules, ParserTypes, InPlace, Parses(text), stage # "rejected",
         NEW p \in 1 .. Len(text), Passed(position, p), CommaRead(p)
  PROVE  InPlace'
  <1>1. stage = "separator" /\ Continue(p + 1, "member") /\ stack' = stack
    BY Zenon DEF CommaRead
  <1>2. p \in Nat \ {0} /\ Placed(p, stack) /\ ShallowBefore(text, p)
    BY <1>1, InPlaceAtSign
  <1>3. /\ text[p] \notin Starts /\ text[p] # ":" /\ text[p] \notin Opening \cup ClosingSigns
        /\ text[p] \notin Strings /\ text[p] # Blank
    <2>1. text[p] = ","
      BY Zenon DEF CommaRead
    <2> QED  BY <2>1, SignsDiffer, Zenon
  <1>4. Placed(p + 1, stack)
    BY <1>2, <1>3, PlaceAfterSign
  <1>5. ShallowBefore(text, p + 1)
    BY <1>2, <1>3, ShallowAfterSign
  <1>6. AfterStructure(text, p + 1)
    <2>1. p \in 1 .. (p + 1) - 1 /\ p + 1 \in Nat
      BY <1>2
    <2>2. \A r \in p + 1 .. (p + 1) - 1 : text[r] \notin Strings
      BY <1>2
    <2> QED  BY <1>3, <2>1, <2>2, AfterSign
  <1> QED  BY <1>1, <1>4, <1>5, <1>6, InPlaceContinues

(* The text stays, and a refusal is final.                                 *)
LEMMA RefusalIsFinal ==
  ASSUME JsonNext
  PROVE  text' = text /\ stage # "rejected"
  <1>1. text' = text
    BY Zenon DEF JsonNext, Traverse, ReadValue, SkipPrimitive, ReadKey, NextElement,
      ReadSeparator, EndOfTraversal, Refuse, Reject, Parse, Continue
  <1>2. stage \in {"value", "member", "separator", "parse"}
    BY Zenon DEF JsonNext, Traverse, ReadValue, SkipPrimitive, ReadKey, NextElement,
      ReadSeparator, EndOfTraversal, Refuse, TooDeep, NoValue, Unterminated, NoKey, KeySeen,
      NoSeparator, MoreText, Parse
  <1>3. stage # "rejected"
    BY <1>2
  <1> QED  BY <1>1, <1>3

(* No step loses its place.                                                *)
LEMMA NextKeepsPlace ==
  ASSUME TextRules, GrammarRules, ParserTypes, InPlace, [JsonNext]_jsonVars
  PROVE  InPlace'
  <1>1. text' = text
    BY RefusalIsFinal, Zenon DEF jsonVars
  <1>2. SUFFICES ASSUME Parses(text), stage' # "rejected" PROVE InPlace'
    BY <1>1 DEF InPlace
  <1>3. CASE UNCHANGED jsonVars
    BY <1>3 DEF jsonVars, InPlace, Placed
  <1>4. SUFFICES ASSUME JsonNext, stage # "rejected" PROVE InPlace'
    BY <1>3, RefusalIsFinal
  <1>5. CASE Traverse
    <2>1. ASSUME NEW p \in 1 .. Len(text), Passed(position, p), Step(p) PROVE InPlace'
      BY <1>2, <1>4, <2>1, StringKeepsPlace, EmptyKeepsPlace, OpeningKeepsPlace,
        PrimitiveKeepsPlace, KeyKeepsPlace, ClosingKeepsPlace, CommaKeepsPlace, Zenon DEF Step
    <2>2. CASE NextElement
      <3>1. stage = "member" /\ Continue(position, "value") /\ stack' = stack
        BY <2>2 DEF NextElement
      <3>2. /\ Placed(position, stack) /\ ShallowBefore(text, position)
            /\ AfterStructure(text, position)
        BY <1>2, <1>4, <3>1 DEF InPlace
      <3> QED  BY <3>1, <3>2, InPlaceContinues
    <2>3. CASE EndOfTraversal
      <3>1. /\ Passed(position, End) /\ stage = "separator"
            /\ Continue(End, "parse") /\ stack' = stack
        BY <2>3, EndIsReached
      <3>2. Placed(End, stack) /\ ShallowBefore(text, End)
        BY <1>2, <1>4, <3>1, InPlaceAtSign
      <3> QED  BY <3>1, <3>2, InPlaceContinues
    <2> QED  BY <1>5, <2>1, <2>2, <2>3, TraverseSteps, Zenon
  <1>6. CASE Refuse
    BY <1>2, <1>6 DEF Refuse, Reject
  <1>7. CASE Parse
    <2>1. stage = "parse" /\ Continue(position, "accepted") /\ stack' = stack
      BY <1>2, <1>7 DEF Parse, Continue
    <2>2. Placed(position, stack) /\ ShallowBefore(text, position)
      BY <1>2, <1>4, <2>1 DEF InPlace
    <2> QED  BY <2>1, <2>2, InPlaceContinues
  <1> QED  BY <1>4, <1>5, <1>6, <1>7, Zenon DEF JsonNext

-----------------------------------------------------------------------------
(* Nothing is read at the start.                                           *)
LEMMA StartIsInPlace ==
  ASSUME TextRules, JsonInit
  PROVE  JInv
  <1>1. text \in Texts /\ position = 1 /\ stack = <<>> /\ stage = "value"
    BY DEF JsonInit
  <1>2. End = Len(text) + 1 /\ Len(text) \in Nat
    BY <1>1, TextType
  <1>3. stack \in Seq(Frames) /\ Len(stack) = 0
    BY <1>1
  <1>4. ParserTypes
    BY <1>1, <1>2, <1>3 DEF ParserTypes
  <1>5. Placed(1, stack)
    <2>1. Depth(text, 1) = 0
      BY DepthAtStart
    <2> QED  BY <1>3, <2>1 DEF Placed, Distinct
  <1>6. ShallowBefore(text, 1) /\ AfterStructure(text, 1)
    BY DEF ShallowBefore, AfterStructure
  <1>7. InPlace
    BY <1>1, <1>5, <1>6 DEF InPlace
  <1> QED  BY <1>4, <1>7 DEF JInv

(* At the end of the text all its levels and all its keys were seen.       *)
LEMMA EndIsUnambiguous ==
  ASSUME TextRules, JInv
  PROVE  NothingAmbiguousAccepted
  <1> SUFFICES ASSUME stage = "accepted"
               PROVE  Parses(text) /\ Finite /\ Shallow(text) /\ ~Ambiguous(text)
    BY DEF NothingAmbiguousAccepted
  <1>1. /\ text \in Texts /\ position = End /\ stack = <<>> /\ Parses(text) /\ Finite
    BY DEF JInv, ParserTypes
  <1>2. DOMAIN text = 1 .. Len(text) /\ End = Len(text) + 1 /\ Len(text) \in Nat
    BY <1>1, TextType
  <1>3. DOMAIN text = 1 .. End - 1
    BY <1>2
  <1>4. Distinct(text, End) /\ ShallowBefore(text, End)
    BY <1>1 DEF JInv, InPlace, Placed
  <1>5. Shallow(text)
    BY <1>3, <1>4 DEF Shallow, ShallowBefore
  <1>6. ~Ambiguous(text)
    BY <1>3, <1>4, Zenon DEF Ambiguous, IsKey, Distinct
  <1> QED  BY <1>1, <1>5, <1>6

(* The strengthened invariant of parseJson.                                *)
THEOREM TraversalInvariance == JsonSpec => []JInv
  <1>1. JsonInit => JInv
    BY StartIsInPlace, TextAssumption
  <1>2. JInv /\ [JsonNext]_jsonVars => JInv'
    BY NextKeepsTypes, NextKeepsPlace, TextAssumption, GrammarAssumption DEF JInv
  <1> QED  BY <1>1, <1>2, PTL DEF JsonSpec

(* For any texts, strings and nesting limit, and whatever JSON.parse is    *)
(* that keeps primitives and colons in their places: what parseJson        *)
(* accepts, JSON.parse accepts, its numbers are finite, it is no deeper    *)
(* than the limit and none of its objects, at any depth, has two members   *)
(* of one decoded name (runtime-files.mts:26-31).                          *)
THEOREM AcceptedIsUnambiguous == JsonSpec => []NothingAmbiguousAccepted
  <1>1. JInv => NothingAmbiguousAccepted
    BY EndIsUnambiguous, TextAssumption
  <1> QED  BY <1>1, TraversalInvariance, PTL

-----------------------------------------------------------------------------
(* What comes next in a valid text.                                        *)

(* The object or array at a level was opened and stays open, and each of   *)
(* its keys was read.                                                      *)
OpenLevel(n, level, frame) ==
  /\ \E j \in 1 .. n - 1 :
       /\ text[j] \in Opening /\ Closing(text[j]) = frame.closing
       /\ Depth(text, j) = level - 1 /\ \A r \in j + 1 .. n : Depth(text, r) >= level
  /\ \A name \in frame.keys : \E i \in 1 .. n - 1 :
       /\ IsKey(text, i) /\ Decode[text[i]] = name
       /\ Depth(text, i) = level /\ \A r \in i .. n : Depth(text, r) >= level

Matched(n, frames) == \A k \in 1 .. Len(frames) : OpenLevel(n, k, frames[k])

Comma == ","

(* The bracket that a closing sign closes.                                 *)
OpeningOf(closing) == IF closing = "}" THEN "{" ELSE "["

NextSign(n, p) == Passed(n, p) /\ (p = End \/ text[p] \notin Blanks)

(* The sign the traversal needs to go on.                                  *)
Expects(where, frames, p) ==
  /\ where = "value" => ValueAt(text, p)
  /\ where = "member" => MemberAt(text, p, OpeningOf(frames[Len(frames)].closing))
  /\ where = "separator" /\ frames = <<>> => p = End
  /\ where = "separator" /\ frames # <<>> =>
       p \in DOMAIN text /\ text[p] \in {Comma, frames[Len(frames)].closing}

(* In a text that JSON.parse accepts the traversal always finds it.        *)
Following ==
  Parses(text) /\ stage # "rejected" =>
    /\ Matched(position, stack)
    /\ \A p \in 1 .. End : NextSign(position, p) => Expects(stage, stack, p)

LEMMA OpenedLater ==
  ASSUME NEW m \in Nat \ {0}, NEW n \in Nat, m <= n, NEW level, NEW frame,
         OpenLevel(m, level, frame), \A r \in m .. n : Depth(text, r) >= level
  PROVE  OpenLevel(n, level, frame)
  <1>1. \A j \in 1 .. m - 1 : j \in 1 .. n - 1
    OBVIOUS
  <1>2. ASSUME NEW j \in 1 .. m - 1, \A r \in j .. m : Depth(text, r) >= level
        PROVE  \A r \in j .. n : Depth(text, r) >= level
    <2>1. \A r \in j .. n : r \in j .. m \/ r \in m .. n
      OBVIOUS
    <2> QED  BY <1>2, <2>1
  <1>3. ASSUME NEW j \in 1 .. m - 1, \A r \in j + 1 .. m : Depth(text, r) >= level
        PROVE  \A r \in j + 1 .. n : Depth(text, r) >= level
    <2>1. \A r \in j + 1 .. n : r \in j + 1 .. m \/ r \in m .. n
      OBVIOUS
    <2> QED  BY <1>3, <2>1
  <1>4. \E j \in 1 .. n - 1 :
          /\ text[j] \in Opening /\ Closing(text[j]) = frame.closing
          /\ Depth(text, j) = level - 1 /\ \A r \in j + 1 .. n : Depth(text, r) >= level
    BY <1>1, <1>3, Zenon DEF OpenLevel
  <1>5. \A name \in frame.keys : \E i \in 1 .. n - 1 :
          /\ IsKey(text, i) /\ Decode[text[i]] = name
          /\ Depth(text, i) = level /\ \A r \in i .. n : Depth(text, r) >= level
    BY <1>1, <1>2, Zenon DEF OpenLevel
  <1> QED  BY <1>4, <1>5, Zenon DEF OpenLevel

LEMMA MatchedLater ==
  ASSUME NEW m \in Nat \ {0}, NEW n \in Nat, m <= n, NEW frames, Len(frames) \in Nat,
         Matched(m, frames),
         \A r \in m .. n : Depth(text, r) \in Int /\ Depth(text, r) >= Len(frames)
  PROVE  Matched(n, frames)
  <1> SUFFICES ASSUME NEW k \in 1 .. Len(frames) PROVE OpenLevel(n, k, frames[k])
    BY DEF Matched
  <1>1. \A r \in m .. n : Depth(text, r) >= k
    OBVIOUS
  <1>2. OpenLevel(m, k, frames[k])
    BY DEF Matched
  <1> QED  BY <1>1, <1>2, OpenedLater

LEMMA MatchedAfterBlanks ==
  ASSUME TextRules, NEW m \in Nat \ {0}, NEW p, Passed(m, p), NEW frames, Len(frames) \in Nat,
         Depth(text, m) = Len(frames), Matched(m, frames)
  PROVE  Matched(p, frames) /\ Depth(text, p) = Len(frames)
  <1>1. p \in Nat /\ m <= p
    BY DEF Passed
  <1>2. \A r \in m .. p : Depth(text, r) = Len(frames)
    BY BlanksAreFlat
  <1>3. p \in m .. p
    BY <1>1
  <1> QED  BY <1>1, <1>2, <1>3, MatchedLater

(* An opening sign opens a level.                                          *)
LEMMA OpenedNew ==
  ASSUME NEW p \in Nat \ {0}, text[p] \in Opening, NEW level \in Nat,
         Depth(text, p) = level - 1, NEW frame, frame.closing = Closing(text[p]),
         frame.keys = {}
  PROVE  OpenLevel(p + 1, level, frame)
  <1>1. Depth(text, p + 1) = level
    BY DepthNext
  <1>2. p \in 1 .. (p + 1) - 1 /\ \A r \in p + 1 .. p + 1 : r = p + 1
    OBVIOUS
  <1>3. \A r \in p + 1 .. p + 1 : Depth(text, r) >= level
    BY <1>1, <1>2
  <1> QED  BY <1>2, <1>3 DEF OpenLevel

(* What the traversal has open last is the innermost object or array.      *)
LEMMA InnermostOpen ==
  ASSUME TextRules, text \in Texts, NEW n \in 1 .. End, NEW frames \in Seq(Frames),
         frames # <<>>, Matched(n, frames), Depth(text, n) = Len(frames)
  PROVE  \E j \in DOMAIN text :
           Innermost(text, j, n) /\ Closing(text[j]) = frames[Len(frames)].closing
  <1> DEFINE level == Len(frames)
  <1>1. level \in Nat \ {0} /\ level \in 1 .. level
    BY EmptySeq, LenProperties
  <1>2. OpenLevel(n, level, frames[level])
    BY <1>1 DEF Matched
  <1>3. PICK j \in 1 .. n - 1 :
          /\ text[j] \in Opening /\ Closing(text[j]) = frames[level].closing
          /\ Depth(text, j) = level - 1 /\ \A r \in j + 1 .. n : Depth(text, r) >= level
    BY <1>2 DEF OpenLevel
  <1>4. DOMAIN text = 1 .. End - 1 /\ End \in Nat
    BY TextType
  <1>5. j \in DOMAIN text
    BY <1>4
  <1> HIDE DEF level
  <1>6. Depth(text, n) = Depth(text, j) + 1
    BY <1>1, <1>3 DEF level
  <1>7. ASSUME NEW r \in j + 1 .. n PROVE Depth(text, r) > Depth(text, j)
    <2>1. r \in Nat \ {0}
      OBVIOUS
    <2>2. Depth(text, r) \in Int /\ Depth(text, r) >= level /\ Depth(text, j) = level - 1
      BY <1>3, <2>1, DepthNext
    <2> QED  BY <1>1, <2>2
  <1>8. Innermost(text, j, n)
    BY <1>3, <1>6, <1>7 DEF Innermost
  <1> QED  BY <1>3, <1>5, <1>8 DEF level

-----------------------------------------------------------------------------
(* What a valid text has after a sign.                                     *)
LEMMA NextIsNeighbour ==
  ASSUME TextRules, text \in Texts, NEW i \in 0 .. Len(text),
         i = 0 \/ text[i] \notin Blanks, NEW p, NextSign(i + 1, p)
  PROVE  /\ p \in 1 .. Len(text) + 1 /\ Neighbours(text, i, p)
         /\ p # End => p \in DOMAIN text
  <1>1. End = Len(text) + 1 /\ Len(text) \in Nat /\ DOMAIN text = 1 .. Len(text)
    BY TextType
  <1>2. /\ p \in Nat /\ i + 1 <= p /\ p <= End
        /\ \A r \in i + 1 .. p - 1 : text[r] \in Blanks
        /\ p = End \/ text[p] \notin Blanks
    BY DEF NextSign, Passed
  <1>3. i < p /\ p \in 1 .. Len(text) + 1 /\ (p # End => p \in DOMAIN text)
    BY <1>1, <1>2
  <1> QED  BY <1>1, <1>2, <1>3 DEF Neighbours

LEMMA ValueFirst ==
  ASSUME TextRules, NeighbourRules, text \in Texts, Parses(text),
         NEW frames, NEW p, NextSign(1, p)
  PROVE  Expects("value", frames, p)
  <1>1. Len(text) \in Nat
    BY TextType
  <1>2. 0 \in 0 .. Len(text) /\ 0 + 1 = 1
    BY <1>1
  <1>3. p \in 1 .. Len(text) + 1 /\ Neighbours(text, 0, p)
    BY <1>2, NextIsNeighbour
  <1>4. ValueAt(text, p)
    BY <1>3, Zenon DEF NeighbourRules
  <1> QED  BY <1>4 DEF Expects

LEMMA ValueAfterColon ==
  ASSUME TextRules, NeighbourRules, text \in Texts, Parses(text),
         NEW i \in 1 .. Len(text), text[i] = ":", NEW frames, NEW p, NextSign(i + 1, p)
  PROVE  Expects("value", frames, p)
  <1>1. Len(text) \in Nat /\ DOMAIN text = 1 .. Len(text)
    BY TextType
  <1>2. i \in 0 .. Len(text) /\ i \in DOMAIN text
    BY <1>1
  <1>3. text[i] \notin Blanks
    BY SignsDiffer, Zenon
  <1>4. p \in 1 .. Len(text) + 1 /\ Neighbours(text, i, p)
    BY <1>2, <1>3, NextIsNeighbour
  <1>5. ValueAt(text, p)
    BY <1>2, <1>4, Zenon DEF NeighbourRules
  <1> QED  BY <1>5 DEF Expects

LEMMA ClosingTellsOpening ==
  ASSUME NEW x \in Opening
  PROVE  OpeningOf(Closing(x)) = x
  <1>1. Closing("{") = "}" /\ Closing("[") = "]"
    BY Zenon DEF Closing
  <1>2. OpeningOf("}") = "{" /\ OpeningOf("]") = "["
    BY Zenon DEF OpeningOf
  <1>3. x = "{" \/ x = "["
    BY Zenon DEF Opening
  <1> QED  BY <1>1, <1>2, <1>3, Zenon

LEMMA MemberAfterOpening ==
  ASSUME TextRules, NeighbourRules, text \in Texts, Parses(text),
         NEW i \in 1 .. Len(text), text[i] \in Opening,
         NEW frames \in Seq(Frames), NEW frame, frame.closing = Closing(text[i]),
         NEW more, Len(more) \in Nat, more[Len(more)] = frame,
         NEW p, NextSign(i + 1, p), p = End \/ text[p] # frame.closing
  PROVE  Expects("member", more, p)
  <1>1. End = Len(text) + 1 /\ Len(text) \in Nat /\ DOMAIN text = 1 .. Len(text)
    BY TextType
  <1>2. i \in 0 .. Len(text) /\ i \in DOMAIN text
    BY <1>1
  <1>3. text[i] \notin Blanks
    BY SignsDiffer, Zenon
  <1>4. p \in 1 .. Len(text) + 1 /\ Neighbours(text, i, p)
    BY <1>2, <1>3, NextIsNeighbour
  <1>5. MemberAt(text, p, text[i]) \/ (p \in DOMAIN text /\ text[p] = Closing(text[i]))
    BY <1>2, <1>4, Zenon DEF NeighbourRules
  <1>6. p \in DOMAIN text => p # End
    BY <1>1
  <1>7. MemberAt(text, p, text[i])
    BY <1>5, <1>6
  <1>8. OpeningOf(more[Len(more)].closing) = text[i]
    BY ClosingTellsOpening, Zenon
  <1>9. MemberAt(text, p, OpeningOf(more[Len(more)].closing))
    BY <1>7, <1>8, Zenon
  <1> QED  BY <1>9 DEF Expects

(* The next sign is at the depth that was reached.                         *)
LEMMA NextSignLevel ==
  ASSUME TextRules, text \in Texts, NEW i \in 1 .. Len(text), NEW p, NextSign(i + 1, p),
         NEW frames \in Seq(Frames), Depth(text, i + 1) = Len(frames), Matched(i + 1, frames)
  PROVE  /\ Depth(text, p) = Len(frames) /\ Matched(p, frames) /\ p \in 1 .. End
         /\ frames # <<>> => \E j \in DOMAIN text :
              /\ Innermost(text, j, p) /\ text[j] \in Opening
              /\ Closing(text[j]) = frames[Len(frames)].closing
  <1>1. End = Len(text) + 1 /\ Len(text) \in Nat /\ i + 1 \in Nat \ {0}
    BY TextType
  <1>2. Passed(i + 1, p)
    BY DEF NextSign
  <1>3. p \in 1 .. End
    BY <1>1, <1>2 DEF Passed
  <1>4. Depth(text, p) = Len(frames) /\ Matched(p, frames)
    BY <1>1, <1>2, MatchedAfterBlanks, LenProperties
  <1>5. ASSUME frames # <<>>
        PROVE  \E j \in DOMAIN text :
                 /\ Innermost(text, j, p) /\ text[j] \in Opening
                 /\ Closing(text[j]) = frames[Len(frames)].closing
    BY <1>3, <1>4, <1>5, InnermostOpen DEF Innermost
  <1> QED  BY <1>3, <1>4, <1>5

LEMMA MemberAfterComma ==
  ASSUME TextRules, NeighbourRules, text \in Texts, Parses(text),
         NEW i \in 1 .. Len(text), text[i] = Comma,
         NEW frames \in Seq(Frames), frames # <<>>,
         Depth(text, i + 1) = Len(frames), Matched(i + 1, frames),
         NEW p, NextSign(i + 1, p)
  PROVE  Expects("member", frames, p)
  <1>1. Len(text) \in Nat /\ DOMAIN text = 1 .. Len(text)
    BY TextType
  <1>2. i \in 0 .. Len(text) /\ i \in DOMAIN text
    BY <1>1
  <1>3. text[i] \notin Blanks
    BY SignsDiffer, Zenon DEF Comma
  <1>4. p \in 1 .. Len(text) + 1 /\ Neighbours(text, i, p)
    BY <1>2, <1>3, NextIsNeighbour
  <1>5. PICK j \in DOMAIN text :
          /\ Innermost(text, j, p) /\ text[j] \in Opening
          /\ Closing(text[j]) = frames[Len(frames)].closing
    BY NextSignLevel
  <1>6. MemberAt(text, p, text[j])
    BY <1>2, <1>4, <1>5, Zenon DEF NeighbourRules, Comma
  <1>7. MemberAt(text, p, OpeningOf(frames[Len(frames)].closing))
    BY <1>5, <1>6, ClosingTellsOpening, Zenon
  <1> QED  BY <1>7 DEF Expects

LEMMA SeparatorAfterValue ==
  ASSUME TextRules, NeighbourRules, text \in Texts, Parses(text),
         NEW i \in 1 .. Len(text), EndOfValue(text, i),
         NEW frames \in Seq(Frames),
         Depth(text, i + 1) = Len(frames), Matched(i + 1, frames),
         NEW p, NextSign(i + 1, p)
  PROVE  Expects("separator", frames, p)
  <1>1. End = Len(text) + 1 /\ Len(text) \in Nat /\ DOMAIN text = 1 .. Len(text)
    BY TextType
  <1>2. i \in 0 .. Len(text) /\ i \in DOMAIN text
    BY <1>1
  <1>3. text[i] \notin Blanks
    <2>1. text[i] \in Strings \cup {Primitive, Overflow} \cup ClosingSigns
      BY DEF EndOfValue
    <2> QED  BY <2>1, SignsDiffer, Zenon
  <1>4. p \in 1 .. Len(text) + 1 /\ Neighbours(text, i, p)
    BY <1>2, <1>3, NextIsNeighbour
  <1>5. Depth(text, p) = Len(frames)
    BY NextSignLevel
  <1>6. ASSUME frames = <<>> PROVE p = End
    <2>1. Depth(text, p) = 0
      BY <1>5, <1>6
    <2>2. p = Len(text) + 1
      BY <1>2, <1>4, <2>1, Zenon DEF NeighbourRules
    <2> QED  BY <1>1, <2>2
  <1>7. ASSUME frames # <<>>
        PROVE  p \in DOMAIN text /\ text[p] \in {Comma, frames[Len(frames)].closing}
    <2>1. Depth(text, p) > 0
      BY <1>5, <1>7, EmptySeq, LenProperties
    <2>2. PICK j \in DOMAIN text :
            Innermost(text, j, p) /\ Closing(text[j]) = frames[Len(frames)].closing
      BY <1>7, NextSignLevel
    <2>3. p \in DOMAIN text /\ text[p] \in {Comma, Closing(text[j])}
      BY <1>2, <1>4, <2>1, <2>2, Zenon DEF NeighbourRules, Comma
    <2> QED  BY <2>2, <2>3
  <1> QED  BY <1>6, <1>7 DEF Expects

-----------------------------------------------------------------------------
(* Every step leaves the traversal where the text goes on as it needs.     *)
LEMMA FollowingContinues ==
  ASSUME NEW where, NEW next, NEW frames, Continue(where, next), stack' = frames,
         Matched(where, frames),
         \A p \in 1 .. End : NextSign(where, p) => Expects(next, frames, p)
  PROVE  Following'
  <1>1. text' = text /\ position' = where /\ stage' = next
    BY DEF Continue
  <1>2. End' = End
    BY <1>1 DEF End
  <1>3. /\ Matched(where, frames)' = Matched(where, frames)
        /\ \A p : /\ NextSign(where, p)' = NextSign(where, p)
                  /\ Expects(next, frames, p)' = Expects(next, frames, p)
    BY <1>1, <1>2 DEF Matched, OpenLevel, NextSign, Passed, Expects
  <1> QED  BY <1>1, <1>2, <1>3 DEF Following

(* The depth a step reached.                                               *)
LEMMA DepthReached ==
  ASSUME InPlace', Parses(text), NEW where, NEW next, next # "rejected",
         Continue(where, next)
  PROVE  Depth(text, where) = Len(stack')
  BY DEF InPlace, Placed, Continue

(* What holds where the next sign is read.                                 *)
LEMMA ExpectedAtSign ==
  ASSUME TextRules, ParserTypes, InPlace, Following, Parses(text), stage # "rejected",
         NEW p, NextSign(position, p)
  PROVE  /\ p \in 1 .. End /\ p \in Nat \ {0} /\ Passed(position, p)
         /\ Matched(p, stack) /\ Depth(text, p) = Len(stack) /\ Len(stack) \in Nat
         /\ Expects(stage, stack, p)
  <1>1. Passed(position, p)
    BY DEF NextSign
  <1>2. position \in Nat \ {0} /\ position <= p /\ p \in Nat /\ p <= End
    BY <1>1 DEF Passed, ParserTypes
  <1>3. Len(stack) \in Nat /\ Depth(text, position) = Len(stack) /\ Matched(position, stack)
    BY LenProperties DEF InPlace, Placed, ParserTypes, Following
  <1>4. p \in 1 .. End
    BY <1>2, TextType DEF ParserTypes
  <1>5. Matched(p, stack) /\ Depth(text, p) = Len(stack)
    BY <1>1, <1>2, <1>3, MatchedAfterBlanks
  <1>6. Expects(stage, stack, p)
    BY <1>4 DEF Following
  <1> QED  BY <1>1, <1>2, <1>3, <1>4, <1>5, <1>6

(* A value that ends at i.                                                 *)
LEMMA ValueIsFollowed ==
  ASSUME TextRules, NeighbourRules, text \in Texts, Parses(text), InPlace',
         NEW i \in 1 .. Len(text), EndOfValue(text, i), NEW frames \in Seq(Frames),
         Matched(i + 1, frames), Continue(i + 1, "separator"), stack' = frames
  PROVE  Following'
  <1>1. Depth(text, i + 1) = Len(frames)
    BY DepthReached
  <1>2. \A p \in 1 .. End : NextSign(i + 1, p) => Expects("separator", frames, p)
    BY <1>1, SeparatorAfterValue
  <1> QED  BY <1>2, FollowingContinues

LEMMA MatchedAfterFlatSign ==
  ASSUME NEW p \in Nat \ {0}, NEW frames, Len(frames) \in Nat, Matched(p, frames),
         Depth(text, p) = Len(frames), Depth(text, p + 1) = Len(frames)
  PROVE  Matched(p + 1, frames)
  <1>1. \A r \in p .. p + 1 : r = p \/ r = p + 1
    OBVIOUS
  <1>2. \A r \in p .. p + 1 : Depth(text, r) \in Int /\ Depth(text, r) >= Len(frames)
    BY <1>1
  <1> QED  BY <1>2, MatchedLater

(* Only strings are keys.                                                  *)
LEMMA KeysAreStrings == ASSUME NEW s, NEW i, IsKey(s, i) PROVE s[i] \in Strings
  BY DEF IsKey, KeyAt

LEMMA StringIsFollowed ==
  ASSUME TextRules, NeighbourRules, ParserTypes, InPlace, Following, InPlace', Parses(text),
         stage # "rejected", NEW p \in 1 .. Len(text), NextSign(position, p), StringRead(p)
  PROVE  Following'
  <1>1. /\ text[p] \in Strings /\ stage = "value"
        /\ Continue(p + 1, "separator") /\ stack' = stack
    BY DEF StringRead
  <1>2. text \in Texts /\ stack \in Seq(Frames)
    BY DEF ParserTypes
  <1>3. /\ p \in Nat \ {0} /\ Matched(p, stack) /\ Depth(text, p) = Len(stack)
        /\ Len(stack) \in Nat /\ Expects(stage, stack, p)
    BY ExpectedAtSign
  <1>4. EndOfValue(text, p)
    BY <1>1, <1>3 DEF Expects, ValueAt, EndOfValue
  <1>5. Depth(text, p + 1) = Len(stack)
    BY <1>1, DepthReached
  <1>6. Matched(p + 1, stack)
    BY <1>3, <1>5, MatchedAfterFlatSign
  <1> QED  BY <1>1, <1>2, <1>4, <1>6, ValueIsFollowed

LEMMA ClosingEndsValue ==
  ASSUME TextRules, NEW p, text[p] \in ClosingSigns
  PROVE  EndOfValue(text, p)
  <1>1. text[p] \notin Strings
    BY SignsDiffer, Zenon
  <1> QED  BY <1>1, KeysAreStrings DEF EndOfValue

LEMMA EmptyIsFollowed ==
  ASSUME TextRules, NeighbourRules, ParserTypes, InPlace, Following, InPlace', Parses(text),
         stage # "rejected", NEW p \in 1 .. Len(text), NextSign(position, p),
         NEW q \in 1 .. Len(text), EmptyRead(p, q)
  PROVE  Following'
  <1>1. /\ text[p] \in Opening /\ Passed(p + 1, q) /\ text[q] \in ClosingSigns
        /\ Continue(q + 1, "separator") /\ stack' = stack
    BY DEF EmptyRead
  <1>2. text \in Texts /\ stack \in Seq(Frames)
    BY DEF ParserTypes
  <1>3. /\ p \in Nat \ {0} /\ Matched(p, stack) /\ Depth(text, p) = Len(stack)
        /\ Len(stack) \in Nat
    BY ExpectedAtSign
  <1>4. p + 1 \in Nat \ {0} /\ q \in Nat /\ p + 1 <= q
    BY <1>1, <1>3 DEF Passed
  <1>5. Depth(text, p + 1) = Len(stack) + 1
    BY <1>1, <1>3, DepthNext
  <1>6. \A r \in p + 1 .. q : Depth(text, r) = Len(stack) + 1
    BY <1>1, <1>4, <1>5, BlanksAreFlat
  <1>7. Depth(text, q + 1) = Len(stack)
    BY <1>1, DepthReached
  <1>8. \A r \in p .. q + 1 : Depth(text, r) \in Int /\ Depth(text, r) >= Len(stack)
    <2>1. \A r \in p .. q + 1 : r = p \/ r \in p + 1 .. q \/ r = q + 1
      BY <1>3, <1>4
    <2> QED  BY <1>3, <1>6, <1>7, <2>1
  <1>9. Matched(q + 1, stack)
    <2>1. q + 1 \in Nat /\ p <= q + 1
      BY <1>3, <1>4
    <2> QED  BY <1>3, <1>8, <2>1, MatchedLater
  <1>10. EndOfValue(text, q)
    BY <1>1, ClosingEndsValue
  <1> QED  BY <1>1, <1>2, <1>9, <1>10, ValueIsFollowed

LEMMA MatchedAfterOpening ==
  ASSUME NEW p \in Nat \ {0}, text[p] \in Opening, NEW frames \in Seq(Frames),
         Matched(p, frames), Depth(text, p) = Len(frames),
         NEW frame, frame.closing = Closing(text[p]), frame.keys = {}
  PROVE  Matched(p + 1, Append(frames, frame))
  <1> DEFINE more == Append(frames, frame)
             level == Len(frames) + 1
  <1>1. /\ Len(more) = level /\ Len(frames) \in Nat
        /\ \A k \in 1 .. Len(frames) : more[k] = frames[k]
        /\ more[level] = frame
    BY AppendProperties, LenProperties
  <1> HIDE DEF more
  <1>2. Depth(text, p + 1) = level
    BY <1>1, DepthNext
  <1>3. OpenLevel(p + 1, level, frame)
    <2>1. level \in Nat /\ Depth(text, p) = level - 1
      BY <1>1
    <2> HIDE DEF level
    <2> QED  BY <2>1, OpenedNew
  <1>4. ASSUME NEW k \in 1 .. Len(frames) PROVE OpenLevel(p + 1, k, frames[k])
    <2>1. OpenLevel(p, k, frames[k])
      BY DEF Matched
    <2>2. \A r \in p .. p + 1 : r = p \/ r = p + 1
      OBVIOUS
    <2>3. \A r \in p .. p + 1 : Depth(text, r) >= k
      BY <1>1, <1>2, <2>2
    <2> QED  BY <2>1, <2>3, OpenedLater
  <1>5. \A k \in 1 .. Len(more) : k \in 1 .. Len(frames) \/ k = level
    BY <1>1
  <1> QED  BY <1>1, <1>3, <1>4, <1>5 DEF Matched, more

LEMMA OpeningIsFollowed ==
  ASSUME TextRules, NeighbourRules, ParserTypes, InPlace, Following, InPlace', Parses(text),
         stage # "rejected", NEW p \in 1 .. Len(text), NextSign(position, p),
         NEW q \in 1 .. End, NEW frame \in Frames, OpeningRead(p, q, frame)
  PROVE  Following'
  <1> DEFINE more == Append(stack, frame)
  <1>1. /\ text[p] \in Opening /\ Passed(p + 1, q) /\ Continue(q, "member") /\ stack' = more
        /\ q = End \/ text[q] \notin Blanks \cup {frame.closing}
        /\ frame.closing = Closing(text[p]) /\ frame.keys = {}
    BY DEF OpeningRead
  <1>2. text \in Texts /\ stack \in Seq(Frames) /\ End \in Nat
    BY TextType DEF ParserTypes
  <1>3. /\ p \in Nat \ {0} /\ Matched(p, stack) /\ Depth(text, p) = Len(stack)
        /\ Len(stack) \in Nat
    BY ExpectedAtSign
  <1>4. Len(more) = Len(stack) + 1 /\ more[Len(stack) + 1] = frame
    BY <1>2, AppendProperties
  <1>5. Matched(p + 1, more)
    BY <1>1, <1>2, <1>3, MatchedAfterOpening
  <1> HIDE DEF more
  <1>6. Depth(text, p + 1) = Len(more) /\ Len(more) \in Nat /\ p + 1 \in Nat \ {0}
    <2>1. Depth(text, p + 1) = Depth(text, p) + 1
      BY <1>1, <1>3, DepthNext
    <2> QED  BY <1>3, <1>4, <2>1
  <1>7. Matched(q, more)
    BY <1>1, <1>5, <1>6, MatchedAfterBlanks
  <1>8. NextSign(p + 1, q)
    BY <1>1 DEF NextSign
  <1>9. Expects("member", more, q)
    BY <1>1, <1>2, <1>4, <1>6, <1>8, MemberAfterOpening
  <1>10. ASSUME NEW r \in 1 .. End, NextSign(q, r) PROVE r = q
    <2>1. q <= r /\ r <= End /\ \A x \in q .. r - 1 : text[x] \in Blanks
      BY <1>10 DEF NextSign, Passed
    <2>2. q < r => q \in q .. r - 1 /\ q # End
      BY <1>2, <2>1
    <2>3. ~(q < r)
      BY <1>1, <2>1, <2>2
    <2> QED  BY <2>1, <2>3
  <1> QED  BY <1>1, <1>7, <1>9, <1>10, FollowingContinues

LEMMA PrimitiveIsFollowed ==
  ASSUME TextRules, GrammarRules, NeighbourRules, ParserTypes, InPlace, Following, InPlace',
         Parses(text), stage # "rejected", NEW p \in 1 .. Len(text), NextSign(position, p),
         NEW after \in 1 .. End, PrimitiveRead(p, after)
  PROVE  Following'
  <1>1. /\ text[p] \in {Primitive, Overflow, ":"} /\ stage = "value"
        /\ Continue(after, "separator") /\ stack' = stack
    BY Zenon DEF PrimitiveRead
  <1>2. text \in Texts /\ stack \in Seq(Frames)
    BY DEF ParserTypes
  <1>3. /\ p \in Nat \ {0} /\ Matched(p, stack) /\ Depth(text, p) = Len(stack)
        /\ Len(stack) \in Nat /\ Expects(stage, stack, p)
    BY ExpectedAtSign
  <1>4. ValueAt(text, p)
    BY <1>1, <1>3 DEF Expects
  <1>5. text[p] # ":"
    <2>1. ":" \notin Starts
      BY SignsDiffer, Zenon
    <2> QED  BY <1>4, <2>1, Zenon DEF ValueAt
  <1>6. text[p] \in {Primitive, Overflow}
    BY <1>1, <1>5, Zenon
  <1>7. EndOfValue(text, p)
    BY <1>4, <1>6, Zenon DEF ValueAt, EndOfValue
  <1>8. after = p + 1
    BY <1>2, <1>6, PrimitiveIsOneSign
  <1>9. Depth(text, p + 1) = Len(stack)
    BY <1>1, <1>8, DepthReached
  <1>10. Matched(p + 1, stack)
    BY <1>3, <1>9, MatchedAfterFlatSign
  <1> QED  BY <1>1, <1>2, <1>7, <1>8, <1>10, ValueIsFollowed

(* A key that was read is one of its object's.                             *)
LEMMA OpenedByKey ==
  ASSUME NEW n \in Nat, NEW level, NEW frame \in Frames, OpenLevel(n, level, frame),
         NEW i \in 1 .. n - 1, IsKey(text, i), Depth(text, i) = level,
         \A r \in i .. n : Depth(text, r) >= level
  PROVE  OpenLevel(n, level, [frame EXCEPT !.keys = @ \cup {Decode[text[i]]}])
  <1> DEFINE more == [frame EXCEPT !.keys = @ \cup {Decode[text[i]]}]
  <1>1. more.closing = frame.closing /\ more.keys = frame.keys \cup {Decode[text[i]]}
    BY DEF Frames
  <1> HIDE DEF more
  <1>2. \E j \in 1 .. n - 1 :
          /\ text[j] \in Opening /\ Closing(text[j]) = more.closing
          /\ Depth(text, j) = level - 1 /\ \A r \in j + 1 .. n : Depth(text, r) >= level
    BY <1>1, Zenon DEF OpenLevel
  <1>3. \A name \in more.keys : \E x \in 1 .. n - 1 :
          /\ IsKey(text, x) /\ Decode[text[x]] = name
          /\ Depth(text, x) = level /\ \A r \in x .. n : Depth(text, r) >= level
    <2>1. \A name \in more.keys : name \in frame.keys \/ name = Decode[text[i]]
      BY <1>1
    <2> QED  BY <2>1, Zenon DEF OpenLevel
  <1>4. OpenLevel(n, level, more)
    BY <1>2, <1>3, Zenon DEF OpenLevel
  <1> QED  BY <1>4 DEF more

LEMMA MatchedAfterKey ==
  ASSUME TextRules, stack \in Seq(Frames), stack # <<>>,
         NEW p \in Nat \ {0}, NEW colon \in Nat, p < colon, text[p] \in Strings,
         Passed(p + 1, colon), text[colon] = ":", IsKey(text, p),
         Matched(p, stack), Depth(text, p) = Len(stack)
  PROVE  Matched(colon + 1, Append(Below, [Top EXCEPT !.keys = @ \cup {Decode[text[p]]}]))
  <1> DEFINE frame == [Top EXCEPT !.keys = @ \cup {Decode[text[p]]}]
             frames == Append(Below, frame)
  <1>1. /\ Len(stack) \in Nat \ {0} /\ Top \in Frames /\ Top = stack[Len(stack)]
        /\ Below \in Seq(Frames) /\ Len(Below) = Len(stack) - 1
        /\ \A k \in 1 .. Len(stack) - 1 : Below[k] = stack[k]
    BY TopBelow
  <1> HIDE DEF frame
  <1>2. /\ Len(frames) = Len(stack)
        /\ \A k \in 1 .. Len(stack) - 1 : frames[k] = stack[k]
        /\ frames[Len(stack)] = frame
    BY <1>1, AppendProperties
  <1> HIDE DEF frames
  <1>3. \A r \in p .. colon + 1 : Depth(text, r) = Len(stack)
    BY KeyIsFlat
  <1>4. colon + 1 \in Nat /\ p <= colon + 1 /\ p \in 1 .. (colon + 1) - 1
    OBVIOUS
  <1>5. Matched(colon + 1, stack)
    BY <1>1, <1>3, <1>4, MatchedLater
  <1>6. OpenLevel(colon + 1, Len(stack), frame)
    <2>1. OpenLevel(colon + 1, Len(stack), Top)
      BY <1>1, <1>5 DEF Matched
    <2>2. \A r \in p .. colon + 1 : Depth(text, r) >= Len(stack)
      <3>1. Len(stack) >= Len(stack)
        BY <1>1
      <3> QED  BY <1>3, <3>1, Zenon
    <2> QED  BY <1>1, <1>4, <2>1, <2>2, OpenedByKey DEF frame
  <1>7. ASSUME NEW k \in 1 .. Len(stack) - 1 PROVE OpenLevel(colon + 1, k, stack[k])
    BY <1>1, <1>5 DEF Matched
  <1>8. \A k \in 1 .. Len(frames) : k \in 1 .. Len(stack) - 1 \/ k = Len(stack)
    BY <1>1, <1>2
  <1> QED  BY <1>2, <1>6, <1>7, <1>8 DEF Matched, frames, frame

LEMMA KeyIsFollowed ==
  ASSUME TextRules, GrammarRules, NeighbourRules, ParserTypes, InPlace, Following, InPlace',
         Parses(text), stage # "rejected", NEW p \in 1 .. Len(text), NextSign(position, p),
         NEW colon \in 1 .. Len(text), KeyRead(p, colon)
  PROVE  Following'
  <1> DEFINE frames == Append(Below, [Top EXCEPT !.keys = @ \cup {Decode[text[p]]}])
  <1>1. /\ stage = "member" /\ text[p] \in Strings /\ Passed(p + 1, colon)
        /\ text[colon] = ":" /\ stack' = frames /\ Continue(colon + 1, "value")
    BY DEF KeyRead
  <1>2. text \in Texts /\ stack \in Seq(Frames) /\ stack # <<>>
    BY <1>1 DEF ParserTypes
  <1>3. p \in Nat \ {0} /\ Matched(p, stack) /\ Depth(text, p) = Len(stack)
    BY ExpectedAtSign
  <1>4. KeyAt(text, p, colon) /\ p < colon
    BY <1>1, <1>2, KeyIs
  <1>5. IsKey(text, p)
    BY <1>2, <1>4, TextType DEF IsKey
  <1>6. Matched(colon + 1, frames)
    BY <1>1, <1>2, <1>3, <1>4, <1>5, MatchedAfterKey
  <1> HIDE DEF frames
  <1>7. \A r \in 1 .. End : NextSign(colon + 1, r) => Expects("value", frames, r)
    BY <1>1, <1>2, ValueAfterColon
  <1> QED  BY <1>1, <1>6, <1>7, FollowingContinues

LEMMA ClosingIsFollowed ==
  ASSUME TextRules, NeighbourRules, ParserTypes, InPlace, Following, InPlace', Parses(text),
         stage # "rejected", NEW p \in 1 .. Len(text), NextSign(position, p), ClosingRead(p)
  PROVE  Following'
  <1>1. /\ stack # <<>> /\ text[p] \in ClosingSigns
        /\ stack' = Below /\ Continue(p + 1, "separator")
    BY DEF ClosingRead
  <1>2. text \in Texts /\ stack \in Seq(Frames)
    BY DEF ParserTypes
  <1>3. p \in Nat \ {0} /\ Matched(p, stack) /\ Depth(text, p) = Len(stack)
    BY ExpectedAtSign
  <1>4. /\ Len(stack) \in Nat \ {0} /\ Below \in Seq(Frames) /\ Len(Below) = Len(stack) - 1
        /\ \A k \in 1 .. Len(stack) - 1 : Below[k] = stack[k]
    BY <1>1, <1>2, TopBelow
  <1>5. Matched(p, Below)
    <2>1. \A k \in 1 .. Len(Below) : k \in 1 .. Len(stack) /\ Below[k] = stack[k]
      BY <1>4
    <2> QED  BY <1>3, <2>1 DEF Matched
  <1>6. Depth(text, p + 1) = Len(Below)
    BY <1>1, DepthReached
  <1>7. Matched(p + 1, Below)
    <2>1. \A r \in p .. p + 1 : r = p \/ r = p + 1
      BY <1>3
    <2>2. \A r \in p .. p + 1 : Depth(text, r) \in Int /\ Depth(text, r) >= Len(Below)
      BY <1>3, <1>4, <1>6, <2>1
    <2>3. p + 1 \in Nat /\ p <= p + 1 /\ Len(Below) \in Nat
      BY <1>3, <1>4
    <2> QED  BY <1>3, <1>5, <2>2, <2>3, MatchedLater
  <1>8. EndOfValue(text, p)
    BY <1>1, ClosingEndsValue
  <1> QED  BY <1>1, <1>2, <1>4, <1>7, <1>8, ValueIsFollowed

LEMMA CommaIsFollowed ==
  ASSUME TextRules, NeighbourRules, ParserTypes, InPlace, Following, InPlace', Parses(text),
         stage # "rejected", NEW p \in 1 .. Len(text), NextSign(position, p), CommaRead(p)
  PROVE  Following'
  <1>1. /\ stack # <<>> /\ text[p] = Comma /\ Continue(p + 1, "member") /\ stack' = stack
    BY Zenon DEF CommaRead, Comma
  <1>2. text \in Texts /\ stack \in Seq(Frames)
    BY DEF ParserTypes
  <1>3. /\ p \in Nat \ {0} /\ Matched(p, stack) /\ Depth(text, p) = Len(stack)
        /\ Len(stack) \in Nat
    BY ExpectedAtSign
  <1>4. Depth(text, p + 1) = Len(stack)
    BY <1>1, DepthReached
  <1>5. Matched(p + 1, stack)
    BY <1>3, <1>4, MatchedAfterFlatSign
  <1>6. \A r \in 1 .. End : NextSign(p + 1, r) => Expects("member", stack, r)
    BY <1>1, <1>2, <1>4, <1>5, MemberAfterComma
  <1> QED  BY <1>1, <1>5, <1>6, FollowingContinues

(* An array's next member is a value.                                      *)
LEMMA ElementIsFollowed ==
  ASSUME ParserTypes, Following, Parses(text), stage # "rejected", NextElement
  PROVE  Following'
  <1>1. /\ stage = "member" /\ Top.closing = "]"
        /\ Continue(position, "value") /\ stack' = stack
    BY DEF NextElement
  <1>2. Matched(position, stack)
    BY DEF Following
  <1>3. ASSUME NEW p \in 1 .. End, NextSign(position, p) PROVE Expects("value", stack, p)
    <2>1. MemberAt(text, p, OpeningOf(Top.closing))
      BY <1>1, <1>3 DEF Following, Expects, Top
    <2>2. OpeningOf("]") = "[" /\ "[" # "{"
      BY Zenon DEF OpeningOf
    <2>3. ValueAt(text, p)
      BY <1>1, <2>1, <2>2, Zenon DEF MemberAt
    <2> QED  BY <2>3 DEF Expects
  <1> QED  BY <1>1, <1>2, <1>3, FollowingContinues

(* Nothing is open at the end.                                             *)
LEMMA EndIsFollowed ==
  ASSUME NEW next \in {"parse", "accepted"}, NEW where, Continue(where, next), stack' = <<>>
  PROVE  Following'
  <1>1. Matched(where, <<>>)
    BY DEF Matched
  <1>2. \A p \in 1 .. End : Expects(next, <<>>, p)
    BY DEF Expects
  <1> QED  BY <1>1, <1>2, FollowingContinues

LEMMA StepIsAtSign ==
  ASSUME TextRules, NEW p, Passed(position, p), Step(p)
  PROVE  NextSign(position, p)
  <1>1. text[p] \in Strings \cup ClosingSigns \cup Opening \cup {Comma, Primitive, Overflow, ":"}
    BY Zenon DEF Step, StringRead, ClosingRead, CommaRead, EmptyRead, KeyRead, PrimitiveRead,
      OpeningRead, Comma
  <1>2. text[p] \notin Blanks
    BY <1>1, SignsDiffer, Zenon DEF Comma
  <1> QED  BY <1>2 DEF NextSign

LEMMA NextIsFollowed ==
  ASSUME TextRules, GrammarRules, NeighbourRules, ParserTypes, InPlace, Following,
         [JsonNext]_jsonVars, ParserTypes', InPlace'
  PROVE  Following'
  <1>1. text' = text
    BY RefusalIsFinal, Zenon DEF jsonVars
  <1>2. SUFFICES ASSUME Parses(text), stage' # "rejected" PROVE Following'
    BY <1>1 DEF Following
  <1>3. CASE UNCHANGED jsonVars
    <2>1. Matched(position, stack)' = Matched(position, stack)
      BY <1>3 DEF jsonVars, Matched, OpenLevel
    <2>2. End' = End
      BY <1>3 DEF jsonVars, End
    <2>3. \A p : /\ NextSign(position, p)' = NextSign(position, p)
                 /\ Expects(stage, stack, p)' = Expects(stage, stack, p)
      BY <1>3, <2>2 DEF jsonVars, NextSign, Passed, Expects
    <2>4. stage' = stage
      BY <1>3 DEF jsonVars
    <2> QED  BY <1>1, <2>1, <2>2, <2>3, <2>4 DEF Following
  <1>4. SUFFICES ASSUME JsonNext, stage # "rejected" PROVE Following'
    BY <1>3, RefusalIsFinal
  <1>5. CASE Traverse
    <2>1. ASSUME NEW p \in 1 .. Len(text), Passed(position, p), Step(p) PROVE Following'
      <3>1. NextSign(position, p)
        BY <2>1, StepIsAtSign
      <3> QED  BY <1>2, <1>4, <2>1, <3>1, StringIsFollowed, EmptyIsFollowed, OpeningIsFollowed,
        PrimitiveIsFollowed, KeyIsFollowed, ClosingIsFollowed, CommaIsFollowed, Zenon DEF Step
    <2>2. CASE NextElement
      BY <1>2, <1>4, <2>2, ElementIsFollowed
    <2>3. CASE EndOfTraversal
      <3>1. Continue(End, "parse") /\ stack' = <<>>
        BY <2>3, EndIsReached
      <3> QED  BY <3>1, EndIsFollowed
    <2> QED  BY <1>5, <2>1, <2>2, <2>3, TraverseSteps, Zenon
  <1>6. CASE Refuse
    BY <1>2, <1>6 DEF Refuse, Reject
  <1>7. CASE Parse
    <2>1. stage = "parse" /\ Continue(position, "accepted") /\ stack' = stack
      BY <1>2, <1>7 DEF Parse, Continue
    <2>2. stack = <<>>
      BY <2>1 DEF ParserTypes
    <2> QED  BY <2>1, <2>2, EndIsFollowed
  <1> QED  BY <1>4, <1>5, <1>6, <1>7, Zenon DEF JsonNext

LEMMA StartIsFollowed ==
  ASSUME TextRules, NeighbourRules, JsonInit
  PROVE  Following
  <1>1. text \in Texts /\ position = 1 /\ stack = <<>> /\ stage = "value"
    BY DEF JsonInit
  <1>2. Matched(position, stack)
    BY <1>1 DEF Matched
  <1>3. SUFFICES ASSUME Parses(text), NEW p \in 1 .. End, NextSign(1, p)
                 PROVE  Expects("value", stack, p)
    BY <1>1, <1>2 DEF Following
  <1> QED  BY <1>1, <1>3, ValueFirst

-----------------------------------------------------------------------------
(* Refusals.                                                               *)

(* The sign the traversal looks at is the one the text goes on with.       *)
LEMMA SignLookedAt ==
  ASSUME TextRules, ParserTypes, InPlace, Following, Parses(text), stage # "rejected"
  PROVE  LET p == AfterBlanks(position) IN
         /\ p \in 1 .. End /\ position <= p /\ Expects(stage, stack, p)
         /\ Matched(p, stack) /\ Depth(text, p) = Len(stack) /\ Len(stack) \in Nat
         /\ p \in DOMAIN text => p < End /\ At(p) = text[p]
  <1> DEFINE p == AfterBlanks(position)
  <1>1. text \in Texts /\ position \in 1 .. End
    BY DEF ParserTypes
  <1>2. End = Len(text) + 1 /\ Len(text) \in Nat /\ DOMAIN text = 1 .. Len(text)
    BY <1>1, TextType
  <1>3. /\ p \in 1 .. End /\ Passed(position, p)
        /\ At(p) # NoSign => text[p] \notin Blanks
        /\ p = End \/ At(p) # NoSign
    BY <1>1, AfterBlanksPassed
  <1> HIDE DEF p
  <1>4. NextSign(position, p)
    BY <1>3 DEF NextSign
  <1>5. /\ Matched(p, stack) /\ Depth(text, p) = Len(stack) /\ Len(stack) \in Nat
        /\ Expects(stage, stack, p)
    BY <1>4, ExpectedAtSign
  <1>6. p \in DOMAIN text => p < End
    BY <1>2
  <1>7. position <= p
    BY <1>3 DEF Passed
  <1> QED  BY <1>3, <1>5, <1>6, <1>7 DEF p, At

(* No value starts with what the traversal refuses as one.                 *)
LEMMA StartsAreValues ==
  ASSUME TextRules, NEW x \in Starts
  PROVE  x \notin {NoSign, BadString, ",", "]", "}"}
  <1>1. \A y \in {NoSign, BadString, ",", "]", "}"} : y \notin Strings
    BY Zenon DEF TextRules, Others, NoSign
  <1>2. \A y \in {NoSign, BadString, ",", "]", "}"} : y \notin Starts \ Strings
    BY Zenon DEF Starts, Opening, NoSign, BadString, Primitive, Overflow
  <1> QED  BY <1>1, <1>2, Zenon

(* After a key the traversal finds its colon.                              *)
LEMMA ColonIsFound ==
  ASSUME TextRules, text \in Texts, NEW p \in DOMAIN text, IsKey(text, p)
  PROVE  At(AfterBlanks(p + 1)) = ":"
  <1> DEFINE q == AfterBlanks(p + 1)
  <1>1. End = Len(text) + 1 /\ Len(text) \in Nat /\ DOMAIN text = 1 .. Len(text)
    BY TextType
  <1>2. p + 1 \in 1 .. End /\ p \in Nat
    BY <1>1
  <1>3. /\ q \in 1 .. End /\ Passed(p + 1, q)
        /\ At(q) # NoSign => At(q) = text[q] /\ text[q] \notin Blanks
        /\ q = End \/ At(q) # NoSign
    BY <1>2, AfterBlanksPassed
  <1> HIDE DEF q
  <1>4. PICK colon \in DOMAIN text : KeyAt(text, p, colon)
    BY DEF IsKey
  <1>5. /\ p < colon /\ text[colon] = ":" /\ colon \in Nat /\ colon < End
        /\ \A r \in p + 1 .. colon - 1 : text[r] = Blank
    BY <1>1, <1>4 DEF KeyAt
  <1>6. q \in Nat /\ p + 1 <= q /\ \A r \in p + 1 .. q - 1 : text[r] \in Blanks
    BY <1>3 DEF Passed
  <1>7. ":" \notin Blanks /\ Blank \in Blanks
    BY SignsDiffer, Zenon
  <1>8. ~(q < colon)
    <2>1. q < colon => q \in p + 1 .. colon - 1 /\ q # End
      BY <1>1, <1>2, <1>5, <1>6
    <2> QED  BY <1>3, <1>5, <1>7, <2>1
  <1>9. ~(colon < q)
    <2>1. colon < q => colon \in p + 1 .. q - 1
      BY <1>2, <1>5, <1>6
    <2> QED  BY <1>5, <1>6, <1>7, <2>1
  <1>10. q = colon
    BY <1>5, <1>6, <1>8, <1>9
  <1>11. At(colon) = text[colon]
    BY <1>5 DEF At
  <1> QED  BY <1>5, <1>10, <1>11 DEF q

(* A key seen before is a second member of that name in one object.        *)
LEMMA SeenIsAmbiguous ==
  ASSUME TextRules, text \in Texts, stack \in Seq(Frames), stack # <<>>,
         NEW p \in DOMAIN text, IsKey(text, p), Matched(p, stack),
         Depth(text, p) = Len(stack), Decode[text[p]] \in Top.keys
  PROVE  Ambiguous(text)
  <1>1. Len(stack) \in 1 .. Len(stack) /\ Top = stack[Len(stack)]
    BY TopBelow
  <1>2. PICK i \in 1 .. p - 1 :
          /\ IsKey(text, i) /\ Decode[text[i]] = Decode[text[p]]
          /\ Depth(text, i) = Len(stack)
          /\ \A r \in i .. p : Depth(text, r) >= Len(stack)
    BY <1>1 DEF Matched, OpenLevel
  <1>3. DOMAIN text = 1 .. Len(text) /\ Len(text) \in Nat
    BY TextType
  <1>4. i \in DOMAIN text /\ i < p
    BY <1>3
  <1>5. SameObject(text, i, p)
    BY <1>2 DEF SameObject
  <1> QED  BY <1>2, <1>4, <1>5 DEF Ambiguous

LEMMA RefusalIsJustified ==
  ASSUME TextRules, ParserTypes, InPlace, Following, Refuse, Parses(text)
  PROVE  ~Shallow(text) \/ Ambiguous(text)
  <1> DEFINE p == AfterBlanks(position)
  <1>1. text \in Texts /\ stack \in Seq(Frames) /\ (stage = "member" => stack # <<>>)
    BY DEF ParserTypes
  <1>2. stage # "rejected"
    BY RefusalIsFinal DEF JsonNext
  <1>3. /\ p \in 1 .. End /\ position <= p /\ Expects(stage, stack, p)
        /\ Matched(p, stack) /\ Depth(text, p) = Len(stack) /\ Len(stack) \in Nat
        /\ p \in DOMAIN text => p < End /\ At(p) = text[p]
    BY <1>2, SignLookedAt
  <1> HIDE DEF p
  <1>4. stage = "value" => ValueAt(text, p)
    BY <1>3 DEF Expects
  <1>5. stage = "member" => MemberAt(text, p, OpeningOf(Top.closing)) /\ p \in DOMAIN text
    <2>1. stage = "member" => MemberAt(text, p, OpeningOf(Top.closing))
      BY <1>3 DEF Expects, Top
    <2>2. \A opening : MemberAt(text, p, opening) => p \in DOMAIN text
      BY Zenon DEF MemberAt, ValueAt
    <2> QED  BY <2>1, <2>2, Zenon
  <1>6. stage = "member" /\ Top.closing = "}" => IsKey(text, p) /\ p \in DOMAIN text
    <2>1. OpeningOf("}") = "{"
      BY Zenon DEF OpeningOf
    <2> QED  BY <1>5, <2>1, Zenon DEF MemberAt
  <1>7. CASE TooDeep
    <2>1. p \in DOMAIN text /\ text[p] \in Starts /\ ~(Depth(text, p) <= MaxDepth)
      BY <1>3, <1>4, <1>7 DEF TooDeep, ValueAt, TextRules
    <2> QED  BY <2>1 DEF Shallow
  <1>8. ~NoValue
    <2>1. NoValue => stage = "value" /\ At(p) \in {NoSign, BadString, ",", "]", "}"}
      BY Zenon DEF NoValue, p
    <2> QED  BY <1>3, <1>4, <2>1, StartsAreValues, Zenon DEF ValueAt
  <1>9. ~Unterminated
    <2>1. Unterminated => stage = "member" /\ position = End
      BY DEF Unterminated
    <2>2. stage = "member" => position <= p /\ p < End
      BY <1>3, <1>5
    <2>3. position \in Nat /\ p \in Nat /\ End \in Nat
      BY <1>1, <1>3, TextType DEF ParserTypes
    <2>4. ~(stage = "member" /\ position = End)
      BY <2>2, <2>3
    <2> QED  BY <2>1, <2>4
  <1>10. ~NoKey
    <2>1. NoKey => /\ stage = "member" /\ Top.closing = "}"
                   /\ At(p) \notin Strings \/ At(AfterBlanks(p + 1)) # ":"
      BY Zenon DEF NoKey, p
    <2>2. stage = "member" /\ Top.closing = "}" =>
            At(p) \in Strings /\ At(AfterBlanks(p + 1)) = ":"
      BY <1>1, <1>3, <1>6, KeysAreStrings, ColonIsFound, Zenon
    <2> QED  BY <2>1, <2>2, Zenon
  <1>11. CASE KeySeen
    <2>1. stage = "member" /\ Top.closing = "}" /\ Decode[At(p)] \in Top.keys
      BY <1>11, Zenon DEF KeySeen, p
    <2>2. IsKey(text, p) /\ p \in DOMAIN text /\ At(p) = text[p]
      BY <1>3, <1>6, <2>1, Zenon
    <2>3. stack # <<>> /\ Decode[text[p]] \in Top.keys
      BY <1>1, <2>1, <2>2, Zenon
    <2>4. Ambiguous(text)
      BY <1>1, <1>3, <2>2, <2>3, SeenIsAmbiguous
    <2> QED  BY <2>4
  <1>12. ~NoSeparator
    <2>1. NoSeparator => stage = "separator" /\ stack # <<>> /\ At(p) \notin {Top.closing, Comma}
      BY Zenon DEF NoSeparator, p, Comma
    <2>2. stage = "separator" /\ stack # <<>> => At(p) \in {Top.closing, Comma}
      BY <1>3 DEF Expects, Top
    <2> QED  BY <2>1, <2>2, Zenon
  <1>13. ~MoreText
    BY <1>3 DEF MoreText, Expects, p
  <1> QED  BY <1>7, <1>8, <1>9, <1>10, <1>11, <1>12, <1>13 DEF Refuse

LEMMA RefusalsStayJustified ==
  ASSUME TextRules, ParserTypes, InPlace, Following, NothingElseRefused, [JsonNext]_jsonVars
  PROVE  NothingElseRefused'
  <1>1. text' = text
    BY RefusalIsFinal, Zenon DEF jsonVars
  <1>2. Finite' = Finite
    BY <1>1 DEF Finite
  <1>3. CASE UNCHANGED jsonVars
    BY <1>1, <1>2, <1>3 DEF jsonVars, NothingElseRefused
  <1>4. CASE Traverse
    <2>1. stage' \in {"value", "member", "separator", "parse"}
      BY <1>4, Zenon DEF Traverse, ReadValue, SkipPrimitive, ReadKey, NextElement,
        ReadSeparator, EndOfTraversal, Continue
    <2>2. stage' # "rejected"
      BY <2>1
    <2> QED  BY <2>2 DEF NothingElseRefused
  <1>5. CASE Refuse
    BY <1>1, <1>2, <1>5, RefusalIsJustified DEF NothingElseRefused
  <1>6. CASE Parse
    BY <1>1, <1>2, <1>6 DEF Parse, Continue, NothingElseRefused
  <1> QED  BY <1>3, <1>4, <1>5, <1>6, Zenon DEF JsonNext

(* For any texts, strings and nesting limit, and whatever JSON.parse is    *)
(* that accepts signs only beside those RFC 8259 allows there: a text that *)
(* JSON.parse accepts, finite, no deeper than the limit and without two    *)
(* members of one decoded name in an object, is never refused, whatever    *)
(* its blanks, spellings and nesting (runtime-files.mts:45-104).           *)
THEOREM RefusedIsUnusable == JsonSpec => []NothingElseRefused
  <1>1. JsonInit => Following /\ NothingElseRefused
    BY StartIsFollowed, TextAssumption, NeighbourAssumption DEF JsonInit, NothingElseRefused
  <1>2. JInv /\ JInv' /\ Following /\ NothingElseRefused /\ [JsonNext]_jsonVars
          => Following' /\ NothingElseRefused'
    BY NextIsFollowed, RefusalsStayJustified, TextAssumption, GrammarAssumption,
      NeighbourAssumption DEF JInv
  <1> QED  BY <1>1, <1>2, TraversalInvariance, PTL DEF JsonSpec
=============================================================================
