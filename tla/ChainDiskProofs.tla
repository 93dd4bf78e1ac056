--------------------------- MODULE ChainDiskProofs ---------------------------
(***************************************************************************)
(* For every block tree, every number and size of files and every number   *)
(* of crashes: the chainstate that a restart finds belongs to blocks that  *)
(* the block index database has, and a database with pruned blocks says    *)
(* so.                                                                     *)
(*                                                                         *)
(* Neither is inductive alone: what a flush makes durable was gathered in  *)
(* memory before.  The invariant IInv says of the memory what the two say  *)
(* of the disk, and that a block index entry differs from the one in the   *)
(* database only while it is dirty.  FInv adds what the files hold and how *)
(* long they are: with it the database never points at data that is not on *)
(* disk, a node that did not lose power starts again, and pruning keeps    *)
(* the recent blocks.                                                      *)
(***************************************************************************)
EXTENDS ChainDisk, TLAPS

\* Data only of blocks that were received, and those only with a header.
Entries ==
    {e \in [known : BOOLEAN, nFile : Files, data : Nat \cup {NoSlot},
            undo : Nat \cup {NoSlot}, received : BOOLEAN] :
        (HaveData(e) => e.received) /\ (e.received => e.known)}
Infos == [nSize : Nat, nUndoSize : Nat, nHeightLast : Nat]

Callers == {"down", "idle", "verify"}

\* The types the argument needs; sizes are any natural numbers.
Shape ==
    /\ index \in [Blocks -> Entries]
    /\ vinfoBlockFile \in [Files -> Infos]
    /\ nLastBlockFile \in Files
    /\ blocktree \in [index : [Blocks -> Entries], info : [Files -> Infos],
                      last : Files, prunedblockfiles : BOOLEAN]
    /\ setDirtyBlockIndex \subseteq Blocks
    /\ tip \in Blocks \cup {NULL} /\ coins \in Blocks \cup {NULL}
    /\ flush.next \in Blocks \cup {NULL} /\ flush.then \in Callers
    /\ chainstate \in chainstateMaybe /\ chainstateMaybe \subseteq Blocks \cup {NULL}
    /\ flagSynced \in BOOLEAN /\ fHavePruned \in BOOLEAN

\* All blocks of the chain that ends in b were received, says the index I.
Complete(I, b) == \A c \in Chain(b) : I[c].received

Running == pc \notin {"down", "corrupt"}

\* An entry that is not dirty is the one in the database.
CleanSame ==
    Running => \A b \in Blocks : b \notin setDirtyBlockIndex => index[b] = blocktree.index[b]

\* After the index was written, nothing is dirty until the flush is over.
Written == pc \in {"unlink", "coins"} => setDirtyBlockIndex = {}

\* What the database knows of a block, the memory knows.
Remembered ==
    Running => \A b \in Blocks : blocktree.index[b].received => index[b].received

\* The chains of the coins, of the tip and of the tip to be are complete.
MemoryComplete ==
    Running => Complete(index, coins) /\ Complete(index, tip) /\ Complete(index, flush.next)

DiskComplete == \A c \in chainstateMaybe : Complete(blocktree.index, c)

(***************************************************************************)
(* A block that was received and has no data was pruned; then the database *)
(* has the flag, and it is durable once the entry without data is.         *)
(***************************************************************************)
Pruned(I) == \E b \in Blocks : I[b].received /\ ~HaveData(I[b])
FlagSet ==
    /\ Running /\ (Pruned(index) \/ fHavePruned) => blocktree.prunedblockfiles
    /\ flagSynced => blocktree.prunedblockfiles
    /\ Pruned(blocktree.index) => flagSynced

IInv == Shape /\ CleanSame /\ Written /\ Remembered /\ MemoryComplete /\ DiskComplete /\ FlagSet

-----------------------------------------------------------------------------
(***************************************************************************)
(* What the block and undo files hold.  An entry of the index, in memory   *)
(* or in the database, points at a record below the sizes of its file, and *)
(* records are only written at or above the sizes, which a restart may set *)
(* back but never below what the database refers to.                       *)
(***************************************************************************)
\* The blocks with data, and with undo data, in file f.
DataIn(I, f) == {b \in Blocks : HaveData(I[b]) /\ I[b].nFile = f}
UndoIn(I, f) == {b \in Blocks : HaveUndo(I[b]) /\ I[b].nFile = f}

\* The index I keeps within the files 0 .. last and their sizes and heights V.
Placed(I, V, last) ==
    \A b \in Blocks :
        /\ HaveData(I[b]) =>
              /\ I[b].nFile <= last
              /\ I[b].data < V[I[b].nFile].nSize
              /\ nHeight[b] <= V[I[b].nFile].nHeightLast
        /\ HaveUndo(I[b]) =>
              HaveData(I[b]) /\ b # Genesis /\ I[b].undo < V[I[b].nFile].nUndoSize

\* Each record of undo data belongs to a block of its file, so there is room.
Counted(I, V) ==
    \A f \in Files :
        /\ IsFiniteSet(DataIn(I, f))
        /\ V[f].nUndoSize <= Cardinality(UndoIn(I, f))
        /\ Cardinality(DataIn(I, f)) <= V[f].nSize

\* The files B have the blocks, and rev the undo data, that the index I points at.
Stored(I, B) == \A b \in Blocks : HaveData(I[b]) => B[I[b].nFile][I[b].data] = b
UndoStored(I) == \A b \in Blocks : HaveUndo(I[b]) => rev[I[b].nFile][I[b].undo] = b

\* The types of index and files; Shape has the others.
Contents == [Files -> [Slots -> Blocks \cup {NULL}]]
Typed ==
    /\ index \in [Blocks -> Entry] /\ blocktree.index \in [Blocks -> Entry]
    /\ vinfoBlockFile \in [Files -> FileInfo] /\ blocktree.info \in [Files -> FileInfo]
    /\ setDirtyFileInfo \subseteq Files
    /\ blk \in Contents /\ rev \in Contents /\ blkSynced \in Contents /\ revSynced \in Contents

OnDisk ==
    /\ Placed(blocktree.index, blocktree.info, blocktree.last)
    /\ Counted(blocktree.index, blocktree.info)
    /\ Stored(blocktree.index, blk) /\ Stored(blocktree.index, blkSynced)

\* A file that is left is committed, and the last one before the index is written.
Committed ==
    \A b \in Blocks :
        HaveData(index[b]) /\ (index[b].nFile # nLastBlockFile \/ pc = "index")
            => blkSynced[index[b].nFile][index[b].data] = b

InMemory ==
    Running => /\ Placed(index, vinfoBlockFile, nLastBlockFile)
               /\ Counted(index, vinfoBlockFile)
               /\ Stored(index, blk)
               /\ Committed

UndoKept == powerLost \/ (UndoStored(index) /\ UndoStored(blocktree.index))

\* A file is as long as the database says, or it was pruned and is written no more.
Grown(f) ==
    /\ blocktree.info[f].nSize <= vinfoBlockFile[f].nSize
    /\ blocktree.info[f].nUndoSize <= vinfoBlockFile[f].nUndoSize
Gone(f) == f < nLastBlockFile /\ DataIn(index, f) = {}
Sizes ==
    Running =>
        /\ blocktree.last <= nLastBlockFile
        /\ \A f \in Files \ setDirtyFileInfo : vinfoBlockFile[f] = blocktree.info[f]
        /\ \A f \in Files : Grown(f) \/ Gone(f)

\* No block of the index is in the files that are to be removed.
Emptied ==
    pc \in {"commit", "index", "unlink"} => \A f \in flush.prune : DataIn(index, f) = {}

FInv == Typed /\ OnDisk /\ InMemory /\ UndoKept /\ Sizes /\ Emptied

-----------------------------------------------------------------------------
\* What the argument needs of numbers and finite sets; LEMMA Counting proves it.
CountingFacts ==
    /\ \A T \in SUBSET Nat : T # {} => \E n \in T : \A m \in T : n <= m
    /\ IsFiniteSet({}) /\ Cardinality({}) = 0
    /\ \A S : IsFiniteSet(S) => Cardinality(S) \in Nat
    /\ \A S : IsFiniteSet(S) =>
          \A T \in SUBSET S : IsFiniteSet(T) /\ Cardinality(T) <= Cardinality(S)
    /\ \A S, x : IsFiniteSet(S) =>
          /\ IsFiniteSet(S \cup {x})
          /\ Cardinality(S \cup {x}) = IF x \in S THEN Cardinality(S) ELSE Cardinality(S) + 1

\* FindBlockPos returns a file with room, not before the last one.
LEMMA FindsRoom ==
    ASSUME CountingFacts,
           vinfoBlockFile \in [Files -> FileInfo], nLastBlockFile \in Files,
           FindBlockPos \in Files
    PROVE  /\ nLastBlockFile <= FindBlockPos
           /\ vinfoBlockFile[FindBlockPos].nSize + 1 < MAX_BLOCKFILE_SIZE
<1> DEFINE T == {f \in nLastBlockFile .. MaxFile + 1 :
                     f \in Files => vinfoBlockFile[f].nSize + 1 < MAX_BLOCKFILE_SIZE}
<1>1. /\ nLastBlockFile \in Nat /\ nLastBlockFile <= MaxFile /\ MaxFile \in Nat
      /\ MAX_BLOCKFILE_SIZE \in Nat
      /\ \A f \in Files : vinfoBlockFile[f].nSize \in Nat
  BY SizesAssumption DEF Files, FileInfo
<1>2. T \in SUBSET Nat /\ MaxFile + 1 \in T
  BY <1>1 DEF Files
<1>3. PICK f \in T : \A h \in T : f <= h
  <2> HIDE DEF T
  <2> QED BY <1>2, Zenon DEF CountingFacts
<1>4. \A h \in nLastBlockFile .. f - 1 : vinfoBlockFile[h].nSize + 1 >= MAX_BLOCKFILE_SIZE
  <2> SUFFICES ASSUME NEW h \in nLastBlockFile .. f - 1
               PROVE  vinfoBlockFile[h].nSize + 1 >= MAX_BLOCKFILE_SIZE
    BY Zenon
  <2>1. h \in Files /\ h \in nLastBlockFile .. MaxFile + 1 /\ ~(f <= h)
    BY <1>1, <1>3 DEF Files
  <2>2. h \notin T
    BY <1>3, <2>1, Zenon
  <2> QED
    BY <1>1, <2>1, <2>2
<1>5. /\ FindBlockPos \in nLastBlockFile .. MaxFile + 1
      /\ FindBlockPos \in Files => vinfoBlockFile[FindBlockPos].nSize + 1 < MAX_BLOCKFILE_SIZE
  BY <1>3, <1>4, Zenon DEF FindBlockPos
<1> QED
  BY <1>1, <1>5

\* A part of a finite set, and a set with one element more.
LEMMA Fewer ==
    ASSUME CountingFacts, NEW S, IsFiniteSet(S), NEW T, T \subseteq S
    PROVE  IsFiniteSet(T) /\ Cardinality(T) \in Nat /\ Cardinality(S) \in Nat
           /\ Cardinality(T) <= Cardinality(S)
<1>1. T \in SUBSET S
  BY Zenon
<1>2. IsFiniteSet(T) /\ Cardinality(T) <= Cardinality(S)
  BY <1>1, Zenon DEF CountingFacts
<1>3. Cardinality(T) \in Nat /\ Cardinality(S) \in Nat
  BY <1>2, Zenon DEF CountingFacts
<1> QED
  BY <1>2, <1>3, Zenon

LEMMA OneMore ==
    ASSUME CountingFacts, NEW S, IsFiniteSet(S), NEW x
    PROVE  /\ IsFiniteSet(S \cup {x})
           /\ Cardinality(S) \in Nat
           /\ Cardinality(S \cup {x}) <= Cardinality(S) + 1
           /\ x \notin S => Cardinality(S \cup {x}) = Cardinality(S) + 1
<1>1. Cardinality(S) \in Nat
  BY Zenon DEF CountingFacts
<1>2. /\ IsFiniteSet(S \cup {x})
      /\ Cardinality(S \cup {x}) = IF x \in S THEN Cardinality(S) ELSE Cardinality(S) + 1
  BY Zenon DEF CountingFacts
<1> QED
  BY <1>1, <1>2

-----------------------------------------------------------------------------
\* What an entry points at is a file and a slot.
LEMMA EntryFacts ==
    ASSUME NEW I \in [Blocks -> Entry], NEW b \in Blocks
    PROVE  /\ I[b].nFile \in Files /\ I[b].nFile \in Nat
           /\ HaveData(I[b]) => I[b].data \in Slots /\ I[b].data \in Nat
           /\ HaveUndo(I[b]) => I[b].undo \in Slots /\ I[b].undo \in Nat
<1>1. I[b] \in Entry
  BY Zenon
<1>2. Files \subseteq Nat /\ Slots \subseteq Nat
  BY SizesAssumption DEF Files, Slots
<1> QED
  BY <1>1, <1>2, Zenon DEF Entry, HaveData, HaveUndo

\* The sizes of a file are natural numbers.
LEMMA InfoFacts ==
    ASSUME NEW V \in [Files -> FileInfo], NEW f \in Files
    PROVE  /\ V[f].nSize \in Nat /\ V[f].nUndoSize \in Nat /\ V[f].nHeightLast \in Nat
           /\ V[f].nSize < MAX_BLOCKFILE_SIZE /\ V[f].nUndoSize < MAX_BLOCKFILE_SIZE
<1>1. V[f] \in FileInfo
  BY Zenon
<1> QED
  BY <1>1, SizesAssumption DEF FileInfo

\* StoreBlock appends to a file whose earlier records stay.
LEMMA StoreFiles ==
    ASSUME CountingFacts, IInv, FInv, Running, NEW b \in Blocks, StoreBlock(b),
           ~HaveData(index[b]) \/ b = Genesis,
           UNCHANGED <<blocktree, powerLost>>, pc' \in {"idle", "flush"}
    PROVE  FInv'
<1> DEFINE f == FindBlockPos
           old == nLastBlockFile
           slot == vinfoBlockFile[f].nSize
<1>1. /\ f \in Files /\ old \in Files /\ old <= f /\ f \in Nat /\ old \in Nat
      /\ slot \in Slots /\ slot + 1 < MAX_BLOCKFILE_SIZE /\ slot \in Nat
  <2>1. f \in Files /\ old \in Files /\ vinfoBlockFile \in [Files -> FileInfo]
    BY Zenon DEF StoreBlock, IInv, Shape, FInv, Typed
  <2>2. old <= f /\ slot + 1 < MAX_BLOCKFILE_SIZE
    BY <2>1, FindsRoom, Zenon
  <2>3. slot \in Nat
    BY <2>1, InfoFacts, Zenon
  <2> QED
    BY <2>1, <2>2, <2>3, SizesAssumption DEF Files, Slots
<1>2. /\ nLastBlockFile' = f
      /\ vinfoBlockFile' = [vinfoBlockFile EXCEPT ![f] = AddBlock(vinfoBlockFile[f], nHeight[b])]
      /\ setDirtyFileInfo' = setDirtyFileInfo \cup {f}
  BY Zenon DEF StoreBlock
<1>3. /\ blk' = [blk EXCEPT
                   ![old] = IF f # old THEN Truncated(blk[old], vinfoBlockFile[old].nSize) ELSE @,
                   ![f][slot] = b]
      /\ rev' = [rev EXCEPT
                   ![old] = IF f # old THEN Truncated(rev[old], vinfoBlockFile[old].nUndoSize) ELSE @]
      /\ IF f # old THEN FileCommit(old) ELSE UNCHANGED <<blkSynced, revSynced>>
  BY Zenon DEF StoreBlock
<1>4. index' = [c \in Blocks |->
               IF c = b THEN [known |-> TRUE, nFile |-> f, data |-> slot,
                              undo |-> NoSlot, received |-> TRUE]
               ELSE [index[c] EXCEPT !.known = @ \/ c \in Up[b]]]
  BY Zenon DEF StoreBlock
<1>5. /\ blk \in Contents /\ rev \in Contents /\ blkSynced \in Contents /\ revSynced \in Contents
      /\ vinfoBlockFile \in [Files -> FileInfo] /\ blocktree.info \in [Files -> FileInfo]
      /\ index \in [Blocks -> Entry] /\ blocktree.index \in [Blocks -> Entry]
  BY Zenon DEF FInv, Typed
<1> HIDE DEF f, slot, old
<1>6. /\ blk' \in Contents /\ rev' \in Contents
      /\ \A h \in Files, s \in Slots :
            /\ (h = f => s # slot) /\ (h = old => s < vinfoBlockFile[h].nSize)
                  => blk'[h][s] = blk[h][s]
            /\ (h = old => s < vinfoBlockFile[h].nUndoSize) => rev'[h][s] = rev[h][s]
      /\ blk'[f][slot] = b
  <2>1. /\ Truncated(blk[old], vinfoBlockFile[old].nSize) \in [Slots -> Blocks \cup {NULL}]
        /\ Truncated(rev[old], vinfoBlockFile[old].nUndoSize) \in [Slots -> Blocks \cup {NULL}]
    BY <1>1, <1>5 DEF Truncated, Contents
  <2>2. CASE f = old
    <3>1. blk' = [blk EXCEPT ![f][slot] = b] /\ rev' = rev
      BY <1>1, <1>3, <1>5, <2>2, Zenon DEF Contents
    <3> QED
      BY <1>1, <1>5, <2>2, <3>1, Zenon DEF Contents
  <2>3. CASE f # old
    <3>1. /\ \A h \in Files : /\ h # f /\ h # old => blk'[h] = blk[h]
                              /\ h # old => rev'[h] = rev[h]
          /\ blk'[old] = Truncated(blk[old], vinfoBlockFile[old].nSize)
          /\ rev'[old] = Truncated(rev[old], vinfoBlockFile[old].nUndoSize)
          /\ blk'[f] = [blk[f] EXCEPT ![slot] = b]
      BY <1>1, <1>3, <1>5, <2>3, Zenon DEF Contents
    <3>2. DOMAIN blk' = Files /\ DOMAIN rev' = Files
      BY <1>3, <1>5, Zenon DEF Contents
    <3>3. blk' = [h \in Files |-> blk'[h]] /\ rev' = [h \in Files |-> rev'[h]]
      BY <1>3, <1>5, Zenon DEF Contents
    <3>4. [blk[f] EXCEPT ![slot] = b] \in [Slots -> Blocks \cup {NULL}]
      BY <1>1, <1>5, Zenon DEF Contents
    <3>5. \A h \in Files : /\ blk'[h] \in [Slots -> Blocks \cup {NULL}]
                           /\ rev'[h] \in [Slots -> Blocks \cup {NULL}]
      <4>1. \A h \in Files : /\ blk[h] \in [Slots -> Blocks \cup {NULL}]
                             /\ rev[h] \in [Slots -> Blocks \cup {NULL}]
        BY <1>5, Zenon DEF Contents
      <4> QED
        BY <2>1, <3>1, <3>4, <4>1, Zenon
    <3>6. blk' \in Contents /\ rev' \in Contents
      BY <3>3, <3>5, Zenon DEF Contents
    <3> QED
      BY <1>1, <1>5, <2>3, <3>1, <3>6 DEF Contents, Truncated
  <2> QED
    BY <2>2, <2>3, Zenon
<1>7. /\ blkSynced' \in Contents /\ revSynced' \in Contents
      /\ \A h \in Files : blkSynced'[h] = IF f # old /\ h = old THEN blk'[h] ELSE blkSynced[h]
  <2>1. CASE f = old
    BY <1>3, <1>5, <2>1
  <2>2. CASE f # old
    <3>1. /\ blkSynced' = [blkSynced EXCEPT ![old] = blk'[old]]
          /\ revSynced' = [revSynced EXCEPT ![old] = rev'[old]]
      BY <1>3, <2>2 DEF FileCommit
    <3>2. blk'[old] \in [Slots -> Blocks \cup {NULL}] /\ rev'[old] \in [Slots -> Blocks \cup {NULL}]
      BY <1>1, <1>6 DEF Contents
    <3> QED
      BY <1>1, <1>5, <2>2, <3>1, <3>2 DEF Contents
  <2> QED
    BY <2>1, <2>2
<1>8. /\ index'[b].nFile = f /\ index'[b].data = slot /\ index'[b].undo = NoSlot
      /\ HaveData(index'[b]) /\ ~HaveUndo(index'[b]) /\ ~HaveUndo(index[b])
  <2>1. ~HaveUndo(index[b])
    BY Zenon DEF FInv, InMemory, Placed
  <2> QED
    BY <1>1, <1>4, <2>1 DEF HaveData, HaveUndo, NoSlot
<1>9. \A c \in Blocks \ {b} : /\ index'[c].nFile = index[c].nFile
                              /\ index'[c].data = index[c].data /\ index'[c].undo = index[c].undo
                              /\ HaveData(index'[c]) = HaveData(index[c])
                              /\ HaveUndo(index'[c]) = HaveUndo(index[c])
  <2> SUFFICES ASSUME NEW c \in Blocks \ {b}
               PROVE  /\ index'[c].nFile = index[c].nFile
                      /\ index'[c].data = index[c].data /\ index'[c].undo = index[c].undo
    BY Zenon DEF HaveData, HaveUndo
  <2>1. index[c] \in Entry
    BY <1>5, Zenon
  <2> QED
    BY <1>4, <2>1, Zenon DEF Entry
<1>10. index' \in [Blocks -> Entry]
  <2> SUFFICES ASSUME NEW c \in Blocks PROVE index'[c] \in Entry
    BY <1>4, Zenon
  <2>1. CASE c = b
    BY <1>1, <1>4, <2>1, Zenon DEF Entry
  <2>2. CASE c # b
    <3>1. index'[c] = [index[c] EXCEPT !.known = @ \/ c \in Up[b]] /\ index[c] \in Entry
      BY <1>4, <1>5, <2>2, Zenon
    <3> QED
      BY <3>1, Zenon DEF Entry
  <2> QED
    BY <2>1, <2>2, Zenon
<1>11. /\ \A h \in Files : /\ h # f => vinfoBlockFile'[h] = vinfoBlockFile[h]
                           /\ vinfoBlockFile'[h].nUndoSize = vinfoBlockFile[h].nUndoSize
                           /\ vinfoBlockFile[h].nSize <= vinfoBlockFile'[h].nSize
                           /\ vinfoBlockFile[h].nHeightLast <= vinfoBlockFile'[h].nHeightLast
       /\ vinfoBlockFile'[f].nSize = slot + 1 /\ nHeight[b] <= vinfoBlockFile'[f].nHeightLast
       /\ vinfoBlockFile' \in [Files -> FileInfo]
  <2> DEFINE info == vinfoBlockFile[f]
             more == AddBlock(info, nHeight[b])
  <2>1. info \in FileInfo /\ nHeight[b] \in Nat /\ nHeight[b] < UINT_MAX /\ UINT_MAX \in Nat
        /\ info.nSize = slot
    BY <1>1, <1>5, TreeAssumption, SizesAssumption, Zenon DEF slot
  <2>2. /\ info.nHeightLast \in 0 .. UINT_MAX /\ info.nSize \in Nat /\ info.nUndoSize \in Nat
        /\ MAX_BLOCKFILE_SIZE \in Nat
    BY <2>1, SizesAssumption DEF FileInfo
  <2>3. /\ Maximum(info.nHeightLast, nHeight[b]) \in 0 .. UINT_MAX
        /\ info.nHeightLast <= Maximum(info.nHeightLast, nHeight[b])
        /\ nHeight[b] <= Maximum(info.nHeightLast, nHeight[b])
    BY <2>1, <2>2 DEF Maximum
  <2>4. /\ more.nUndoSize = info.nUndoSize /\ more.nSize = slot + 1
        /\ more.nHeightLast = Maximum(info.nHeightLast, nHeight[b])
        /\ more \in FileInfo
    <3> DEFINE height == Maximum(info.nHeightLast, nHeight[b])
    <3>1. more = [info EXCEPT !.nSize = slot + 1, !.nHeightLast = height]
      BY <2>1, Zenon DEF AddBlock
    <3>2. slot + 1 \in 0 .. MAX_BLOCKFILE_SIZE - 1 /\ height \in 0 .. UINT_MAX
      BY <1>1, <2>2, <2>3
    <3> HIDE DEF info, more, height
    <3>3. more.nUndoSize = info.nUndoSize /\ more.nSize = slot + 1 /\ more.nHeightLast = height
      BY <2>1, <3>1, Zenon DEF FileInfo
    <3>4. more \in FileInfo
      BY <2>1, <3>1, <3>2, Zenon DEF FileInfo
    <3> QED
      BY <3>3, <3>4, Zenon DEF height
  <2>5. vinfoBlockFile' = [vinfoBlockFile EXCEPT ![f] = more]
    BY <1>2, Zenon
  <2> HIDE DEF more
  <2>6. vinfoBlockFile'[f] = more /\ \A h \in Files : h # f => vinfoBlockFile'[h] = vinfoBlockFile[h]
    BY <1>1, <1>5, <2>5, Zenon
  <2>7. vinfoBlockFile' \in [Files -> FileInfo]
    BY <1>5, <2>4, <2>5, Zenon
  <2> QED
    BY <1>5, <2>1, <2>2, <2>3, <2>4, <2>6, <2>7, InfoFacts
<1>12. Typed'
  BY <1>1, <1>2, <1>5, <1>6, <1>7, <1>10, <1>11, Zenon DEF FInv, Typed
<1>13. \A h \in Files : h = old => ~Gone(h)
  BY <1>1 DEF Gone, old
<1>14. \A c \in Blocks : HaveData(blocktree.index[c]) =>
          /\ blk'[blocktree.index[c].nFile][blocktree.index[c].data] = c
          /\ blkSynced'[blocktree.index[c].nFile][blocktree.index[c].data] = c
  <2> SUFFICES ASSUME NEW c \in Blocks, HaveData(blocktree.index[c])
               PROVE  /\ blk'[blocktree.index[c].nFile][blocktree.index[c].data] = c
                      /\ blkSynced'[blocktree.index[c].nFile][blocktree.index[c].data] = c
    BY Zenon
  <2> DEFINE h == blocktree.index[c].nFile
             s == blocktree.index[c].data
  <2>1. h \in Files /\ s \in Slots /\ h \in Nat /\ s \in Nat
    BY <1>5, EntryFacts, Zenon
  <2>2. h <= blocktree.last /\ s < blocktree.info[h].nSize /\ blk[h][s] = c /\ blkSynced[h][s] = c
    BY Zenon DEF FInv, OnDisk, Placed, Stored
  <2>3. blocktree.last <= old /\ blocktree.last \in Nat
    BY SizesAssumption DEF FInv, Sizes, old, IInv, Shape, Files
  <2>4. h = old => s < vinfoBlockFile[h].nSize
    <3>1. h = old => Grown(h)
      BY <1>13, <2>1, Zenon DEF FInv, Sizes
    <3> QED
      BY <1>5, <2>1, <2>2, <3>1, InfoFacts DEF Grown
  <2>5. h = f => s # slot
    BY <1>1, <2>1, <2>2, <2>3, <2>4 DEF slot
  <2> HIDE DEF h, s
  <2>6. blk'[h][s] = blk[h][s]
    BY <1>6, <2>1, <2>4, <2>5, Zenon
  <2> QED
    BY <1>7, <2>1, <2>2, <2>6, Zenon DEF h, s
<1>15. OnDisk'
  BY <1>14, Zenon DEF FInv, OnDisk, Placed, Counted, Stored
<1>16. \A c \in Blocks \ {b} : HaveData(index[c]) =>
          /\ index[c].nFile <= old
          /\ index[c].data < vinfoBlockFile[index[c].nFile].nSize
          /\ blk'[index[c].nFile][index[c].data] = c
          /\ index[c].nFile # f => blkSynced'[index[c].nFile][index[c].data] = c
  <2> SUFFICES ASSUME NEW c \in Blocks \ {b}, HaveData(index[c])
               PROVE  /\ index[c].nFile <= old
                      /\ index[c].data < vinfoBlockFile[index[c].nFile].nSize
                      /\ blk'[index[c].nFile][index[c].data] = c
                      /\ index[c].nFile # f => blkSynced'[index[c].nFile][index[c].data] = c
    BY Zenon
  <2> DEFINE h == index[c].nFile
             s == index[c].data
  <2>1. h \in Files /\ s \in Slots /\ h \in Nat /\ s \in Nat
    BY <1>5, EntryFacts, Zenon
  <2>2. /\ h <= old /\ s < vinfoBlockFile[h].nSize /\ blk[h][s] = c
        /\ h # old => blkSynced[h][s] = c
    BY Zenon DEF FInv, InMemory, Placed, Stored, Committed, old
  <2>3. h = f => s # slot
    BY <1>5, <2>1, <2>2, InfoFacts DEF slot
  <2> HIDE DEF h, s
  <2>4. blk'[h][s] = c
    BY <1>6, <2>1, <2>2, <2>3, Zenon
  <2> QED
    BY <1>7, <2>1, <2>2, <2>4, Zenon DEF h, s
<1>17. InMemory'
  <2>1. Placed(index, vinfoBlockFile, nLastBlockFile)'
    <3> SUFFICES ASSUME NEW c \in Blocks
                 PROVE  /\ HaveData(index'[c]) =>
                              /\ index'[c].nFile <= f
                              /\ index'[c].data < vinfoBlockFile'[index'[c].nFile].nSize
                              /\ nHeight[c] <= vinfoBlockFile'[index'[c].nFile].nHeightLast
                        /\ HaveUndo(index'[c]) =>
                              /\ HaveData(index'[c]) /\ c # Genesis
                              /\ index'[c].undo < vinfoBlockFile'[index'[c].nFile].nUndoSize
      BY <1>2, Zenon DEF Placed
    <3>1. CASE c = b
      BY <1>1, <1>8, <1>11, <3>1
    <3>2. CASE c # b
      <4> DEFINE h == index[c].nFile
      <4>1. /\ h \in Files /\ h \in Nat /\ nHeight[c] \in Nat
            /\ HaveData(index[c]) => index[c].data \in Nat
        BY <1>5, EntryFacts, TreeAssumption, Zenon
      <4>2. HaveData(index[c]) => h <= old /\ index[c].data < vinfoBlockFile[h].nSize
                                  /\ nHeight[c] <= vinfoBlockFile[h].nHeightLast
        BY Zenon DEF FInv, InMemory, Placed, old
      <4>3. HaveUndo(index[c]) => HaveData(index[c]) /\ c # Genesis
                                  /\ index[c].undo < vinfoBlockFile[h].nUndoSize
        BY Zenon DEF FInv, InMemory, Placed
      <4>4. /\ vinfoBlockFile[h].nSize \in Nat /\ vinfoBlockFile'[h].nSize \in Nat
            /\ vinfoBlockFile[h].nHeightLast \in Nat /\ vinfoBlockFile'[h].nHeightLast \in Nat
        BY <1>5, <1>11, <4>1, InfoFacts, Zenon
      <4>5. /\ vinfoBlockFile'[h].nUndoSize = vinfoBlockFile[h].nUndoSize
            /\ vinfoBlockFile[h].nSize <= vinfoBlockFile'[h].nSize
            /\ vinfoBlockFile[h].nHeightLast <= vinfoBlockFile'[h].nHeightLast
        BY <1>11, <4>1, Zenon
      <4>6. /\ index'[c].nFile = h /\ index'[c].data = index[c].data
            /\ index'[c].undo = index[c].undo
            /\ HaveData(index'[c]) = HaveData(index[c]) /\ HaveUndo(index'[c]) = HaveUndo(index[c])
        BY <1>9, <3>2, Zenon
      <4> HIDE DEF h
      <4> QED
        BY <1>1, <4>1, <4>2, <4>3, <4>4, <4>5, <4>6
    <3> QED
      BY <3>1, <3>2, Zenon
  <2>2. Counted(index, vinfoBlockFile)'
    <3> SUFFICES ASSUME NEW h \in Files
                 PROVE  /\ IsFiniteSet(DataIn(index', h))
                        /\ vinfoBlockFile'[h].nUndoSize <= Cardinality(UndoIn(index', h))
                        /\ Cardinality(DataIn(index', h)) <= vinfoBlockFile'[h].nSize
      BY Zenon DEF Counted, DataIn, UndoIn
    <3>1. /\ IsFiniteSet(DataIn(index, h))
          /\ vinfoBlockFile[h].nUndoSize <= Cardinality(UndoIn(index, h))
          /\ Cardinality(DataIn(index, h)) <= vinfoBlockFile[h].nSize
      BY Zenon DEF FInv, InMemory, Counted
    <3>2. UndoIn(index', h) = UndoIn(index, h)
      BY <1>8, <1>9, Zenon DEF UndoIn
    <3>3. CASE h = f
      <4>1. DataIn(index', h) \subseteq DataIn(index, h) \cup {b}
        BY <1>8, <1>9, <3>3, Zenon DEF DataIn
      <4>2. /\ IsFiniteSet(DataIn(index, h) \cup {b})
            /\ Cardinality(DataIn(index, h)) \in Nat
            /\ Cardinality(DataIn(index, h) \cup {b}) <= Cardinality(DataIn(index, h)) + 1
        BY <3>1, OneMore, Zenon
      <4>3. /\ IsFiniteSet(DataIn(index', h)) /\ Cardinality(DataIn(index', h)) \in Nat
            /\ Cardinality(DataIn(index, h) \cup {b}) \in Nat
            /\ Cardinality(DataIn(index', h)) <= Cardinality(DataIn(index, h) \cup {b})
        BY <4>1, <4>2, Fewer, Zenon
      <4>4. vinfoBlockFile[h].nSize = slot
        BY <3>3, Zenon DEF slot
      <4> QED
        BY <1>1, <1>11, <3>1, <3>2, <3>3, <4>2, <4>3, <4>4
    <3>4. CASE h # f
      <4>1. DataIn(index', h) \subseteq DataIn(index, h)
        BY <1>8, <1>9, <3>4, Zenon DEF DataIn
      <4>2. /\ IsFiniteSet(DataIn(index', h)) /\ Cardinality(DataIn(index', h)) \in Nat
            /\ Cardinality(DataIn(index, h)) \in Nat
            /\ Cardinality(DataIn(index', h)) <= Cardinality(DataIn(index, h))
        BY <3>1, <4>1, Fewer, Zenon
      <4>3. vinfoBlockFile'[h] = vinfoBlockFile[h] /\ vinfoBlockFile[h].nSize \in Nat
        BY <1>5, <1>11, <3>4, InfoFacts, Zenon
      <4> QED
        BY <3>1, <3>2, <4>2, <4>3
    <3> QED
      BY <3>3, <3>4, Zenon
  <2>3. Stored(index, blk)'
    <3> SUFFICES ASSUME NEW c \in Blocks, HaveData(index'[c])
                 PROVE  blk'[index'[c].nFile][index'[c].data] = c
      BY Zenon DEF Stored
    <3>1. CASE c = b
      BY <1>6, <1>8, <3>1, Zenon
    <3>2. CASE c # b
      BY <1>9, <1>16, <3>2, Zenon
    <3> QED
      BY <3>1, <3>2, Zenon
  <2>4. Committed'
    BY <1>2, <1>8, <1>9, <1>16, Zenon DEF Committed
  <2> QED
    BY <2>1, <2>2, <2>3, <2>4, Zenon DEF InMemory
<1>18. UndoKept'
  <2> SUFFICES ASSUME ~powerLost PROVE UndoStored(index)' /\ UndoStored(blocktree.index)'
    BY Zenon DEF UndoKept
  <2>0. UndoStored(index) /\ UndoStored(blocktree.index)
    BY Zenon DEF FInv, UndoKept
  <2>1. ASSUME NEW c \in Blocks, HaveUndo(index[c])
        PROVE  rev'[index[c].nFile][index[c].undo] = c
    <3>1. /\ index[c].undo < vinfoBlockFile[index[c].nFile].nUndoSize
          /\ rev[index[c].nFile][index[c].undo] = c
      BY <2>0, <2>1, Zenon DEF FInv, InMemory, Placed, UndoStored
    <3> QED
      BY <1>5, <1>6, <2>1, <3>1, EntryFacts, Zenon
  <2>2. ASSUME NEW c \in Blocks, HaveUndo(blocktree.index[c])
        PROVE  rev'[blocktree.index[c].nFile][blocktree.index[c].undo] = c
    <3> DEFINE h == blocktree.index[c].nFile
               s == blocktree.index[c].undo
    <3>1. h \in Files /\ s \in Slots /\ s \in Nat
      BY <1>5, <2>2, EntryFacts, Zenon
    <3>2. s < blocktree.info[h].nUndoSize /\ rev[h][s] = c
      BY <2>0, <2>2, Zenon DEF FInv, OnDisk, Placed, UndoStored
    <3>3. h = old => Grown(h)
      BY <1>13, <3>1, Zenon DEF FInv, Sizes
    <3>4. h = old => s < vinfoBlockFile[h].nUndoSize
      BY <1>5, <3>1, <3>2, <3>3, InfoFacts DEF Grown
    <3> HIDE DEF h, s
    <3>5. rev'[h][s] = c
      BY <1>6, <3>1, <3>2, <3>4, Zenon
    <3> QED
      BY <3>5, Zenon DEF h, s
  <2> QED
    BY <1>8, <1>9, <2>1, <2>2 DEF UndoStored
<1>19. Sizes'
  <2>1. blocktree.last <= f
    BY <1>1, SizesAssumption DEF FInv, Sizes, old, IInv, Shape, Files
  <2>2. \A h \in Files \ (setDirtyFileInfo \cup {f}) : vinfoBlockFile'[h] = blocktree.info[h]
    BY <1>11, Zenon DEF FInv, Sizes
  <2>3. ASSUME NEW h \in Files PROVE (Grown(h) \/ Gone(h))'
    <3>1. CASE Grown(h)
      <4>1. /\ vinfoBlockFile[h].nSize \in Nat /\ vinfoBlockFile'[h].nSize \in Nat
            /\ blocktree.info[h].nSize \in Nat
            /\ vinfoBlockFile[h].nSize <= vinfoBlockFile'[h].nSize
            /\ vinfoBlockFile'[h].nUndoSize = vinfoBlockFile[h].nUndoSize
        BY <1>5, <1>11, InfoFacts, Zenon
      <4> QED
        BY <3>1, <4>1 DEF Grown
    <3>2. CASE Gone(h)
      <4>1. h < old /\ DataIn(index, h) = {} /\ h \in Nat
        BY <3>2, SizesAssumption DEF Gone, old, Files
      <4>2. h < f /\ DataIn(index', h) = {}
        BY <1>1, <1>8, <1>9, <4>1 DEF DataIn
      <4> QED
        BY <1>2, <4>2, Zenon DEF Gone, DataIn
    <3> QED
      BY <3>1, <3>2, Zenon DEF FInv, Sizes
  <2> QED
    BY <1>2, <2>1, <2>2, <2>3, Zenon DEF Sizes
<1> QED
  BY <1>12, <1>15, <1>17, <1>18, <1>19, Zenon DEF FInv, Emptied

\* Steps that leave the files, the index and its sizes alone.
SameFiles ==
    /\ UNCHANGED <<index, vinfoBlockFile, nLastBlockFile, setDirtyFileInfo, powerLost>>
    /\ UNCHANGED <<blk, rev, blkSynced, revSynced>>
    /\ blocktree'.index = blocktree.index /\ blocktree'.info = blocktree.info
    /\ blocktree'.last = blocktree.last

\* They keep the invariant, unless they begin to write.
LEMMA QuietFiles ==
    ASSUME FInv, Running, SameFiles, pc' \notin {"commit", "index", "unlink"}
    PROVE  FInv'
<1>1. Typed'
  BY Zenon DEF FInv, Typed, SameFiles
<1>2. OnDisk'
  BY Zenon DEF FInv, OnDisk, Placed, Counted, Stored, SameFiles
<1>3. InMemory'
  BY Zenon DEF FInv, InMemory, Placed, Counted, Stored, Committed, SameFiles, DataIn, UndoIn
<1>4. UndoKept'
  BY Zenon DEF FInv, UndoKept, UndoStored, SameFiles
<1>5. Sizes'
  BY Zenon DEF FInv, Sizes, Grown, Gone, SameFiles, DataIn
<1> QED
  BY <1>1, <1>2, <1>3, <1>4, <1>5, Zenon DEF FInv, Emptied

\* Files without blocks, and an index without any.
LEMMA Fresh ==
    /\ Unknown \in Entry /\ NullInfo \in FileInfo /\ Empty \in Contents
    /\ ~HaveData(Unknown) /\ ~HaveUndo(Unknown)
<1>1. 0 \in Files /\ 0 \in 0 .. MAX_BLOCKFILE_SIZE - 1 /\ 0 \in 0 .. UINT_MAX
  BY SizesAssumption DEF Files
<1> QED
  BY <1>1, Zenon DEF Unknown, Entry, NullInfo, FileInfo, Empty, Contents, HaveData, HaveUndo

\* The files are in order at first.
LEMMA FirstFiles == ASSUME CountingFacts, Init PROVE FInv
<1>1. /\ index = [b \in Blocks |-> Unknown] /\ blocktree.index = [b \in Blocks |-> Unknown]
      /\ vinfoBlockFile = [f \in Files |-> NullInfo]
      /\ blocktree.info = [f \in Files |-> NullInfo]
      /\ pc = "down"
  BY Zenon DEF Init
<1>2. Typed
  BY <1>1, Fresh, Zenon DEF Typed, Init
<1>3. \A b \in Blocks : ~HaveData(index[b]) /\ ~HaveUndo(index[b])
                        /\ ~HaveData(blocktree.index[b]) /\ ~HaveUndo(blocktree.index[b])
  BY <1>1, Fresh, Zenon
<1>4. \A f \in Files : DataIn(blocktree.index, f) = {} /\ UndoIn(blocktree.index, f) = {}
  BY <1>3, Zenon DEF DataIn, UndoIn
<1>5. Counted(blocktree.index, blocktree.info)
  <2> SUFFICES ASSUME NEW f \in Files
               PROVE  /\ IsFiniteSet({}) /\ 0 <= Cardinality({})
                      /\ Cardinality({}) <= 0 /\ blocktree.info[f] = NullInfo
    BY <1>4 DEF Counted, NullInfo
  <2> QED
    BY <1>1 DEF CountingFacts
<1>6. OnDisk
  BY <1>3, <1>5, Zenon DEF OnDisk, Placed, Stored
<1> QED
  BY <1>1, <1>2, <1>3, <1>6, Zenon
     DEF FInv, InMemory, UndoKept, UndoStored, Sizes, Emptied, Running

\* The process ends: the database and the files it points at remain.
LEMMA LostFiles ==
    ASSUME FInv, MemoryLost,
           blocktree'.index = blocktree.index, blocktree'.info = blocktree.info,
           blocktree'.last = blocktree.last,
           blk' \in Contents, rev' \in Contents, blkSynced' \in Contents, revSynced' \in Contents,
           Stored(blocktree.index, blk'), Stored(blocktree.index, blkSynced'),
           powerLost' \/ UNCHANGED <<rev, powerLost>>
    PROVE  FInv'
<1>1. /\ index' = [b \in Blocks |-> Unknown]
      /\ vinfoBlockFile' = [f \in Files |-> NullInfo]
      /\ setDirtyFileInfo' = {} /\ pc' = "down"
  BY Zenon DEF MemoryLost
<1>2. Typed'
  BY <1>1, Fresh, Zenon DEF FInv, Typed
<1>3. \A b \in Blocks : ~HaveUndo(index'[b])
  BY <1>1, Fresh, Zenon
<1>4. OnDisk'
  BY Zenon DEF FInv, OnDisk, Placed, Counted, Stored
<1>5. UndoKept'
  <2>1. CASE powerLost'
    BY <2>1, Zenon DEF UndoKept
  <2>2. CASE UNCHANGED <<rev, powerLost>>
    <3>1. UndoStored(blocktree.index) => UndoStored(blocktree.index)' /\ UndoStored(index)'
      BY <1>3, <2>2, Zenon DEF UndoStored
    <3> QED
      BY <2>2, <3>1, Zenon DEF FInv, UndoKept
  <2> QED
    BY <2>1, <2>2, Zenon
<1> QED
  BY <1>1, <1>2, <1>4, <1>5, Zenon DEF FInv, InMemory, Sizes, Emptied, Running

\* Kill and Exit lose nothing; a power failure loses what was not committed.
LEMMA StopsFiles == ASSUME FInv, Kill \/ Exit \/ PowerFailure PROVE FInv'
<1>1. CASE Kill \/ Exit
  <2>1. MemoryLost /\ UNCHANGED <<blk, rev, blkSynced, revSynced, blocktree, powerLost>>
    BY <1>1, Zenon DEF Kill, Exit, files, databases, history
  <2> QED
    BY <2>1, LostFiles, Zenon DEF FInv, Typed, OnDisk, UndoKept
<1>2. CASE PowerFailure
  <2>1. PICK lost \in SUBSET Unsynced(blk, blkSynced) : blk' = Without(blk, blkSynced, lost)
    BY <1>2, Zenon DEF PowerFailure
  <2>2. PICK gone \in SUBSET Unsynced(rev, revSynced) : rev' = Without(rev, revSynced, gone)
    BY <1>2, Zenon DEF PowerFailure
  <2>3. /\ blk' \in Contents /\ rev' \in Contents
        /\ \A f \in Files, s \in Slots : blk'[f][s] \in {blk[f][s], blkSynced[f][s]}
    BY <2>1, <2>2 DEF FInv, Typed, Contents, Without
  <2>4. \A b \in Blocks : HaveData(blocktree.index[b]) =>
            blocktree.index[b].nFile \in Files /\ blocktree.index[b].data \in Slots
    BY EntryFacts, Zenon DEF FInv, Typed
  <2>5. Stored(blocktree.index, blk')
    BY <2>3, <2>4, Zenon DEF FInv, OnDisk, Stored
  <2>6. MemoryLost /\ powerLost' = TRUE /\ blkSynced' = blk' /\ revSynced' = rev'
    BY <1>2, Zenon DEF PowerFailure
  <2>7. /\ blocktree'.index = blocktree.index /\ blocktree'.info = blocktree.info
        /\ blocktree'.last = blocktree.last
    <3>1. \E flag : blocktree' = [blocktree EXCEPT !.prunedblockfiles = flag]
      BY <1>2, Zenon DEF PowerFailure
    <3> QED
      BY <3>1
  <2>8. Stored(blocktree.index, blkSynced') /\ blkSynced' \in Contents /\ revSynced' \in Contents
    BY <2>3, <2>5, <2>6, Zenon
  <2> QED
    BY <2>3, <2>5, <2>6, <2>7, <2>8, LostFiles, Zenon
<1> QED
  BY <1>1, <1>2, Zenon

\* A restart takes the index and the sizes from the database.
LEMMA LoadFiles == ASSUME IInv, FInv, LoadBlockIndexDB PROVE FInv'
<1>1. /\ index' = blocktree.index /\ vinfoBlockFile' = blocktree.info
      /\ nLastBlockFile' = blocktree.last
      /\ pc' \notin {"commit", "index", "unlink"}
      /\ UNCHANGED <<setDirtyFileInfo, blocktree, blk, rev, blkSynced, revSynced, powerLost>>
  BY Zenon DEF LoadBlockIndexDB, files, history
<1>2. Typed'
  BY <1>1, Zenon DEF FInv, Typed
<1>3. OnDisk'
  BY <1>1, Zenon DEF FInv, OnDisk, Placed, Counted, Stored
<1>4. InMemory'
  <2>1. Placed(index, vinfoBlockFile, nLastBlockFile)'
    BY <1>1, Zenon DEF FInv, OnDisk, Placed
  <2>2. Counted(index, vinfoBlockFile)'
    BY <1>1, Zenon DEF FInv, OnDisk, Counted, DataIn, UndoIn
  <2>3. Stored(index, blk)' /\ Committed'
    BY <1>1, Zenon DEF FInv, OnDisk, Stored, Committed
  <2> QED
    BY <2>1, <2>2, <2>3, Zenon DEF InMemory
<1>5. UndoKept'
  BY <1>1, Zenon DEF FInv, UndoKept, UndoStored
<1>6. Sizes'
  <2>1. \A f \in Files : Grown(f)'
    BY <1>1, InfoFacts DEF Grown, FInv, Typed
  <2>2. blocktree.last \in Nat
    BY SizesAssumption DEF IInv, Shape, Files
  <2> QED
    BY <1>1, <2>1, <2>2 DEF Sizes
<1> QED
  BY <1>1, <1>2, <1>3, <1>4, <1>5, <1>6, Zenon DEF FInv, Emptied

\* FlushBlockFile commits the last file.
LEMMA CommitFiles == ASSUME IInv, FInv, FlushBlockFile PROVE FInv'
<1>1. /\ pc = "commit" /\ pc' = "index"
      /\ UNCHANGED <<blk, rev, index, vinfoBlockFile, nLastBlockFile, setDirtyFileInfo, flush,
                     blocktree, powerLost>>
      /\ blkSynced' = [blkSynced EXCEPT ![nLastBlockFile] = blk[nLastBlockFile]]
      /\ revSynced' = [revSynced EXCEPT ![nLastBlockFile] = rev[nLastBlockFile]]
  BY Zenon DEF FlushBlockFile, FileCommit, memory, databases, history
<1>2. /\ Running /\ Running' /\ nLastBlockFile \in Files
      /\ blkSynced \in Contents /\ blk \in Contents /\ revSynced \in Contents /\ rev \in Contents
  BY <1>1, Zenon DEF Running, IInv, Shape, FInv, Typed
<1>3. blkSynced' \in Contents /\ revSynced' \in Contents
  BY <1>1, <1>2, Zenon DEF Contents
<1>4. \A f \in Files : blkSynced'[f] = IF f = nLastBlockFile THEN blk[f] ELSE blkSynced[f]
  BY <1>1, <1>2, Zenon DEF Contents
<1>5. Typed'
  BY <1>1, <1>3, Zenon DEF FInv, Typed
<1>6. OnDisk'
  <2>1. Stored(blocktree.index, blkSynced')
    BY <1>4, EntryFacts, Zenon DEF FInv, Typed, OnDisk, Stored
  <2> QED
    BY <1>1, <2>1, Zenon DEF FInv, OnDisk, Placed, Counted, Stored
<1>7. InMemory'
  <2>1. \A b \in Blocks : HaveData(index[b]) => blkSynced'[index[b].nFile][index[b].data] = b
    BY <1>2, <1>4, EntryFacts, Zenon DEF FInv, Typed, InMemory, Committed, Stored
  <2>2. Committed'
    BY <1>1, <2>1, Zenon DEF Committed
  <2> QED
    BY <1>1, <1>2, <2>2, Zenon DEF FInv, InMemory, Placed, Counted, Stored, DataIn, UndoIn
<1>8. UndoKept'
  BY <1>1, Zenon DEF FInv, UndoKept, UndoStored
<1>9. Sizes'
  BY <1>1, <1>2, Zenon DEF FInv, Sizes, Grown, Gone, DataIn
<1>10. Emptied'
  BY <1>1, Zenon DEF FInv, Emptied, DataIn
<1> QED
  BY <1>5, <1>6, <1>7, <1>8, <1>9, <1>10, Zenon DEF FInv

\* WriteBatchSync makes the database what the memory is, which is committed.
LEMMA WriteIndexFiles == ASSUME IInv, FInv, WriteBatchSync PROVE FInv'
<1>1. /\ pc = "index" /\ pc' \in {"unlink", "coins", "done"} /\ setDirtyFileInfo' = {}
      /\ UNCHANGED <<index, vinfoBlockFile, nLastBlockFile, flush, blk, rev, blkSynced, revSynced,
                     powerLost>>
  BY Zenon DEF WriteBatchSync, files, history
<1>2. Running /\ Running'
  BY <1>1, Zenon DEF Running
<1>3. /\ blocktree'.index = index /\ blocktree'.info = vinfoBlockFile
      /\ blocktree'.last = nLastBlockFile
  <2>1. [b \in Blocks |-> IF b \in setDirtyBlockIndex THEN index[b] ELSE blocktree.index[b]] = index
    BY <1>2, Zenon DEF IInv, Shape, CleanSame
  <2>2. [f \in Files |-> IF f \in setDirtyFileInfo THEN vinfoBlockFile[f] ELSE blocktree.info[f]]
          = vinfoBlockFile
    BY <1>2, Zenon DEF FInv, Typed, Sizes
  <2>3. blocktree' = [blocktree EXCEPT !.index = index, !.info = vinfoBlockFile,
                                       !.last = nLastBlockFile]
    BY <2>1, <2>2, Zenon DEF WriteBatchSync
  <2> QED
    BY <2>3, Zenon DEF IInv, Shape
<1>4. Typed'
  BY <1>1, <1>3, Zenon DEF FInv, Typed
<1>5. OnDisk'
  <2>1. Stored(index, blkSynced)
    BY <1>1, <1>2, Zenon DEF FInv, InMemory, Committed, Stored
  <2>2. Placed(blocktree.index, blocktree.info, blocktree.last)'
    BY <1>2, <1>3, Zenon DEF FInv, InMemory, Placed
  <2>3. Counted(blocktree.index, blocktree.info)'
    BY <1>2, <1>3, Zenon DEF FInv, InMemory, Counted, DataIn, UndoIn
  <2>4. Stored(blocktree.index, blk)' /\ Stored(blocktree.index, blkSynced)'
    BY <1>1, <1>2, <1>3, <2>1, Zenon DEF FInv, InMemory, Stored
  <2> QED
    BY <2>2, <2>3, <2>4, Zenon DEF OnDisk
<1>6. InMemory'
  BY <1>1, <1>2, Zenon DEF FInv, InMemory, Placed, Counted, Stored, Committed, DataIn, UndoIn
<1>7. UndoKept'
  BY <1>1, <1>3, Zenon DEF FInv, UndoKept, UndoStored
<1>8. Sizes'
  <2>1. \A f \in Files : Grown(f)'
    BY <1>1, <1>3, InfoFacts DEF Grown, FInv, Typed
  <2>2. nLastBlockFile \in Nat
    BY SizesAssumption DEF IInv, Shape, Files
  <2> QED
    BY <1>1, <1>3, <2>1, <2>2 DEF Sizes
<1>9. Emptied'
  BY <1>1, Zenon DEF FInv, Emptied, DataIn
<1> QED
  BY <1>4, <1>5, <1>6, <1>7, <1>8, <1>9, Zenon DEF FInv

\* UnlinkPrunedFiles removes files that neither memory nor database points at.
LEMMA UnlinkFiles == ASSUME IInv, FInv, UnlinkPrunedFiles PROVE FInv'
<1>1. /\ pc = "unlink" /\ pc' = "coins"
      /\ UNCHANGED <<index, vinfoBlockFile, nLastBlockFile, setDirtyFileInfo, blocktree, powerLost>>
  BY Zenon DEF UnlinkPrunedFiles, memory, databases, history
<1>2. Running /\ Running' /\ blocktree.index = index
  <2>1. Running /\ Running' /\ setDirtyBlockIndex = {}
    BY <1>1, Zenon DEF Running, IInv, Written
  <2> QED
    BY <2>1 DEF IInv, Shape, CleanSame
<1>3. /\ blk' \in Contents /\ rev' \in Contents /\ blkSynced' \in Contents /\ revSynced' \in Contents
      /\ \A f \in Files : f \notin flush.prune =>
            blk'[f] = blk[f] /\ rev'[f] = rev[f] /\ blkSynced'[f] = blkSynced[f]
  BY Fresh, Zenon DEF UnlinkPrunedFiles, FInv, Typed, Contents
<1>4. \A b \in Blocks : /\ index[b].nFile \in Files
                        /\ HaveData(index[b]) => index[b].nFile \notin flush.prune
                        /\ HaveUndo(index[b]) => HaveData(index[b])
  BY <1>1, <1>2, EntryFacts, Zenon DEF FInv, Typed, Emptied, DataIn, InMemory, Placed
<1>5. Typed'
  BY <1>1, <1>3, Zenon DEF FInv, Typed
<1>6. OnDisk'
  BY <1>1, <1>2, <1>3, <1>4, Zenon DEF FInv, OnDisk, Placed, Counted, Stored
<1>7. InMemory'
  <2>1. Placed(index, vinfoBlockFile, nLastBlockFile)' /\ Counted(index, vinfoBlockFile)'
    BY <1>1, <1>2, Zenon DEF FInv, InMemory, Placed, Counted, DataIn, UndoIn
  <2>2. Stored(index, blk)'
    BY <1>1, <1>2, <1>3, <1>4 DEF FInv, InMemory, Stored
  <2>3. Committed'
    BY <1>1, <1>2, <1>3, <1>4, Zenon DEF FInv, InMemory, Committed
  <2> QED
    BY <2>1, <2>2, <2>3, Zenon DEF InMemory
<1>8. UndoKept'
  BY <1>1, <1>2, <1>3, <1>4, Zenon DEF FInv, UndoKept, UndoStored
<1>9. Sizes'
  BY <1>1, <1>2 DEF FInv, Sizes, Grown, Gone, DataIn
<1> QED
  BY <1>1, <1>5, <1>6, <1>7, <1>8, <1>9, Zenon DEF FInv, Emptied

-----------------------------------------------------------------------------
(***************************************************************************)
(* Steps that leave the index and the databases alone.                     *)
(***************************************************************************)
Same == UNCHANGED <<index, vinfoBlockFile, nLastBlockFile, setDirtyBlockIndex, fHavePruned,
                    databases>>

\* A step that leaves index and databases alone keeps the invariant.
LEMMA QuietKeeps ==
    ASSUME IInv, Running, Same,
           tip' \in Blocks \cup {NULL}, coins' \in Blocks \cup {NULL},
           flush'.next \in Blocks \cup {NULL}, flush'.then \in Callers,
           Complete(index, tip'), Complete(index, coins'), Complete(index, flush'.next),
           pc' \in {"unlink", "coins"} => pc \in {"unlink", "coins"}
    PROVE  IInv'
<1>1. Shape'
  BY Zenon DEF IInv, Shape, Same, databases
<1>2. CleanSame' /\ Remembered'
  BY Zenon DEF IInv, CleanSame, Remembered, Same, databases
<1>3. Written'
  BY Zenon DEF IInv, Written, Same
<1>4. MemoryComplete'
  BY Zenon DEF MemoryComplete, Complete, Same
<1>5. DiskComplete'
  BY Zenon DEF IInv, DiskComplete, Complete, Same, databases
<1>6. FlagSet'
  BY Zenon DEF IInv, FlagSet, Pruned, Same, databases
<1> QED
  BY <1>1, <1>2, <1>3, <1>4, <1>5, <1>6, Zenon DEF IInv

\* A chain is a set of blocks.
LEMMA ChainType == \A b \in Blocks \cup {NULL} : Chain(b) \subseteq Blocks
BY TreeAssumption, Zenon DEF Chain

\* The invariant holds initially.
LEMMA Initially == Init => IInv
<1> SUFFICES ASSUME Init PROVE IInv
  BY Zenon
<1>1. 0 \in Files /\ Unknown \in Entries /\ NullInfo \in Infos
  BY SizesAssumption DEF Files, Unknown, Entries, NullInfo, Infos, HaveData, NoSlot
<1>2. flush.next = NULL /\ Complete(index, NULL) /\ Complete(blocktree.index, NULL)
  BY Zenon DEF Init, NoFlush, Call, Complete, Chain
<1>3. Shape
  BY <1>1, <1>2, Zenon DEF Init, Shape, Callers, NoFlush, Call
<1>4. ~Running
  BY Zenon DEF Init, Running
<1>5. ~Pruned(blocktree.index)
  BY Zenon DEF Pruned, Init, Unknown
<1> QED
  BY <1>2, <1>3, <1>4, <1>5, Zenon
     DEF Init, IInv, CleanSame, Written, Remembered, MemoryComplete, DiskComplete, FlagSet

-----------------------------------------------------------------------------
(***************************************************************************)
(* Steps that end the process: MemoryLost, with databases that satisfy     *)
(* what the invariant says of them.                                        *)
(***************************************************************************)
LEMMA LostKeeps ==
    ASSUME IInv, MemoryLost,
           blocktree'.index = blocktree.index,
           blocktree' \in [index : [Blocks -> Entries], info : [Files -> Infos],
                           last : Files, prunedblockfiles : BOOLEAN],
           chainstate' \in chainstateMaybe', chainstateMaybe' \subseteq chainstateMaybe,
           flagSynced' \in BOOLEAN,
           flagSynced' => blocktree'.prunedblockfiles,
           Pruned(blocktree.index) => flagSynced'
    PROVE  IInv'
<1>1. 0 \in Files /\ Unknown \in Entries /\ NullInfo \in Infos
  BY SizesAssumption DEF Files, Unknown, Entries, NullInfo, Infos, HaveData, NoSlot
<1>2. ~Running'
  BY Zenon DEF MemoryLost, Running
<1>3. Shape'
  BY <1>1, Zenon DEF IInv, Shape, Callers, MemoryLost, NoFlush, Call
<1>4. DiskComplete'
  BY Zenon DEF IInv, DiskComplete, Complete
<1>5. FlagSet'
  BY <1>2, Zenon DEF FlagSet, Pruned
<1> QED
  BY <1>2, <1>3, <1>4, <1>5, Zenon
     DEF IInv, CleanSame, Written, Remembered, MemoryComplete, MemoryLost

(***************************************************************************)
(* StoreBlock adds a block to the index of a running node.                 *)
(***************************************************************************)
LEMMA StoreKeeps ==
    ASSUME IInv, Running, NEW b \in Blocks, StoreBlock(b),
           UNCHANGED <<fHavePruned, tip, coins, databases>>,
           flush'.next \in {flush.next, tip}, flush'.then \in Callers,
           pc' \in {"idle", "flush"}
    PROVE  IInv'
<1>1. /\ FindBlockPos \in Files /\ FindBlockPos \in Nat
      /\ vinfoBlockFile[FindBlockPos] \in Infos
  BY SizesAssumption DEF StoreBlock, IInv, Shape, Files
<1>2. vinfoBlockFile' \in [Files -> Infos] /\ nLastBlockFile' \in Files
  <2>1. AddBlock(vinfoBlockFile[FindBlockPos], nHeight[b]) \in Infos
    <3> DEFINE info == vinfoBlockFile[FindBlockPos]
               height == nHeight[b]
    <3>1. height \in Nat /\ info \in Infos
      BY <1>1, TreeAssumption, Zenon
    <3> HIDE DEF info, height
    <3>2. info.nSize + 1 \in Nat /\ Maximum(info.nHeightLast, height) \in Nat
      BY <3>1 DEF Infos, Maximum
    <3>3. AddBlock(info, height) \in Infos
      BY <3>1, <3>2, Zenon DEF AddBlock, Infos
    <3> QED
      BY <3>3, Zenon DEF info, height
  <2> QED
    BY <1>1, <2>1, Zenon DEF StoreBlock, IInv, Shape
<1>3. index' \in [Blocks -> Entries]
  <2> SUFFICES ASSUME NEW c \in Blocks PROVE index'[c] \in Entries
    BY Zenon DEF StoreBlock
  <2>1. CASE c = b
    BY <1>1, <2>1, Zenon DEF StoreBlock, Entries, Infos, HaveData, NoSlot
  <2>2. CASE c # b
    <3>1. index'[c] = [index[c] EXCEPT !.known = @ \/ c \in Up[b]] /\ index[c] \in Entries
      BY <2>2, Zenon DEF StoreBlock, IInv, Shape
    <3> QED
      BY <3>1, Zenon DEF Entries, HaveData
  <2> QED
    BY <2>1, <2>2, Zenon
<1>4. \A c \in Blocks : /\ index[c].received => index'[c].received
                        /\ c \notin setDirtyBlockIndex' => index'[c] = index[c]
                        /\ index'[c].received /\ ~HaveData(index'[c])
                              => index[c].received /\ ~HaveData(index[c])
  <2> SUFFICES ASSUME NEW c \in Blocks
               PROVE  /\ index[c].received => index'[c].received
                      /\ c \notin setDirtyBlockIndex' => index'[c] = index[c]
                      /\ index'[c].received /\ ~HaveData(index'[c])
                            => index[c].received /\ ~HaveData(index[c])
    BY Zenon
  <2>1. CASE c = b
    BY <1>1, <2>1 DEF StoreBlock, Infos, HaveData, NoSlot
  <2>2. CASE c # b
    <3>1. index'[c] = [index[c] EXCEPT !.known = @ \/ c \in Up[b]]
      BY <2>2, Zenon DEF StoreBlock
    <3>2. index[c] \in [known : BOOLEAN, nFile : Files, data : Nat \cup {NoSlot},
                        undo : Nat \cup {NoSlot}, received : BOOLEAN]
      BY Zenon DEF IInv, Shape, Entries
    <3>3. /\ index'[c].received = index[c].received
          /\ HaveData(index'[c]) <=> HaveData(index[c])
      BY <3>1, <3>2, Zenon DEF HaveData
    <3>4. c \notin setDirtyBlockIndex' => index[c].known \/ c \notin Up[b]
      BY <2>2, Zenon DEF StoreBlock
    <3>5. c \notin setDirtyBlockIndex' => (index[c].known \/ c \in Up[b]) = index[c].known
      BY <3>2, <3>4, Zenon
    <3> QED
      BY <3>1, <3>2, <3>3, <3>5
  <2> QED
    BY <2>1, <2>2, Zenon
<1>5. setDirtyBlockIndex' \subseteq Blocks /\ setDirtyBlockIndex \subseteq setDirtyBlockIndex'
  BY TreeAssumption, Zenon DEF StoreBlock, IInv, Shape
<1>6. Shape'
  BY <1>2, <1>3, <1>5, Zenon DEF IInv, Shape, databases
<1>7. CleanSame' /\ Remembered' /\ Written'
  BY <1>4, <1>5, Zenon DEF IInv, CleanSame, Remembered, Written, databases
<1>8. MemoryComplete'
  BY <1>4, ChainType, Zenon DEF IInv, Shape, MemoryComplete, Complete
<1>9. DiskComplete'
  BY Zenon DEF IInv, DiskComplete, Complete, databases
<1>10. FlagSet'
  BY <1>4, Zenon DEF IInv, FlagSet, Pruned, databases
<1> QED
  BY <1>6, <1>7, <1>8, <1>9, <1>10, Zenon DEF IInv

\* ConnectTip keeps the invariant.
LEMMA Connects == ASSUME IInv, NEW b \in Blocks, ConnectTip(b) PROVE IInv'
<1> DEFINE f == index[b].nFile
<1>1. Running /\ pc' = "flush" /\ flush'.next = b /\ flush'.then = "idle" /\ coins' = b /\ UNCHANGED <<tip, databases>>
  BY DEF ConnectTip, Running, Call
<1>2. /\ HaveData(index[b]) /\ index[b] \in Entries /\ f \in Files
      /\ vinfoBlockFile[f] \in Infos
  BY Zenon DEF ConnectTip, ReadBlockFromDisk, IInv, Shape, Entries
<1>3. Complete(index, b)
  BY <1>1, <1>2, TreeAssumption, Zenon
     DEF ConnectTip, Complete, Chain, IInv, MemoryComplete, Entries
<1>4. CASE ~WriteUndo(b, f)
  <2>1. Same
    BY <1>1, <1>4, Zenon DEF ConnectTip, memory, Same
  <2> QED
    BY <1>1, <1>3, <2>1, QuietKeeps, Zenon DEF IInv, Shape, Callers, MemoryComplete
<1>5. CASE WriteUndo(b, f)
  <2>1. vinfoBlockFile' \in [Files -> Infos]
    <3>1. [vinfoBlockFile[f] EXCEPT !.nUndoSize = @ + 1] \in Infos
      BY <1>2 DEF Infos
    <3>2. vinfoBlockFile' = [vinfoBlockFile EXCEPT
                                ![f] = [vinfoBlockFile[f] EXCEPT !.nUndoSize = @ + 1]]
      BY <1>2, <1>5, Zenon DEF WriteUndo, IInv, Shape
    <3> QED
      BY <1>2, <3>1, <3>2, Zenon DEF IInv, Shape
  <2>2. \A c \in Blocks : /\ c # b => index'[c] = index[c]
                          /\ index'[b] = [index[b] EXCEPT !.undo = vinfoBlockFile[f].nUndoSize]
    BY <1>5, Zenon DEF WriteUndo, IInv, Shape
  <2>3. /\ index'[b] \in Entries /\ index'[b].received = index[b].received
        /\ HaveData(index'[b])
    BY <1>2, <2>2 DEF Entries, HaveData, Infos
  <2>4. index' \in [Blocks -> Entries]
    BY <1>5, <2>2, <2>3, Zenon DEF WriteUndo, IInv, Shape
  <2>5. \A c \in Blocks : index'[c].received = index[c].received
    BY <2>2, <2>3, Zenon
  <2>6. setDirtyBlockIndex' = setDirtyBlockIndex \cup {b} /\ UNCHANGED <<nLastBlockFile, fHavePruned>>
    BY <1>5, Zenon DEF WriteUndo
  <2>7. Shape'
    BY <1>1, <2>1, <2>4, <2>6, Zenon DEF IInv, Shape, Callers, databases
  <2>8. CleanSame' /\ Remembered' /\ Written'
    BY <1>1, <2>2, <2>5, <2>6, Zenon DEF IInv, CleanSame, Remembered, Written, databases
  <2>9. MemoryComplete'
    BY <1>1, <1>3, <2>5, ChainType, Zenon DEF IInv, Shape, MemoryComplete, Complete
  <2>10. DiskComplete'
    BY <1>1, Zenon DEF IInv, DiskComplete, Complete, databases
  <2>11. FlagSet'
    BY <1>1, <2>2, <2>3, <2>5, <2>6, Zenon DEF IInv, FlagSet, Pruned, databases
  <2> QED
    BY <2>7, <2>8, <2>9, <2>10, <2>11, Zenon DEF IInv
<1> QED
  BY <1>4, <1>5, Zenon

\* The first part of FlushStateToDisk keeps the invariant.
LEMMA Decides == ASSUME IInv, FlushStateToDisk PROVE IInv'
<1> PICK prune \in FilesToPrune, full \in FullFlush(flush.mode), write \in PeriodicWrite(flush.mode) :
          /\ PruneBlockFiles(prune)
          /\ WriteFlag(prune)
          /\ flush' = [Call("NONE", FALSE, 0, flush.next, flush.then) EXCEPT
                 !.prune = prune, !.full = full \/ prune # {}]
          /\ pc' = FirstWrite(full, write, prune)
  BY Zenon DEF FlushStateToDisk
<1>1. /\ Running /\ Running' /\ pc' \notin {"unlink", "coins"}
      /\ flush'.next = flush.next /\ flush'.then = flush.then
      /\ UNCHANGED <<nLastBlockFile, tip, coins, flagSynced, chainstate, chainstateMaybe>>
  BY Zenon DEF FlushStateToDisk, Running, FirstWrite, Call
<1>2. \A b \in Blocks :
         /\ index'[b] \in Entries
         /\ index'[b].received = index[b].received
         /\ b \notin setDirtyBlockIndex' => index'[b] = index[b]
         /\ prune = {} => index'[b] = index[b]
  <2> SUFFICES ASSUME NEW b \in Blocks
               PROVE  /\ index'[b] \in Entries
                      /\ index'[b].received = index[b].received
                      /\ b \notin setDirtyBlockIndex' => index'[b] = index[b]
                      /\ prune = {} => index'[b] = index[b]
    BY Zenon
  <2>1. index[b] \in Entries /\ 0 \in Files
    BY SizesAssumption DEF IInv, Shape, Files
  <2>2. CASE ~(index[b].known /\ index[b].nFile \in prune)
    BY <2>1, <2>2, Zenon DEF PruneBlockFiles
  <2>3. CASE index[b].known /\ index[b].nFile \in prune
    <3>1. /\ index'[b] = [index[b] EXCEPT !.nFile = 0, !.data = NoSlot, !.undo = NoSlot]
          /\ b \in setDirtyBlockIndex' /\ prune # {}
      BY <2>3, Zenon DEF PruneBlockFiles
    <3> QED
      BY <2>1, <3>1, Zenon DEF Entries, HaveData
  <2> QED
    BY <2>2, <2>3, Zenon
<1>3. index' \in [Blocks -> Entries] /\ vinfoBlockFile' \in [Files -> Infos]
  <2>1. NullInfo \in Infos
    BY Zenon DEF NullInfo, Infos
  <2> QED
    BY <1>2, <2>1, Zenon DEF PruneBlockFiles, IInv, Shape
<1>4. setDirtyBlockIndex' \subseteq Blocks /\ setDirtyBlockIndex \subseteq setDirtyBlockIndex'
  BY Zenon DEF PruneBlockFiles, IInv, Shape
<1>5. /\ fHavePruned' \in BOOLEAN
      /\ blocktree' \in [index : [Blocks -> Entries], info : [Files -> Infos],
                         last : Files, prunedblockfiles : BOOLEAN]
      /\ blocktree'.index = blocktree.index
      /\ blocktree.prunedblockfiles => blocktree'.prunedblockfiles
  BY Zenon DEF WriteFlag, IInv, Shape
<1>6. prune # {} \/ fHavePruned' => blocktree'.prunedblockfiles
  BY <1>1, Zenon DEF WriteFlag, IInv, Shape, FlagSet
<1>7. Shape'
  BY <1>1, <1>3, <1>4, <1>5, Zenon DEF IInv, Shape
<1>8. CleanSame' /\ Remembered' /\ Written'
  BY <1>1, <1>2, <1>4, <1>5, Zenon DEF IInv, CleanSame, Remembered, Written
<1>9. MemoryComplete'
  BY <1>1, <1>2, ChainType, Zenon DEF IInv, Shape, MemoryComplete, Complete
<1>10. DiskComplete'
  BY <1>1, <1>5, Zenon DEF IInv, DiskComplete, Complete
<1>11. FlagSet'
  BY <1>1, <1>2, <1>5, <1>6, Zenon DEF IInv, FlagSet, Pruned
<1> QED
  BY <1>7, <1>8, <1>9, <1>10, <1>11, Zenon DEF IInv

\* Afterwards the database has the index of the memory.
LEMMA WritesIndex == ASSUME IInv, WriteBatchSync PROVE IInv'
<1>1. /\ Running /\ Running' /\ setDirtyBlockIndex' = {} /\ flagSynced' = blocktree.prunedblockfiles
      /\ UNCHANGED <<index, vinfoBlockFile, nLastBlockFile, fHavePruned, tip, coins, flush,
                     chainstate, chainstateMaybe>>
  BY Zenon DEF WriteBatchSync, Running
<1>2. \A b \in Blocks : blocktree'.index[b] = index[b]
  BY <1>1, Zenon DEF WriteBatchSync, IInv, CleanSame, Shape
<1>3. /\ blocktree' \in [index : [Blocks -> Entries], info : [Files -> Infos],
                         last : Files, prunedblockfiles : BOOLEAN]
      /\ blocktree'.prunedblockfiles = blocktree.prunedblockfiles
  <2>1. [b \in Blocks |-> IF b \in setDirtyBlockIndex THEN index[b] ELSE blocktree.index[b]]
          \in [Blocks -> Entries]
    BY Zenon DEF IInv, Shape
  <2>2. [f \in Files |-> IF f \in setDirtyFileInfo THEN vinfoBlockFile[f] ELSE blocktree.info[f]]
          \in [Files -> Infos]
    BY Zenon DEF IInv, Shape
  <2> QED
    BY <2>1, <2>2, Zenon DEF WriteBatchSync, IInv, Shape
<1>4. Shape'
  BY <1>1, <1>3, Zenon DEF IInv, Shape
<1>5. CleanSame' /\ Remembered' /\ Written'
  BY <1>1, <1>2, Zenon DEF CleanSame, Remembered, Written
<1>6. MemoryComplete'
  BY <1>1, Zenon DEF IInv, MemoryComplete, Complete
<1>7. DiskComplete'
  <2> SUFFICES ASSUME NEW c \in chainstateMaybe, NEW b \in Chain(c)
               PROVE  blocktree'.index[b].received
    BY <1>1, Zenon DEF DiskComplete, Complete
  <2>1. b \in Blocks /\ blocktree.index[b].received
    BY ChainType, Zenon DEF IInv, Shape, DiskComplete, Complete
  <2> QED
    BY <1>1, <1>2, <2>1, Zenon DEF IInv, Remembered
<1>8. FlagSet'
  BY <1>1, <1>2, <1>3, Zenon DEF IInv, Shape, FlagSet, Pruned
<1> QED
  BY <1>4, <1>5, <1>6, <1>7, <1>8, Zenon DEF IInv

\* The coins that are written belong to a chain the database has.
LEMMA WritesCoins == ASSUME IInv, FlushCoins PROVE IInv'
<1>1. /\ Running /\ Running' /\ setDirtyBlockIndex = {} /\ pc' = "done"
      /\ UNCHANGED <<memory, tip, coins, flush, blocktree, flagSynced>>
  BY Zenon DEF FlushCoins, Running, IInv, Written
<1>2. Complete(blocktree.index, coins)
  BY <1>1, ChainType, Zenon DEF IInv, Shape, CleanSame, MemoryComplete, Complete
<1>3. /\ chainstate' \in chainstateMaybe'
      /\ chainstateMaybe' \subseteq chainstateMaybe \cup {coins}
  BY Zenon DEF FlushCoins, IInv, Shape
<1>4. Shape'
  BY <1>1, <1>3, Zenon DEF IInv, Shape, memory
<1>5. CleanSame' /\ Remembered' /\ Written'
  BY <1>1, Zenon DEF IInv, CleanSame, Remembered, Written, memory
<1>6. MemoryComplete'
  BY <1>1, Zenon DEF IInv, MemoryComplete, Complete, memory
<1>7. DiskComplete'
  BY <1>1, <1>2, <1>3, Zenon DEF IInv, DiskComplete, Complete
<1>8. FlagSet'
  BY <1>1, Zenon DEF IInv, FlagSet, Pruned, memory
<1> QED
  BY <1>4, <1>5, <1>6, <1>7, <1>8, Zenon DEF IInv

\* A restart takes the index and the coins from the databases.
LEMMA Loads == ASSUME IInv, LoadBlockIndexDB PROVE IInv'
<1>1. /\ index' = blocktree.index /\ vinfoBlockFile' = blocktree.info
      /\ nLastBlockFile' = blocktree.last /\ fHavePruned' = blocktree.prunedblockfiles
      /\ coins' = chainstate /\ chainstateMaybe' = {chainstate}
      /\ tip' \in {NULL, chainstate} /\ flush'.next = tip' /\ flush'.then = "verify"
      /\ pc' \in {"corrupt", "init", "flush"}
      /\ UNCHANGED <<setDirtyBlockIndex, blocktree, flagSynced, chainstate>>
  BY Zenon DEF LoadBlockIndexDB, Call
<1>2. Complete(blocktree.index, chainstate) /\ Complete(blocktree.index, NULL)
  BY Zenon DEF IInv, Shape, DiskComplete, Complete, Chain
<1>3. Shape'
  BY <1>1 DEF IInv, Shape, Callers
<1>4. CleanSame' /\ Remembered' /\ Written'
  BY <1>1, Zenon DEF CleanSame, Remembered, Written
<1>5. MemoryComplete'
  BY <1>1, <1>2, Zenon DEF MemoryComplete
<1>6. DiskComplete'
  BY <1>1, <1>2, Zenon DEF DiskComplete
<1>7. FlagSet'
  BY <1>1, Zenon DEF IInv, FlagSet, Pruned
<1> QED
  BY <1>3, <1>4, <1>5, <1>6, <1>7, Zenon DEF IInv

\* Only a prefix of the coins' batches, and of the flag's, is lost.
LEMMA PowerFails == ASSUME IInv, PowerFailure PROVE IInv'
<1>1. PICK flag \in {flagSynced, blocktree.prunedblockfiles} :
          /\ blocktree' = [blocktree EXCEPT !.prunedblockfiles = flag]
          /\ flagSynced' = flag
  BY Zenon DEF PowerFailure
<1>2. /\ flag \in BOOLEAN
      /\ blocktree'.index = blocktree.index /\ blocktree'.prunedblockfiles = flag
      /\ blocktree' \in [index : [Blocks -> Entries], info : [Files -> Infos],
                         last : Files, prunedblockfiles : BOOLEAN]
  BY <1>1, Zenon DEF IInv, Shape
<1>3. Pruned(blocktree.index) => flag
  BY <1>1, Zenon DEF IInv, FlagSet
<1>4. MemoryLost /\ chainstate' \in chainstateMaybe' /\ chainstateMaybe' \subseteq chainstateMaybe
  BY Zenon DEF PowerFailure
<1> QED
  BY <1>1, <1>2, <1>3, <1>4, LostKeeps, Zenon

\* Exit and Kill.
LEMMA Ends == ASSUME IInv, MemoryLost, UNCHANGED databases PROVE IInv'
<1>1. /\ UNCHANGED <<blocktree, flagSynced, chainstate, chainstateMaybe>>
      /\ flagSynced => blocktree.prunedblockfiles
      /\ Pruned(blocktree.index) => flagSynced
  BY Zenon DEF databases, IInv, FlagSet
<1> QED
  BY <1>1, LostKeeps, Zenon DEF IInv, Shape

\* The other steps of a running node: what they make the tip or the coins is complete.
LEMMA Quiet ==
    ASSUME IInv,
           \/ DisconnectTip \/ ReadFails \/ VerifyDB
           \/ FlushBlockFile \/ UnlinkPrunedFiles \/ FlushDone
           \/ FlushPeriodically \/ Shutdown
           \/ \E height \in 1 .. UINT_MAX : pruneblockchain(height)
    PROVE  IInv'
<1> USE DEF memory, Same, Running, Callers
<1>1. CASE DisconnectTip
  <2>1. tip \in Blocks /\ tip # NULL
    BY <1>1, Zenon DEF DisconnectTip, MustDisconnect, IInv, Shape
  <2>2. CASE tip # Genesis
    <3>1. pprev[tip] \in Blocks /\ Up[pprev[tip]] \subseteq Up[tip] /\ pprev[tip] # NULL
      BY <2>1, <2>2, TreeAssumption
    <3>2. Complete(index, pprev[tip])
      BY <1>1, <2>1, <3>1, Zenon DEF IInv, MemoryComplete, Complete, Chain, DisconnectTip, MustDisconnect
    <3> QED
      BY <1>1, <3>1, <3>2, QuietKeeps, Zenon DEF DisconnectTip, Call, MustDisconnect, IInv, Shape, MemoryComplete
  <2>3. CASE tip = Genesis
    <3>1. FindMostWorkChain \in Blocks
      BY <1>1, Zenon DEF DisconnectTip, MustDisconnect, FindMostWorkChain
    <3> QED
      BY <1>1, <2>3, <3>1, TreeAssumption, Zenon DEF DisconnectTip, MustDisconnect
  <2> QED
    BY <2>2, <2>3, Zenon
<1>2. CASE ReadFails \/ Shutdown
  <2>1. /\ pc = "idle" /\ pc' = "flush" /\ flush'.next = tip /\ flush'.then = "down"
        /\ UNCHANGED <<memory, tip, coins, databases>>
    <3>1. /\ pc = "idle" /\ pc' = "flush" /\ flush' = Call("ALWAYS", FALSE, 0, tip, "down")
          /\ UNCHANGED <<memory, tip, coins, databases>>
      BY <1>2, Zenon DEF ReadFails, Shutdown, AbortNode
    <3> QED
      BY <3>1, Zenon DEF Call
  <2> QED
    BY <2>1, QuietKeeps, Zenon DEF IInv, Shape, MemoryComplete
<1>3. CASE VerifyDB
  BY <1>3, QuietKeeps, Zenon DEF VerifyDB, Call, IInv, Shape, MemoryComplete
<1>4. CASE FlushBlockFile \/ UnlinkPrunedFiles
  BY <1>4, QuietKeeps, Zenon DEF FlushBlockFile, UnlinkPrunedFiles, IInv, Shape, MemoryComplete
<1>5. CASE FlushDone
  BY <1>5, QuietKeeps, Zenon DEF FlushDone, Call, NoFlush, IInv, Shape, MemoryComplete, Complete, Chain
<1>6. CASE FlushPeriodically
  BY <1>6, QuietKeeps, Zenon DEF FlushPeriodically, Call, IInv, Shape, MemoryComplete
<1>7. CASE \E height \in 1 .. UINT_MAX : pruneblockchain(height)
  <2>1. /\ pc = "idle" /\ pc' = "flush" /\ flush'.next = tip /\ flush'.then = "idle"
        /\ UNCHANGED <<memory, tip, coins, databases>>
    <3> PICK height \in 1 .. UINT_MAX : pruneblockchain(height)
      BY <1>7, Zenon
    <3> DEFINE manual == Minimum(height, LastBlockWeCanPrune)
    <3>1. /\ pc = "idle" /\ pc' = "flush" /\ flush' = Call("NONE", FALSE, manual, tip, "idle")
          /\ UNCHANGED <<memory, tip, coins, databases>>
      BY Zenon DEF pruneblockchain
    <3> HIDE DEF manual
    <3> QED
      BY <3>1, Zenon DEF Call
  <2> QED
    BY <2>1, QuietKeeps, Zenon DEF IInv, Shape, MemoryComplete
<1> QED
  BY <1>1, <1>2, <1>3, <1>4, <1>5, <1>6, <1>7, Zenon

\* Storing a block keeps the invariant.
LEMMA Stores ==
    ASSUME IInv, InitBlockIndex \/ \E b \in Blocks : AcceptBlock(b)
    PROVE  IInv'
<1>1. CASE InitBlockIndex
  BY <1>1, StoreKeeps, TreeAssumption, Zenon DEF InitBlockIndex, Running, IInv, Shape
<1>2. CASE \E b \in Blocks : AcceptBlock(b)
  <2> PICK b \in Blocks : AcceptBlock(b)
    BY <1>2, Zenon
  <2>1. /\ flush'.next \in {flush.next, tip} /\ flush'.then \in Callers
        /\ pc' \in {"idle", "flush"}
    <3>1. CASE UNCHANGED <<pc, flush>>
      BY <3>1, Zenon DEF AcceptBlock, IInv, Shape
    <3>2. CASE pc' = "flush" /\ flush' = Call("NONE", TRUE, 0, tip, "idle")
      BY <3>2, Zenon DEF Call, Callers
    <3> QED
      BY <3>1, <3>2, Zenon DEF AcceptBlock
  <2> QED
    BY <2>1, StoreKeeps, Zenon DEF AcceptBlock, Running
<1> QED
  BY <1>1, <1>2, Zenon

\* Every step keeps the invariant.
LEMMA Steps == IInv /\ [Next]_vars => IInv'
<1> SUFFICES ASSUME IInv, [Next]_vars PROVE IInv'
  BY Zenon
<1>1. CASE LoadBlockIndexDB
  BY <1>1, Loads, Zenon
<1>2. CASE InitBlockIndex \/ \E b \in Blocks : AcceptBlock(b)
  BY <1>2, Stores, Zenon
<1>3. CASE FlushStateToDisk
  BY <1>3, Decides, Zenon
<1>4. CASE WriteBatchSync
  BY <1>4, WritesIndex, Zenon
<1>5. CASE FlushCoins
  BY <1>5, WritesCoins, Zenon
<1>6. CASE Exit \/ Kill
  BY <1>6, Ends, Zenon DEF Exit, Kill
<1>7. CASE PowerFailure
  BY <1>7, PowerFails, Zenon
<1>8. CASE \E b \in Blocks : ConnectTip(b)
  BY <1>8, Connects, Zenon
<1>9. CASE \/ DisconnectTip \/ ReadFails \/ VerifyDB
           \/ FlushBlockFile \/ UnlinkPrunedFiles \/ FlushDone
           \/ FlushPeriodically \/ Shutdown
           \/ \E height \in 1 .. UINT_MAX : pruneblockchain(height)
  BY <1>9, Quiet, Zenon
<1>10. CASE UNCHANGED vars
  BY <1>10 DEF vars, memory, databases, IInv, Shape, CleanSame, Written, Remembered,
               MemoryComplete, DiskComplete, FlagSet, Complete, Pruned, Running
<1> QED
  BY <1>1, <1>2, <1>3, <1>4, <1>5, <1>6, <1>7, <1>8, <1>9, <1>10, Zenon
     DEF Next, Startup, Flushing, Activating, Calls, Stuck

(***************************************************************************)
(* The inductive invariant: the argument for the next two theorems.        *)
(***************************************************************************)
THEOREM Invariance == Spec => []IInv
BY Initially, Steps, PTL DEF Spec

(***************************************************************************)
(* FlushStateToDisk writes the block index before the coins, so whatever   *)
(* crash comes when, the coins that a restart finds belong to a block whose *)
(* whole chain LoadBlockIndexDB has received.                              *)
(***************************************************************************)
THEOREM ChainstateSafe == Spec => []ChainstateInIndex
<1>1. IInv => ChainstateInIndex
  BY ChainType, Zenon
     DEF IInv, Shape, Entries, DiskComplete, Complete, Chain, ChainstateInIndex
<1> QED
  BY <1>1, Invariance, PTL

(***************************************************************************)
(* FlushStateToDisk writes the flag prunedblockfiles before any index      *)
(* entry without data, so no crash leaves a pruned database without it.    *)
(***************************************************************************)
THEOREM PruningRecorded == Spec => []PrunedRecorded
<1>1. IInv => PrunedRecorded
  BY Zenon DEF IInv, FlagSet, Pruned, PrunedRecorded
<1> QED
  BY <1>1, Invariance, PTL

-----------------------------------------------------------------------------
\* WriteUndo appends to the undo file of the block, where there is room.
LEMMA UndoFiles ==
    ASSUME CountingFacts, IInv, FInv, Running, NEW b \in Blocks, b # Genesis,
           HaveData(index[b]), ~HaveUndo(index[b]), WriteUndo(b, index[b].nFile),
           UNCHANGED <<blocktree, powerLost>>, pc' = "flush"
    PROVE  FInv'
<1> DEFINE f == index[b].nFile
           slot == vinfoBlockFile[f].nUndoSize
<1>1. /\ blk \in Contents /\ rev \in Contents
      /\ vinfoBlockFile \in [Files -> FileInfo] /\ blocktree.info \in [Files -> FileInfo]
      /\ index \in [Blocks -> Entry] /\ blocktree.index \in [Blocks -> Entry]
  BY Zenon DEF FInv, Typed
<1>2. f \in Files /\ slot \in Nat
  BY <1>1, EntryFacts, InfoFacts, Zenon
<1>3. /\ IsFiniteSet(DataIn(index, f)) /\ IsFiniteSet(UndoIn(index, f))
      /\ slot <= Cardinality(UndoIn(index, f))
      /\ UndoIn(index, f) \subseteq DataIn(index, f)
      /\ b \in DataIn(index, f) /\ b \notin UndoIn(index, f)
      /\ Cardinality(DataIn(index, f)) <= vinfoBlockFile[f].nSize
  <2>1. \A c \in Blocks : HaveUndo(index[c]) => HaveData(index[c])
    BY Zenon DEF FInv, InMemory, Placed
  <2>2. UndoIn(index, f) \subseteq DataIn(index, f) /\ b \in DataIn(index, f) /\ b \notin UndoIn(index, f)
    BY <2>1, Zenon DEF DataIn, UndoIn
  <2>3. /\ IsFiniteSet(DataIn(index, f)) /\ slot <= Cardinality(UndoIn(index, f))
        /\ Cardinality(DataIn(index, f)) <= vinfoBlockFile[f].nSize
    BY <1>2, Zenon DEF FInv, InMemory, Counted
  <2> QED
    BY <2>2, <2>3, Fewer, Zenon
<1>4. /\ Cardinality(UndoIn(index, f)) \in Nat
      /\ Cardinality(UndoIn(index, f) \cup {b}) = Cardinality(UndoIn(index, f)) + 1
  BY <1>3, OneMore, Zenon
<1>5. slot \in Slots /\ slot + 1 < MAX_BLOCKFILE_SIZE
  <2>1. /\ Cardinality(DataIn(index, f)) \in Nat
        /\ Cardinality(UndoIn(index, f) \cup {b}) <= Cardinality(DataIn(index, f))
    <3>1. UndoIn(index, f) \cup {b} \subseteq DataIn(index, f)
      BY <1>3, Zenon
    <3> QED
      BY <1>3, <3>1, Fewer, Zenon
  <2>2. vinfoBlockFile[f].nSize \in Nat /\ vinfoBlockFile[f].nSize < MAX_BLOCKFILE_SIZE
    BY <1>1, <1>2, InfoFacts, Zenon
  <2>3. Cardinality(UndoIn(index, f)) + 1 <= Cardinality(DataIn(index, f))
    BY <1>4, <2>1, Zenon
  <2>4. \A s, u, d, n \in Nat : s <= u /\ u + 1 <= d /\ d <= n /\ n < MAX_BLOCKFILE_SIZE
            => s \in 0 .. MAX_BLOCKFILE_SIZE - 2 /\ s + 1 < MAX_BLOCKFILE_SIZE
    BY SizesAssumption
  <2> QED
    BY <1>2, <1>3, <1>4, <2>1, <2>2, <2>3, <2>4, Zenon DEF Slots
<1>6. /\ rev' = [rev EXCEPT ![f][slot] = b]
      /\ vinfoBlockFile' = [vinfoBlockFile EXCEPT ![f] = [vinfoBlockFile[f] EXCEPT !.nUndoSize = slot + 1]]
      /\ setDirtyFileInfo' = setDirtyFileInfo \cup {f}
      /\ index' = [index EXCEPT ![b] = [index[b] EXCEPT !.undo = slot]]
      /\ UNCHANGED <<nLastBlockFile, blk, blkSynced, revSynced>>
  BY <1>1, <1>2, Zenon DEF WriteUndo
<1>7. Running'
  BY Zenon DEF Running
<1> HIDE DEF f, slot
<1>8. /\ rev' \in Contents
      /\ \A h \in Files, s \in Slots : ~(h = f /\ s = slot) => rev'[h][s] = rev[h][s]
      /\ rev'[f][slot] = b
  BY <1>1, <1>2, <1>5, <1>6, Zenon DEF Contents
<1>9. /\ vinfoBlockFile' \in [Files -> FileInfo]
      /\ \A h \in Files : /\ vinfoBlockFile'[h].nSize = vinfoBlockFile[h].nSize
                          /\ vinfoBlockFile'[h].nHeightLast = vinfoBlockFile[h].nHeightLast
                          /\ vinfoBlockFile[h].nUndoSize <= vinfoBlockFile'[h].nUndoSize
                          /\ h # f => vinfoBlockFile'[h] = vinfoBlockFile[h]
      /\ vinfoBlockFile'[f].nUndoSize = slot + 1
  <2> DEFINE info == vinfoBlockFile[f]
             more == [info EXCEPT !.nUndoSize = slot + 1]
  <2>1. info \in FileInfo /\ info.nUndoSize = slot /\ slot + 1 \in 0 .. MAX_BLOCKFILE_SIZE - 1
    BY <1>1, <1>2, <1>5, SizesAssumption DEF slot
  <2>2. vinfoBlockFile' = [vinfoBlockFile EXCEPT ![f] = more]
    BY <1>6, Zenon
  <2> HIDE DEF info
  <2>3. /\ more \in FileInfo /\ more.nUndoSize = slot + 1 /\ more.nSize = info.nSize
        /\ more.nHeightLast = info.nHeightLast
    BY <2>1, Zenon DEF FileInfo
  <2> HIDE DEF more
  <2>4. /\ vinfoBlockFile' \in [Files -> FileInfo] /\ vinfoBlockFile'[f] = more
        /\ \A h \in Files : h # f => vinfoBlockFile'[h] = vinfoBlockFile[h]
    BY <1>1, <1>2, <2>2, <2>3, Zenon
  <2>5. \A n \in Nat : n <= n /\ n <= n + 1
    OBVIOUS
  <2>6. \A h \in Files : vinfoBlockFile[h].nUndoSize \in Nat
    BY <1>1, InfoFacts, Zenon
  <2>7. \A h \in Files : vinfoBlockFile[h].nUndoSize <= vinfoBlockFile'[h].nUndoSize
    BY <1>2, <2>1, <2>3, <2>4, <2>5, <2>6, Zenon DEF info
  <2> QED
    BY <1>2, <2>3, <2>4, <2>7, Zenon DEF info
<1>10. /\ index' \in [Blocks -> Entry]
       /\ \A c \in Blocks : /\ c # b => index'[c] = index[c]
                            /\ index'[c].nFile = index[c].nFile /\ index'[c].data = index[c].data
                            /\ HaveData(index'[c]) = HaveData(index[c])
       /\ index'[b].undo = slot /\ HaveUndo(index'[b])
  <2> DEFINE e == [index[b] EXCEPT !.undo = slot]
  <2>1. index[b] \in Entry
    BY <1>1, Zenon
  <2>2. /\ e \in Entry /\ e.undo = slot /\ e.nFile = index[b].nFile /\ e.data = index[b].data
    BY <1>5, <2>1, Zenon DEF Entry
  <2>3. HaveData(e) = HaveData(index[b]) /\ HaveUndo(e)
    BY <1>2, <2>2 DEF HaveData, HaveUndo, NoSlot
  <2>4. index' = [index EXCEPT ![b] = e]
    BY <1>6, Zenon
  <2> HIDE DEF e
  <2> QED
    BY <1>1, <2>2, <2>3, <2>4, Zenon
<1>11. Typed'
  BY <1>1, <1>2, <1>6, <1>8, <1>9, <1>10, Zenon DEF FInv, Typed
<1>12. OnDisk'
  BY <1>6, Zenon DEF FInv, OnDisk, Placed, Counted, Stored
<1>13. InMemory'
  <2>1. Placed(index, vinfoBlockFile, nLastBlockFile)'
    <3> SUFFICES ASSUME NEW c \in Blocks
                 PROVE  /\ HaveData(index'[c]) =>
                              /\ index'[c].nFile <= nLastBlockFile
                              /\ index'[c].data < vinfoBlockFile'[index'[c].nFile].nSize
                              /\ nHeight[c] <= vinfoBlockFile'[index'[c].nFile].nHeightLast
                        /\ HaveUndo(index'[c]) =>
                              /\ HaveData(index'[c]) /\ c # Genesis
                              /\ index'[c].undo < vinfoBlockFile'[index'[c].nFile].nUndoSize
      BY <1>6, Zenon DEF Placed
    <3> DEFINE h == index[c].nFile
    <3>1. h \in Files /\ HaveUndo(index[c]) => index[c].undo \in Nat
      BY <1>1, EntryFacts, Zenon
    <3>2. /\ HaveData(index[c]) =>
                h <= nLastBlockFile /\ index[c].data < vinfoBlockFile[h].nSize
                /\ nHeight[c] <= vinfoBlockFile[h].nHeightLast
          /\ HaveUndo(index[c]) =>
                HaveData(index[c]) /\ c # Genesis /\ index[c].undo < vinfoBlockFile[h].nUndoSize
      BY Zenon DEF FInv, InMemory, Placed
    <3>3. h \in Files
      BY <1>1, EntryFacts, Zenon
    <3>4. CASE c = b
      <4>1. h = f /\ slot < slot + 1
        BY <1>2, <3>4 DEF f
      <4> QED
        BY <1>9, <1>10, <3>2, <3>3, <3>4, <4>1, Zenon
    <3>5. CASE c # b
      <4>1. vinfoBlockFile[h].nUndoSize \in Nat /\ vinfoBlockFile'[h].nUndoSize \in Nat
        BY <1>1, <1>9, <3>3, InfoFacts, Zenon
      <4>2. /\ vinfoBlockFile'[h].nSize = vinfoBlockFile[h].nSize
            /\ vinfoBlockFile'[h].nHeightLast = vinfoBlockFile[h].nHeightLast
            /\ vinfoBlockFile[h].nUndoSize <= vinfoBlockFile'[h].nUndoSize
            /\ index'[c] = index[c]
        BY <1>9, <1>10, <3>3, <3>5, Zenon
      <4> QED
        BY <3>1, <3>2, <3>3, <4>1, <4>2
    <3> QED
      BY <3>4, <3>5, Zenon
  <2>2. Counted(index, vinfoBlockFile)'
    <3> SUFFICES ASSUME NEW h \in Files
                 PROVE  /\ IsFiniteSet(DataIn(index', h))
                        /\ vinfoBlockFile'[h].nUndoSize <= Cardinality(UndoIn(index', h))
                        /\ Cardinality(DataIn(index', h)) <= vinfoBlockFile'[h].nSize
      BY Zenon DEF Counted, DataIn, UndoIn
    <3>1. /\ IsFiniteSet(DataIn(index, h))
          /\ vinfoBlockFile[h].nUndoSize <= Cardinality(UndoIn(index, h))
          /\ Cardinality(DataIn(index, h)) <= vinfoBlockFile[h].nSize
      BY Zenon DEF FInv, InMemory, Counted
    <3>2. DataIn(index', h) = DataIn(index, h)
      BY <1>10, Zenon DEF DataIn
    <3>3. CASE h = f
      <4>1. UndoIn(index', h) = UndoIn(index, h) \cup {b}
        BY <1>10, <3>3, Zenon DEF UndoIn, f
      <4>2. \A m, n \in Nat : m <= n => m + 1 <= n + 1
        OBVIOUS
      <4>3. slot + 1 <= Cardinality(UndoIn(index, f) \cup {b})
        BY <1>2, <1>3, <1>4, <4>2, Zenon
      <4> QED
        BY <1>9, <3>1, <3>2, <3>3, <4>1, <4>3, Zenon
    <3>4. CASE h # f
      <4>1. UndoIn(index', h) = UndoIn(index, h)
        BY <1>10, <3>4, Zenon DEF UndoIn, f
      <4> QED
        BY <1>9, <3>1, <3>2, <3>4, <4>1, Zenon
    <3> QED
      BY <3>3, <3>4, Zenon
  <2>3. Stored(index, blk)' /\ Committed'
    BY <1>6, <1>10 DEF FInv, InMemory, Stored, Committed
  <2> QED
    BY <2>1, <2>2, <2>3, Zenon DEF InMemory
<1>14. Grown(f)
  <2>1. b \in DataIn(index, f)
    BY <1>3, Zenon
  <2> QED
    BY <1>2, <2>1, Zenon DEF FInv, Sizes, Gone
<1>15. UndoKept'
  <2> SUFFICES ASSUME ~powerLost PROVE UndoStored(index)' /\ UndoStored(blocktree.index)'
    BY Zenon DEF UndoKept
  <2>0. UndoStored(index) /\ UndoStored(blocktree.index)
    BY Zenon DEF FInv, UndoKept
  <2>1. ASSUME NEW c \in Blocks, c # b, HaveUndo(index[c])
        PROVE  rev'[index[c].nFile][index[c].undo] = c
    <3>1. /\ index[c].undo < vinfoBlockFile[index[c].nFile].nUndoSize
          /\ rev[index[c].nFile][index[c].undo] = c
      BY <2>0, <2>1, Zenon DEF FInv, InMemory, Placed, UndoStored
    <3>2. index[c].nFile \in Files /\ index[c].undo \in Slots /\ index[c].undo \in Nat
      BY <1>1, <2>1, EntryFacts, Zenon
    <3>3. index[c].nFile = f => index[c].undo # slot
      BY <1>2, <3>1, <3>2 DEF slot
    <3> QED
      BY <1>8, <3>1, <3>2, <3>3, Zenon
  <2>2. ASSUME NEW c \in Blocks, HaveUndo(blocktree.index[c])
        PROVE  rev'[blocktree.index[c].nFile][blocktree.index[c].undo] = c
    <3> DEFINE h == blocktree.index[c].nFile
               s == blocktree.index[c].undo
    <3>1. h \in Files /\ s \in Slots /\ s \in Nat
      BY <1>1, <2>2, EntryFacts, Zenon
    <3>2. s < blocktree.info[h].nUndoSize /\ rev[h][s] = c
      BY <2>0, <2>2, Zenon DEF FInv, OnDisk, Placed, UndoStored
    <3>3. h = f => s # slot
      BY <1>1, <1>2, <1>14, <3>1, <3>2, InfoFacts DEF Grown, slot
    <3> HIDE DEF h, s
    <3>4. rev'[h][s] = c
      BY <1>8, <3>1, <3>2, <3>3, Zenon
    <3> QED
      BY <3>4, Zenon DEF h, s
  <2>3. index'[b].nFile = f /\ rev'[f][slot] = b /\ index'[b].undo = slot
    BY <1>8, <1>10, Zenon DEF f
  <2> QED
    BY <1>10, <2>1, <2>2, <2>3 DEF UndoStored
<1>16. Sizes'
  <2>1. \A h \in Files \ (setDirtyFileInfo \cup {f}) : vinfoBlockFile'[h] = blocktree.info[h]
    BY <1>9, Zenon DEF FInv, Sizes
  <2>2. ASSUME NEW h \in Files PROVE (Grown(h) \/ Gone(h))'
    <3>1. CASE Grown(h)
      <4>1. /\ vinfoBlockFile[h].nUndoSize \in Nat /\ vinfoBlockFile'[h].nUndoSize \in Nat
            /\ blocktree.info[h].nUndoSize \in Nat
            /\ vinfoBlockFile[h].nUndoSize <= vinfoBlockFile'[h].nUndoSize
            /\ vinfoBlockFile'[h].nSize = vinfoBlockFile[h].nSize
        BY <1>1, <1>9, InfoFacts, Zenon
      <4> QED
        BY <3>1, <4>1 DEF Grown
    <3>2. CASE Gone(h)
      BY <1>6, <1>10, <3>2 DEF Gone, DataIn
    <3> QED
      BY <3>1, <3>2, Zenon DEF FInv, Sizes
  <2> QED
    BY <1>6, <2>1, <2>2, Zenon DEF FInv, Sizes
<1> QED
  BY <1>11, <1>12, <1>13, <1>15, <1>16, Zenon DEF FInv, Emptied

\* FilesToPrune never has the file that is written to, or a later one.
LEMMA PrunesEarlier ==
    ASSUME nLastBlockFile \in Files, NEW prune \in FilesToPrune
    PROVE  \A f \in prune : f \in Files /\ f < nLastBlockFile
<1>1. \A f \in 0 .. nLastBlockFile - 1 : f \in Files /\ f < nLastBlockFile
  BY SizesAssumption DEF Files
<1>2. \A last : Prunable(last) \subseteq 0 .. nLastBlockFile - 1
  BY Zenon DEF Prunable
<1>3. prune \subseteq 0 .. nLastBlockFile - 1
  <2>1. CASE prune = {}
    BY <2>1, Zenon
  <2>2. CASE prune \in FindFilesToPrune /\ prune # {}
    BY <1>2, <2>2, Zenon DEF FindFilesToPrune
  <2>3. CASE prune = FindFilesToPruneManual(flush.manual)
    BY <1>2, <2>3, Zenon DEF FindFilesToPruneManual
  <2> QED
    BY <2>1, <2>2, <2>3, Zenon DEF FilesToPrune
<1> QED
  BY <1>1, <1>3, Zenon

\* Pruning takes files out of the index in memory; the database still has them.
LEMMA DecideFiles == ASSUME CountingFacts, IInv, FInv, FlushStateToDisk PROVE FInv'
<1> PICK prune \in FilesToPrune, full \in FullFlush(flush.mode), write \in PeriodicWrite(flush.mode) :
          /\ PruneBlockFiles(prune)
          /\ WriteFlag(prune)
          /\ flush' = [Call("NONE", FALSE, 0, flush.next, flush.then) EXCEPT
                 !.prune = prune, !.full = full \/ prune # {}]
          /\ pc' = FirstWrite(full, write, prune)
  BY Zenon DEF FlushStateToDisk
<1>1. /\ Running /\ Running' /\ pc' # "index" /\ flush'.prune = prune
      /\ UNCHANGED <<nLastBlockFile, blk, rev, blkSynced, revSynced, powerLost>>
  BY Zenon DEF FlushStateToDisk, Running, FirstWrite, Call, files, history
<1>2. /\ blocktree'.index = blocktree.index /\ blocktree'.info = blocktree.info
      /\ blocktree'.last = blocktree.last
  BY DEF WriteFlag
<1>3. /\ index \in [Blocks -> Entry] /\ vinfoBlockFile \in [Files -> FileInfo]
      /\ nLastBlockFile \in Files
  BY Zenon DEF FInv, Typed, IInv, Shape
<1>4. \A f \in prune : f \in Files /\ f < nLastBlockFile
  BY <1>3, PrunesEarlier, Zenon
<1>5. \A b \in Blocks :
         /\ index'[b] \in Entry
         /\ HaveData(index[b]) /\ index[b].nFile \in prune =>
               ~HaveData(index'[b]) /\ ~HaveUndo(index'[b])
         /\ HaveData(index[b]) /\ index[b].nFile \notin prune => index'[b] = index[b]
         /\ ~HaveData(index[b]) => ~HaveData(index'[b]) /\ ~HaveUndo(index'[b])
  <2> SUFFICES ASSUME NEW b \in Blocks
               PROVE  /\ index'[b] \in Entry
                      /\ HaveData(index[b]) /\ index[b].nFile \in prune =>
                            ~HaveData(index'[b]) /\ ~HaveUndo(index'[b])
                      /\ HaveData(index[b]) /\ index[b].nFile \notin prune => index'[b] = index[b]
                      /\ ~HaveData(index[b]) => ~HaveData(index'[b]) /\ ~HaveUndo(index'[b])
    BY Zenon
  <2>1. index[b] \in Entry /\ 0 \in Files
    BY <1>3, SizesAssumption DEF Files
  <2>2. HaveData(index[b]) => index[b].known
    BY Zenon DEF IInv, Shape, Entries
  <2>3. HaveUndo(index[b]) => HaveData(index[b])
    BY <1>1, Zenon DEF FInv, InMemory, Placed
  <2>4. CASE ~(index[b].known /\ index[b].nFile \in prune)
    <3>1. index'[b] = index[b]
      BY <2>4, Zenon DEF PruneBlockFiles
    <3> QED
      BY <2>1, <2>2, <2>3, <2>4, <3>1, Zenon
  <2>5. CASE index[b].known /\ index[b].nFile \in prune
    <3>1. index'[b] = [index[b] EXCEPT !.nFile = 0, !.data = NoSlot, !.undo = NoSlot]
      BY <2>5, Zenon DEF PruneBlockFiles
    <3>2. index'[b] \in Entry /\ index'[b].data = NoSlot /\ index'[b].undo = NoSlot
      BY <2>1, <3>1, Zenon DEF Entry
    <3> QED
      BY <2>5, <3>2, Zenon DEF HaveData, HaveUndo
  <2> QED
    BY <2>4, <2>5, Zenon
<1>6. /\ vinfoBlockFile' = [f \in Files |-> IF f \in prune THEN NullInfo ELSE vinfoBlockFile[f]]
      /\ setDirtyFileInfo' = setDirtyFileInfo \cup prune
      /\ index' \in [Blocks -> Entry]
  BY <1>5, Zenon DEF PruneBlockFiles
<1>7. Typed'
  BY <1>1, <1>2, <1>3, <1>4, <1>6, Fresh DEF FInv, Typed
<1>8. OnDisk'
  BY <1>1, <1>2, Zenon DEF FInv, OnDisk, Placed, Counted, Stored
<1>9. \A f \in Files : /\ f \in prune => DataIn(index', f) = {} /\ UndoIn(index', f) = {}
                       /\ f \notin prune => /\ DataIn(index', f) = DataIn(index, f)
                                            /\ UndoIn(index', f) = UndoIn(index, f)
  <2>1. \A b \in Blocks : HaveUndo(index[b]) => HaveData(index[b])
    BY <1>1, Zenon DEF FInv, InMemory, Placed
  <2>2. \A b \in Blocks : HaveUndo(index'[b]) => HaveData(index'[b])
    BY <1>5, <2>1, Zenon
  <2>3. \A b \in Blocks : HaveData(index'[b]) => index'[b] = index[b] /\ index[b].nFile \notin prune
    BY <1>5, Zenon
  <2> QED
    BY <1>5, <2>1, <2>2, <2>3, Zenon DEF DataIn, UndoIn
<1>10. InMemory'
  <2>1. \A b \in Blocks : /\ HaveData(index'[b]) =>
                                index'[b] = index[b] /\ index[b].nFile \notin prune
                          /\ HaveUndo(index'[b]) =>
                                index'[b] = index[b] /\ index[b].nFile \notin prune
    BY <1>1, <1>5, Zenon DEF FInv, InMemory, Placed
  <2>2. \A b \in Blocks : index[b].nFile \in Files
    BY <1>3, EntryFacts, Zenon
  <2>3. \A f \in Files : f \notin prune => vinfoBlockFile'[f] = vinfoBlockFile[f]
    BY <1>6, Zenon
  <2>4. Placed(index, vinfoBlockFile, nLastBlockFile)'
    BY <1>1, <2>1, <2>2, <2>3 DEF FInv, InMemory, Placed
  <2>5. Stored(index, blk)' /\ Committed'
    BY <1>1, <2>1, Zenon DEF FInv, InMemory, Stored, Committed
  <2>6. Counted(index, vinfoBlockFile)'
    <3> SUFFICES ASSUME NEW h \in Files
                 PROVE  /\ IsFiniteSet(DataIn(index', h))
                        /\ vinfoBlockFile'[h].nUndoSize <= Cardinality(UndoIn(index', h))
                        /\ Cardinality(DataIn(index', h)) <= vinfoBlockFile'[h].nSize
      BY Zenon DEF Counted, DataIn, UndoIn
    <3>1. CASE h \in prune
      <4>1. vinfoBlockFile'[h].nSize = 0 /\ vinfoBlockFile'[h].nUndoSize = 0
        BY <1>6, <3>1, Zenon DEF NullInfo
      <4> QED
        BY <1>9, <3>1, <4>1 DEF CountingFacts
    <3>2. CASE h \notin prune
      BY <1>1, <1>9, <2>3, <3>2, Zenon DEF FInv, InMemory, Counted
    <3> QED
      BY <3>1, <3>2, Zenon
  <2> QED
    BY <2>4, <2>5, <2>6, Zenon DEF InMemory
<1>11. UndoKept'
  <2> SUFFICES ASSUME ~powerLost PROVE UndoStored(index)' /\ UndoStored(blocktree.index)'
    BY <1>1, Zenon DEF UndoKept
  <2>1. UndoStored(index) /\ UndoStored(blocktree.index)
    BY Zenon DEF FInv, UndoKept
  <2>2. \A b \in Blocks : HaveUndo(index'[b]) => index'[b] = index[b]
    BY <1>5, Zenon
  <2> QED
    BY <1>1, <1>2, <2>1, <2>2, Zenon DEF UndoStored
<1>12. Sizes'
  <2>1. \A f \in Files \ (setDirtyFileInfo \cup prune) : vinfoBlockFile'[f] = blocktree.info[f]
    BY <1>1, <1>6, Zenon DEF FInv, Sizes
  <2>2. ASSUME NEW f \in Files PROVE (Grown(f) \/ Gone(f))'
    <3>1. CASE f \in prune
      <4>1. DataIn(index', f) = {} /\ f < nLastBlockFile'
        BY <1>1, <1>4, <1>9, <3>1, Zenon
      <4> QED
        BY <4>1, Zenon DEF Gone, DataIn
    <3>2. CASE f \notin prune
      <4>1. vinfoBlockFile'[f] = vinfoBlockFile[f] /\ DataIn(index', f) = DataIn(index, f)
        BY <1>6, <1>9, <3>2, Zenon
      <4>2. Grown(f) => Grown(f)'
        BY <1>2, <4>1, Zenon DEF Grown
      <4>3. Gone(f) => Gone(f)'
        BY <1>1, <4>1, Zenon DEF Gone, DataIn
      <4> QED
        BY <1>1, <4>2, <4>3, Zenon DEF FInv, Sizes
    <3> QED
      BY <3>1, <3>2, Zenon
  <2> QED
    BY <1>1, <1>2, <1>6, <2>1, <2>2, Zenon DEF FInv, Sizes
<1>13. Emptied'
  <2>1. \A f \in prune : DataIn(index', f) = {}
    BY <1>4, <1>9, Zenon
  <2> QED
    BY <1>1, <2>1, Zenon DEF Emptied, DataIn
<1> QED
  BY <1>7, <1>8, <1>10, <1>11, <1>12, <1>13, Zenon DEF FInv

\* Every step keeps the files in order.
LEMMA FileSteps == ASSUME CountingFacts, IInv, FInv, [Next]_vars PROVE FInv'
<1>1. CASE LoadBlockIndexDB
  BY <1>1, LoadFiles, Zenon
<1>2. CASE InitBlockIndex
  <2>1. /\ Running /\ StoreBlock(Genesis) /\ pc' = "flush" /\ UNCHANGED <<blocktree, powerLost>>
    BY <1>2, Zenon DEF InitBlockIndex, Running, databases, history
  <2> QED
    BY <2>1, StoreFiles, TreeAssumption, Zenon
<1>3. ASSUME NEW b \in Blocks, AcceptBlock(b) PROVE FInv'
  <2>1. /\ Running /\ StoreBlock(b) /\ pc' \in {"idle", "flush"} /\ ~HaveData(index[b])
        /\ UNCHANGED <<blocktree, powerLost>>
    BY <1>3, Zenon DEF AcceptBlock, Running, databases, history
  <2> QED
    BY <2>1, StoreFiles, Zenon
<1>4. CASE FlushStateToDisk
  BY <1>4, DecideFiles, Zenon
<1>5. CASE FlushBlockFile
  BY <1>5, CommitFiles, Zenon
<1>6. CASE WriteBatchSync
  BY <1>6, WriteIndexFiles, Zenon
<1>7. CASE UnlinkPrunedFiles
  BY <1>7, UnlinkFiles, Zenon
<1>8. CASE Exit \/ Kill \/ PowerFailure
  BY <1>8, StopsFiles, Zenon
<1>9. ASSUME NEW b \in Blocks, ConnectTip(b) PROVE FInv'
  <2>1. /\ Running /\ pc' = "flush" /\ HaveData(index[b]) /\ UNCHANGED <<blocktree, powerLost>>
    BY <1>9, Zenon DEF ConnectTip, ReadBlockFromDisk, Running, databases, history
  <2>2. CASE b # Genesis /\ ~HaveUndo(index[b])
    <3>1. WriteUndo(b, index[b].nFile)
      BY <1>9, <2>2, Zenon DEF ConnectTip
    <3> QED
      BY <2>1, <2>2, <3>1, UndoFiles, Zenon
  <2>3. CASE ~(b # Genesis /\ ~HaveUndo(index[b]))
    <3>1. UNCHANGED <<memory, files>>
      BY <1>9, <2>3, Zenon DEF ConnectTip
    <3>2. SameFiles
      BY <2>1, <3>1, Zenon DEF SameFiles, memory, files
    <3> QED
      BY <2>1, <3>2, QuietFiles, Zenon
  <2> QED
    BY <2>2, <2>3, Zenon
<1>10. CASE \/ DisconnectTip \/ ReadFails \/ VerifyDB \/ FlushCoins \/ FlushDone
            \/ FlushPeriodically \/ Shutdown \/ \E height \in 1 .. UINT_MAX : pruneblockchain(height)
  <2>1. Running /\ UNCHANGED <<memory, files, blocktree, powerLost>>
    BY <1>10, Zenon DEF DisconnectTip, MustDisconnect, ReadFails, VerifyDB, FlushCoins, FlushDone,
                 FlushPeriodically, Shutdown, pruneblockchain, Running, databases, history
  <2>2. pc' \notin {"commit", "index", "unlink"}
    BY <1>10, Zenon DEF DisconnectTip, ReadFails, AbortNode, VerifyDB, FlushCoins, FlushDone,
                 FlushPeriodically, Shutdown, pruneblockchain, IInv, Shape, Callers
  <2> QED
    BY <2>1, <2>2, QuietFiles, Zenon DEF SameFiles, memory, files
<1>11. CASE UNCHANGED vars
  <2>1. UNCHANGED <<index, vinfoBlockFile, nLastBlockFile, setDirtyFileInfo, pc, flush, blk, rev,
                    blkSynced, revSynced, blocktree, powerLost>>
    BY <1>11, Zenon DEF vars, memory, files, databases, history
  <2>2. Typed' /\ UndoKept' /\ Emptied'
    BY <2>1, Zenon DEF FInv, Typed, UndoKept, UndoStored, Emptied, DataIn
  <2>3. OnDisk'
    BY <2>1, Zenon DEF FInv, OnDisk, Placed, Counted, Stored
  <2>4. InMemory'
    BY <2>1, Zenon DEF FInv, InMemory, Placed, Counted, Stored, Committed, DataIn, UndoIn, Running
  <2>5. Sizes'
    BY <2>1, Zenon DEF FInv, Sizes, Grown, Gone, DataIn, Running
  <2> QED
    BY <2>2, <2>3, <2>4, <2>5, Zenon DEF FInv
<1> QED
  BY <1>1, <1>2, <1>3, <1>4, <1>5, <1>6, <1>7, <1>8, <1>9, <1>10, <1>11, Zenon
     DEF Next, Startup, Flushing, Activating, Calls, Stuck

-----------------------------------------------------------------------------
(***************************************************************************)
(* The types of what the thread of control keeps.                          *)
(***************************************************************************)
FlushCalls == [mode : Modes, check : BOOLEAN, manual : 0 .. UINT_MAX,
               next : Blocks \cup {NULL}, then : PCs, full : BOOLEAN, prune : SUBSET Files]
Control == pc \in PCs /\ flush \in FlushCalls /\ stops \in 0 .. MaxStops /\ powerLost \in BOOLEAN

\* A call of FlushStateToDisk has the type of one.
LEMMA CallTyped ==
    ASSUME NEW mode \in Modes, NEW check \in BOOLEAN, NEW manual \in 0 .. UINT_MAX,
           NEW next \in Blocks \cup {NULL}, NEW then \in PCs
    PROVE  Call(mode, check, manual, next, then) \in FlushCalls
BY Zenon DEF Call, FlushCalls

\* They have them at first.
LEMMA ControlInit == Init => Control
<1>1. "NONE" \in Modes /\ 0 \in 0 .. UINT_MAX /\ "down" \in PCs /\ 0 \in 0 .. MaxStops
  BY SizesAssumption DEF Modes, PCs
<1>2. NoFlush \in FlushCalls
  BY <1>1, CallTyped, Zenon DEF NoFlush
<1> QED
  BY <1>1, <1>2, Zenon DEF Init, Control

\* A height that may be pruned is an unsigned int.
LEMMA PruneHeightTyped ==
    ASSUME tip \in Blocks, NEW height \in 1 .. UINT_MAX
    PROVE  /\ LastBlockWeCanPrune \in 0 .. UINT_MAX
           /\ Minimum(height, LastBlockWeCanPrune) \in 0 .. UINT_MAX
<1> DEFINE m == nHeight[tip] - MIN_BLOCKS_TO_KEEP
           n == UINT_MAX + 1
<1>1. m \in Int /\ n \in Nat /\ n > 0 /\ UINT_MAX \in Nat
  BY TreeAssumption, SizesAssumption
<1>2. m % n \in 0 .. UINT_MAX
  <2>1. m % n \in 0 .. (n - 1)
    <3> HIDE DEF m, n
    <3> QED BY <1>1
  <2> QED
    BY <1>1, <2>1
<1>3. LastBlockWeCanPrune \in 0 .. UINT_MAX
  BY <1>2, Zenon DEF LastBlockWeCanPrune
<1> HIDE DEF m, n
<1> QED
  BY <1>1, <1>3 DEF Minimum

\* Every step keeps them.
LEMMA ControlSteps == IInv /\ Control /\ [Next]_vars => Control'
<1> SUFFICES ASSUME IInv, Control, [Next]_vars PROVE Control'
  BY Zenon
<1>1. /\ tip \in Blocks \cup {NULL} /\ flush.next \in Blocks \cup {NULL} /\ flush.then \in PCs
      /\ chainstate \in Blocks \cup {NULL} /\ nLastBlockFile \in Files
      /\ 0 \in 0 .. UINT_MAX /\ "ALWAYS" \in Modes /\ "NONE" \in Modes /\ "IF_NEEDED" \in Modes
      /\ "PERIODIC" \in Modes /\ fPruneMode \in BOOLEAN
      /\ {"down", "idle", "verify", "flush", "commit", "index", "unlink", "coins", "done", "init",
          "corrupt"} \subseteq PCs
  BY SizesAssumption DEF IInv, Shape, Callers, PCs, Modes
<1>2. CASE MemoryLost /\ stops' \in 0 .. MaxStops /\ powerLost' \in BOOLEAN
  BY <1>1, <1>2, CallTyped, Zenon DEF MemoryLost, NoFlush, Control
<1>3. CASE Exit \/ Kill \/ PowerFailure
  <2>1. CASE Exit
    BY <1>2, <2>1, Zenon DEF Exit, history, Control
  <2>2. CASE Kill \/ PowerFailure
    <3>1. MemoryLost /\ stops < MaxStops /\ stops' = stops + 1 /\ powerLost' \in {TRUE, powerLost}
      BY <2>2, Zenon DEF Kill, PowerFailure
    <3>2. stops' \in 0 .. MaxStops
      BY <3>1, SizesAssumption DEF Control
    <3>3. powerLost' \in BOOLEAN
      BY <3>1, Zenon DEF Control
    <3> QED
      BY <1>2, <3>1, <3>2, <3>3, Zenon
  <2> QED
    BY <1>3, <2>1, <2>2, Zenon
<1>4. ASSUME NEW mode \in Modes, NEW check \in BOOLEAN, NEW manual \in 0 .. UINT_MAX,
             NEW next \in Blocks \cup {NULL}, NEW then \in PCs,
             flush' = Call(mode, check, manual, next, then), pc' \in PCs,
             stops' \in 0 .. MaxStops, powerLost' = powerLost
      PROVE  Control'
  BY <1>4, CallTyped, Zenon DEF Control
<1>5. CASE FlushStateToDisk
  <2> PICK prune \in FilesToPrune, full \in FullFlush(flush.mode), write \in PeriodicWrite(flush.mode) :
          /\ flush' = [Call("NONE", FALSE, 0, flush.next, flush.then) EXCEPT
                 !.prune = prune, !.full = full \/ prune # {}]
          /\ pc' = FirstWrite(full, write, prune)
    BY <1>5, Zenon DEF FlushStateToDisk
  <2>1. prune \in SUBSET Files
    BY <1>1, PrunesEarlier, Zenon
  <2>2. Call("NONE", FALSE, 0, flush.next, flush.then) \in FlushCalls
    BY <1>1, CallTyped, Zenon
  <2>3. (full \/ prune # {}) \in BOOLEAN
    BY Zenon
  <2>4. flush' \in FlushCalls
    BY <2>1, <2>2, <2>3, Zenon DEF FlushCalls
  <2> QED
    BY <1>1, <1>5, <2>4, Zenon DEF FlushStateToDisk, FirstWrite, history, Control
<1>6. CASE UNCHANGED flush /\ pc' \in PCs /\ UNCHANGED history
  BY <1>6, Zenon DEF Control, history
<1>7. CASE FlushBlockFile \/ WriteBatchSync \/ UnlinkPrunedFiles \/ FlushCoins \/ InitBlockIndex
  BY <1>1, <1>6, <1>7, Zenon DEF FlushBlockFile, WriteBatchSync, UnlinkPrunedFiles, FlushCoins, InitBlockIndex
<1>8. CASE FlushDone
  BY <1>1, <1>4, <1>8, Zenon DEF FlushDone, NoFlush, Control, history
<1>9. CASE ReadFails \/ Shutdown
  <2>1. /\ flush' = Call("ALWAYS", FALSE, 0, tip, "down") /\ pc' = "flush"
        /\ stops' = stops \/ (stops < MaxStops /\ stops' = stops + 1)
        /\ powerLost' = powerLost
    BY <1>9, Zenon DEF ReadFails, Shutdown, AbortNode, history
  <2>2. stops' \in 0 .. MaxStops
    BY <2>1, SizesAssumption DEF Control
  <2> QED
    BY <1>1, <1>4, <2>1, <2>2, Zenon
<1>10. CASE FlushPeriodically \/ VerifyDB
  BY <1>1, <1>4, <1>10, Zenon DEF FlushPeriodically, VerifyDB, Control, history
<1>11. CASE LoadBlockIndexDB
  BY <1>1, <1>4, <1>11, Zenon DEF LoadBlockIndexDB, Control, history
<1>12. ASSUME NEW height \in 1 .. UINT_MAX, pruneblockchain(height) PROVE Control'
  <2>1. tip \in Blocks
    BY <1>1, <1>12, Zenon DEF pruneblockchain
  <2> QED
    BY <1>1, <1>4, <1>12, <2>1, PruneHeightTyped, Zenon DEF pruneblockchain, Control, history
<1>13. ASSUME NEW b \in Blocks, AcceptBlock(b) PROVE Control'
  BY <1>1, <1>4, <1>6, <1>13, Zenon DEF AcceptBlock, Control, history
<1>14. ASSUME NEW b \in Blocks, ConnectTip(b) PROVE Control'
  BY <1>1, <1>4, <1>14, Zenon DEF ConnectTip, Control, history
<1>15. CASE DisconnectTip
  <2>1. pprev[tip] \in Blocks
    <3>1. tip \in Blocks /\ FindMostWorkChain \in Blocks /\ tip \notin Up[FindMostWorkChain]
      BY <1>1, <1>15, Zenon DEF DisconnectTip, MustDisconnect, FindMostWorkChain
    <3> QED
      BY <3>1, TreeAssumption
  <2> QED
    BY <1>1, <1>4, <1>15, <2>1, Zenon DEF DisconnectTip, Control, history
<1>16. CASE UNCHANGED vars
  BY <1>16, Zenon DEF vars, history, Control
<1> QED
  BY <1>3, <1>5, <1>7, <1>8, <1>9, <1>10, <1>11, <1>12, <1>13, <1>14, <1>15, <1>16, Zenon
     DEF Next, Startup, Flushing, Activating, Calls, Stuck

\* Files in order are durable.
LEMMA FilesDurable == ASSUME IInv, FInv, Control PROVE DataDurable
<1>1. blocktree \in [index : [Blocks -> Entry], info : [Files -> FileInfo],
                     last : Files, prunedblockfiles : BOOLEAN]
  BY Zenon DEF IInv, Shape, FInv, Typed
<1>2. {blk, rev, blkSynced, revSynced} \subseteq [Files -> [Slots -> Blocks \cup {NULL}]]
  BY Zenon DEF FInv, Typed, Contents
<1>3. TypeOK
  BY <1>1, <1>2, Zenon DEF TypeOK, IInv, Shape, FInv, Typed, Control, FlushCalls
<1>4. \A b \in Blocks : HaveData(blocktree.index[b]) =>
          /\ blkSynced[blocktree.index[b].nFile][blocktree.index[b].data] = b
          /\ ReadBlockFromDisk(b, blocktree.index[b])
  BY Zenon DEF FInv, OnDisk, Stored, ReadBlockFromDisk
<1>5. powerLost \/ \A b \in Blocks : \A e \in {index[b], blocktree.index[b]} :
                      HaveUndo(e) => UndoReadFromDisk(b, e)
  <2> SUFFICES ASSUME ~powerLost, NEW b \in Blocks
               PROVE  \A e \in {index[b], blocktree.index[b]} : HaveUndo(e) => UndoReadFromDisk(b, e)
    BY Zenon
  <2> QED
    BY Zenon DEF FInv, UndoKept, UndoStored, UndoReadFromDisk
<1> QED
  BY <1>3, <1>4, <1>5, Zenon DEF DataDurable

-----------------------------------------------------------------------------
(***************************************************************************)
(* A node that did not lose power starts again.  VerifyDB finds undo data  *)
(* for each block of the chain it looks at, because such a block was       *)
(* connected, and neither the disk nor the memory forgets its undo data    *)
(* while it is in the chain of the coins on disk: to be received again it  *)
(* would have to be pruned, and the flush that prunes writes the coins.    *)
(***************************************************************************)
Writing == {"commit", "index", "unlink", "coins"}

\* The coins are those of the tip, or of the tip to be while there is a flush.
Position ==
    /\ pc \in {"idle", "verify", "init"} => coins = tip
    /\ pc \in {"flush", "done"} \cup Writing => coins = flush.next /\ (tip # NULL => coins # NULL)
    /\ pc = "init" => tip = NULL /\ flush.next = NULL /\ flush.manual = 0
    /\ pc \in Writing /\ flush.prune # {} => flush.full /\ tip # NULL
    /\ pc = "flush" /\ flush.manual > 0 => tip # NULL /\ nHeight[tip] >= nPruneAfterHeight

\* Blocks of the chain of c have undo data if they have data.
UndoThere(I, c) == \A b \in Chain(c) \ {Genesis} : HaveData(I[b]) => HaveUndo(I[b])

\* The chain on disk has left the coins' chain only with blocks that have data.
Left == \A b \in Chain(chainstate) : HaveData(index[b]) \/ b \in Chain(coins)

Back ==
    /\ UndoThere(blocktree.index, chainstate)
    /\ Running => UndoThere(index, chainstate) /\ UndoThere(index, coins)
    /\ Running /\ ~(pc \in Writing /\ flush.prune # {}) => Left

\* Without -prune no block loses its data.
NeverPruned ==
    ~fPruneMode => \A b \in Blocks : /\ index[b].received => HaveData(index[b])
                                     /\ blocktree.index[b].received => HaveData(blocktree.index[b])

\* LoadBlockIndexDB sets the tip to the block of the coins.
LEMMA LoadsTip ==
    ASSUME IInv, LoadBlockIndexDB
    PROVE  tip' = chainstate /\ coins' = chainstate /\ flush'.next = chainstate
<1>1. chainstate # NULL => blocktree.index[chainstate].known
  <2> SUFFICES ASSUME chainstate # NULL PROVE blocktree.index[chainstate].known
    BY Zenon
  <2>1. chainstate \in Blocks /\ chainstate \in Chain(chainstate)
    <3>1. chainstate \in Blocks
      BY Zenon DEF IInv, Shape
    <3>2. chainstate \in Up[chainstate]
      BY <3>1, TreeAssumption, Zenon
    <3> QED
      BY <3>1, <3>2, Zenon DEF Chain
  <2> QED
    BY <2>1, Zenon DEF IInv, Shape, DiskComplete, Complete, Entries
<1> QED
  BY <1>1, Zenon DEF LoadBlockIndexDB, Call

\* DisconnectTip goes to the parent.
LEMMA DisconnectsTip ==
    ASSUME IInv, DisconnectTip
    PROVE  /\ tip \in Blocks \ {Genesis} /\ pprev[tip] \in Blocks /\ pprev[tip] # NULL
           /\ Chain(tip) = Chain(pprev[tip]) \cup {tip}
           /\ HaveData(index[tip])
<1>1. tip \in Blocks /\ FindMostWorkChain \in Blocks /\ tip \notin Up[FindMostWorkChain]
  BY Zenon DEF DisconnectTip, MustDisconnect, FindMostWorkChain, IInv, Shape
<1>2. tip # Genesis
  BY <1>1, TreeAssumption
<1>3. HaveData(index[tip])
  BY Zenon DEF DisconnectTip, ReadBlockFromDisk
<1> QED
  BY <1>1, <1>2, <1>3, TreeAssumption DEF Chain

\* Every step keeps tip and coins together.
LEMMA PositionSteps == IInv /\ Position /\ [Next]_vars => Position'
<1> SUFFICES ASSUME IInv, Position, [Next]_vars PROVE Position'
  BY Zenon
<1>0. ~(0 > 0)
  OBVIOUS
<1>1. CASE LoadBlockIndexDB
  <2>1. pc' \in {"corrupt", "init", "flush"} /\ flush'.manual = 0 /\ (pc' = "init" => tip' = NULL)
    BY <1>1, Zenon DEF LoadBlockIndexDB, Call
  <2> QED
    BY <1>1, <2>1, <1>0, LoadsTip, Zenon DEF Position, Writing
<1>2. CASE InitBlockIndex
  BY <1>2 DEF InitBlockIndex, Position, Writing
<1>3. ASSUME NEW b \in Blocks, AcceptBlock(b) PROVE Position'
  BY <1>3 DEF AcceptBlock, Call, Position, Writing
<1>4. CASE FlushStateToDisk
  <2> PICK prune \in FilesToPrune, full \in FullFlush(flush.mode), write \in PeriodicWrite(flush.mode) :
          /\ flush' = [Call("NONE", FALSE, 0, flush.next, flush.then) EXCEPT
                 !.prune = prune, !.full = full \/ prune # {}]
          /\ pc' = FirstWrite(full, write, prune)
    BY <1>4, Zenon DEF FlushStateToDisk
  <2>1. /\ flush'.prune = prune /\ flush'.next = flush.next /\ pc' \in {"commit", "done"}
        /\ prune # {} => flush'.full
    BY Zenon DEF Call, FirstWrite
  <2>2. prune # {} => tip # NULL
    BY Zenon DEF FilesToPrune, FindFilesToPrune, FindFilesToPruneManual
  <2> QED
    BY <1>4, <2>1, <2>2, Zenon DEF FlushStateToDisk, Position, Writing
<1>5. CASE FlushBlockFile \/ WriteBatchSync \/ UnlinkPrunedFiles \/ FlushCoins
  BY <1>5, Zenon DEF FlushBlockFile, WriteBatchSync, UnlinkPrunedFiles, FlushCoins, Position, Writing
<1>6. CASE Exit \/ Kill \/ PowerFailure
  BY <1>6, Zenon DEF Exit, Kill, PowerFailure, MemoryLost, Position, Writing
<1>7. ASSUME NEW b \in Blocks, ConnectTip(b) PROVE Position'
  <2>1. pc' = "flush" /\ coins' = b /\ flush'.next = b /\ flush'.manual = 0
    <3>1. pc' = "flush" /\ coins' = b
          /\ \E alloc \in BOOLEAN : flush' = Call("IF_NEEDED", alloc, 0, b, "idle")
      BY <1>7, Zenon DEF ConnectTip
    <3>2. \A alloc : LET call == Call("IF_NEEDED", alloc, 0, b, "idle")
                     IN  call.next = b /\ call.manual = 0
      BY Zenon DEF Call
    <3> QED
      BY <3>1, <3>2, Zenon
  <2>2. b # NULL
    BY TreeAssumption, Zenon
  <2> QED
    BY <1>0, <2>1, <2>2, Zenon DEF Position, Writing
<1>8. CASE DisconnectTip
  <2>1. /\ pc' = "flush" /\ coins' = pprev[tip] /\ flush'.next = pprev[tip]
        /\ flush'.manual = 0
    BY <1>8, Zenon DEF DisconnectTip, Call
  <2>2. pprev[tip] # NULL
    BY <1>8, DisconnectsTip, Zenon
  <2> QED
    BY <1>0, <2>1, <2>2, Zenon DEF Position, Writing
<1>9. CASE ReadFails \/ Shutdown \/ VerifyDB \/ FlushPeriodically
  BY <1>9 DEF ReadFails, Shutdown, AbortNode, VerifyDB, FlushPeriodically, Call, Position, Writing
<1>10. CASE FlushDone
  BY <1>10, Zenon DEF FlushDone, Position, Writing, IInv, Shape, Callers
<1>11. ASSUME NEW height \in 1 .. UINT_MAX, pruneblockchain(height) PROVE Position'
  BY <1>11, Zenon DEF pruneblockchain, Call, Position, Writing
<1>12. CASE UNCHANGED vars
  BY <1>12, Zenon DEF vars, Position
<1> QED
  BY <1>1, <1>2, <1>3, <1>4, <1>5, <1>6, <1>7, <1>8, <1>9, <1>10, <1>11, <1>12, Zenon
     DEF Next, Startup, Flushing, Activating, Calls, Stuck

\* Steps that change neither index nor coins, and not the decision to prune.
LEMMA BackQuiet ==
    ASSUME Running, Back, UNCHANGED <<index, chainstate, coins>>,
           blocktree'.index = blocktree.index,
           pc \in Writing /\ flush.prune # {} => pc' \in Writing /\ flush'.prune # {}
    PROVE  Back'
BY Zenon DEF Back, UndoThere, Left

\* A block that is stored was not in the chain on disk, or it is the first.
LEMMA BackStore ==
    ASSUME IInv, FInv, Running, Back, NEW b \in Blocks, StoreBlock(b),
           b = Genesis \/ (b \notin Chain(chainstate) /\ b \notin Chain(coins)),
           UNCHANGED <<coins, databases>>, pc \notin Writing
    PROVE  Back'
<1>1. /\ blocktree'.index = blocktree.index /\ UNCHANGED <<chainstate, coins>>
  BY Zenon DEF databases
<1>2. \A c \in Blocks \ {b} : /\ HaveData(index'[c]) = HaveData(index[c])
                              /\ HaveUndo(index'[c]) = HaveUndo(index[c])
  <2> SUFFICES ASSUME NEW c \in Blocks \ {b}
               PROVE  index'[c].data = index[c].data /\ index'[c].undo = index[c].undo
    BY Zenon DEF HaveData, HaveUndo
  <2>1. index[c] \in Entry
    BY Zenon DEF FInv, Typed
  <2>2. index'[c] = [index[c] EXCEPT !.known = @ \/ c \in Up[b]]
    BY Zenon DEF StoreBlock
  <2> QED
    BY <2>1, <2>2, Zenon DEF Entry
<1>3. Chain(chainstate) \subseteq Blocks /\ Chain(coins) \subseteq Blocks
  BY ChainType, Zenon DEF IInv, Shape
<1>4. HaveData(index'[b])
  <2>1. FindBlockPos \in Files /\ vinfoBlockFile \in [Files -> FileInfo]
    BY Zenon DEF StoreBlock, FInv, Typed
  <2>2. vinfoBlockFile[FindBlockPos].nSize \in Nat
    BY <2>1, InfoFacts, Zenon
  <2>3. index'[b].data = vinfoBlockFile[FindBlockPos].nSize
    BY Zenon DEF StoreBlock
  <2> QED
    BY <2>2, <2>3 DEF HaveData, NoSlot
<1>5. UndoThere(index, chainstate)' /\ UndoThere(index, coins)'
  BY <1>1, <1>2, <1>3, Zenon DEF Back, UndoThere
<1>6. Left'
  BY <1>1, <1>2, <1>3, <1>4, Zenon DEF Back, Left
<1> QED
  BY <1>1, <1>5, <1>6, Zenon DEF Back, UndoThere

\* A block that is connected has undo data, and those before it had.
LEMMA BackConnect ==
    ASSUME IInv, FInv, Position, Back, NEW b \in Blocks, ConnectTip(b)
    PROVE  Back'
<1>1. /\ pc = "idle" /\ pc' = "flush" /\ coins' = b /\ coins = tip /\ HaveData(index[b])
      /\ Chain(coins) \cup {b} = Chain(b) /\ UNCHANGED chainstate
      /\ blocktree'.index = blocktree.index
  BY TreeAssumption, Zenon DEF ConnectTip, Position, ReadBlockFromDisk, databases, Chain
<1>2. \A c \in Blocks : /\ HaveData(index'[c]) = HaveData(index[c])
                        /\ HaveUndo(index[c]) => HaveUndo(index'[c])
                        /\ c = b /\ b # Genesis => HaveUndo(index'[c])
  <2>1. CASE b # Genesis /\ ~HaveUndo(index[b])
    <3> DEFINE slot == vinfoBlockFile[index[b].nFile].nUndoSize
    <3>1. slot \in Nat /\ index[b] \in Entry /\ index \in [Blocks -> Entry]
      BY EntryFacts, InfoFacts, Zenon DEF FInv, Typed
    <3>2. index' = [index EXCEPT ![b].undo = slot]
      BY <2>1, Zenon DEF ConnectTip, WriteUndo
    <3> HIDE DEF slot
    <3>3. /\ index'[b].undo = slot /\ index'[b].data = index[b].data
          /\ \A c \in Blocks : c # b => index'[c] = index[c]
      BY <3>1, <3>2, Zenon DEF Entry
    <3> QED
      BY <3>1, <3>3 DEF HaveData, HaveUndo, NoSlot
  <2>2. CASE ~(b # Genesis /\ ~HaveUndo(index[b]))
    <3>1. index' = index
      BY <2>2, Zenon DEF ConnectTip, memory
    <3> QED
      BY <2>2, <3>1, Zenon
  <2> QED
    BY <2>1, <2>2, Zenon
<1>3. Chain(chainstate) \subseteq Blocks /\ Chain(coins) \subseteq Blocks
  BY ChainType, Zenon DEF IInv, Shape
<1>4. /\ UndoThere(index, chainstate) /\ UndoThere(index, coins) /\ Left
  BY <1>1, Zenon DEF Back, Running, Writing
<1>5. UndoThere(index, chainstate)' /\ UndoThere(index, coins)'
  BY <1>1, <1>2, <1>3, <1>4, Zenon DEF UndoThere
<1>6. Left'
  BY <1>1, <1>2, <1>3, <1>4, Zenon DEF Left
<1> QED
  BY <1>1, <1>5, <1>6, Zenon DEF Back, UndoThere

\* The decision what to prune: data is lost, but no undo data alone.
LEMMA BackDecide == ASSUME IInv, FInv, Back, FlushStateToDisk PROVE Back'
<1> PICK prune \in FilesToPrune, full \in FullFlush(flush.mode), write \in PeriodicWrite(flush.mode) :
          /\ PruneBlockFiles(prune)
          /\ WriteFlag(prune)
          /\ flush' = [Call("NONE", FALSE, 0, flush.next, flush.then) EXCEPT
                 !.prune = prune, !.full = full \/ prune # {}]
          /\ pc' = FirstWrite(full, write, prune)
  BY Zenon DEF FlushStateToDisk
<1>1. /\ Running /\ pc \notin Writing /\ flush'.prune = prune
      /\ prune # {} => pc' = "commit"
      /\ UNCHANGED <<coins, chainstate>> /\ blocktree'.index = blocktree.index
  <2>1. Running /\ pc \notin Writing /\ UNCHANGED <<coins, chainstate>>
    BY Zenon DEF FlushStateToDisk, Running, Writing
  <2>2. flush'.prune = prune
    BY Zenon DEF Call
  <2>3. prune # {} => pc' = "commit"
    BY Zenon DEF FirstWrite
  <2>4. blocktree'.index = blocktree.index
    BY DEF WriteFlag
  <2> QED
    BY <2>1, <2>2, <2>3, <2>4, Zenon
<1>2. \A b \in Blocks : HaveData(index'[b]) \/ prune = {} => index'[b] = index[b]
  <2> SUFFICES ASSUME NEW b \in Blocks, index[b].known /\ index[b].nFile \in prune
               PROVE  ~HaveData(index'[b]) /\ prune # {}
    BY Zenon DEF PruneBlockFiles
  <2>1. index'[b] = [index[b] EXCEPT !.nFile = 0, !.data = NoSlot, !.undo = NoSlot]
    BY Zenon DEF PruneBlockFiles
  <2>2. index[b] \in Entry
    BY Zenon DEF FInv, Typed
  <2> QED
    BY <2>1, <2>2 DEF Entry, HaveData
<1>3. Chain(chainstate) \subseteq Blocks /\ Chain(coins) \subseteq Blocks
  BY ChainType, Zenon DEF IInv, Shape
<1>4. UndoThere(index, chainstate)' /\ UndoThere(index, coins)'
  BY <1>1, <1>2, <1>3, Zenon DEF Back, UndoThere
<1>5. prune = {} => Left'
  BY <1>1, <1>2, <1>3, Zenon DEF Back, Left
<1>6. UndoThere(blocktree.index, chainstate)'
  BY <1>1, Zenon DEF Back, UndoThere
<1> QED
  BY <1>1, <1>4, <1>5, <1>6, Zenon DEF Back, Writing

\* Every step leaves the undo data of the chain on disk where a restart needs it.
LEMMA BackSteps ==
    ASSUME IInv, FInv, Position, Back, [Next]_vars
    PROVE  powerLost' \/ Back'
<1>1. CASE LoadBlockIndexDB
  <2>1. /\ coins' = chainstate /\ UNCHANGED <<chainstate, blocktree>> /\ index' = blocktree.index
    BY <1>1, LoadsTip, Zenon DEF LoadBlockIndexDB
  <2> QED
    BY <2>1, Zenon DEF Back, UndoThere, Left
<1>2. CASE InitBlockIndex
  BY <1>2, BackStore, TreeAssumption, Zenon DEF InitBlockIndex, Running, Writing
<1>3. ASSUME NEW b \in Blocks, AcceptBlock(b) PROVE Back'
  <2>1. /\ Running /\ StoreBlock(b) /\ UNCHANGED <<coins, databases>> /\ pc \notin Writing
        /\ ~HaveData(index[b]) /\ b \notin Chain(coins)
    BY <1>3, Zenon DEF AcceptBlock, Running, Writing, Position
  <2>2. b \notin Chain(chainstate)
    BY <2>1, Zenon DEF Back, Left
  <2> QED
    BY <2>1, <2>2, BackStore, Zenon
<1>4. CASE FlushStateToDisk
  BY <1>4, BackDecide, Zenon
<1>5. CASE WriteBatchSync
  <2>1. /\ Running /\ Running' /\ UNCHANGED <<index, coins, chainstate, flush>>
        /\ pc = "index" /\ (flush.prune # {} => pc' = "unlink")
    BY <1>5, Zenon DEF WriteBatchSync, Running
  <2>2. \A b \in Blocks : blocktree'.index[b] = index[b]
    BY <1>5, <2>1, Zenon DEF WriteBatchSync, IInv, CleanSame, Shape
  <2>3. Chain(chainstate) \subseteq Blocks
    BY ChainType, Zenon DEF IInv, Shape
  <2>4. UndoThere(blocktree.index, chainstate)'
    BY <2>1, <2>2, <2>3, Zenon DEF Back, UndoThere
  <2>5. UndoThere(index, chainstate)' /\ UndoThere(index, coins)' /\ (flush.prune = {} => Left')
    BY <2>1, Zenon DEF Back, UndoThere, Left
  <2> QED
    BY <2>1, <2>4, <2>5, Zenon DEF Back, Writing
<1>6. CASE FlushCoins
  <2>1. /\ Running /\ pc = "coins" /\ pc' = "done" /\ UNCHANGED <<index, coins, blocktree>>
        /\ chainstate' = IF coins = NULL THEN chainstate ELSE coins
        /\ setDirtyBlockIndex = {}
    BY <1>6, Zenon DEF FlushCoins, Running, memory, IInv, Written
  <2>2. CASE coins = NULL
    <3>1. flush.prune = {} /\ chainstate' = chainstate
      BY <2>1, <2>2, Zenon DEF Position, Writing
    <3> QED
      BY <2>1, <3>1, BackQuiet, Zenon
  <2>3. CASE coins # NULL
    <3>1. chainstate' = coins
      BY <2>1, <2>3, Zenon
    <3>2. \A b \in Chain(coins) : blocktree.index[b] = index[b]
      BY <2>1, ChainType, Zenon DEF IInv, Shape, CleanSame
    <3> QED
      BY <2>1, <3>1, <3>2, Zenon DEF Back, UndoThere, Left
  <2> QED
    BY <2>2, <2>3, Zenon
<1>7. CASE Exit \/ Kill
  <2>1. ~Running' /\ UNCHANGED <<blocktree, chainstate>>
    BY <1>7, Zenon DEF Exit, Kill, MemoryLost, Running, databases
  <2> QED
    BY <2>1, Zenon DEF Back, UndoThere
<1>8. CASE PowerFailure
  BY <1>8, Zenon DEF PowerFailure
<1>9. ASSUME NEW b \in Blocks, ConnectTip(b) PROVE Back'
  BY <1>9, BackConnect, Zenon
<1>10. CASE DisconnectTip
  <2>1. /\ pc = "idle" /\ coins = tip /\ coins' = pprev[tip]
        /\ UNCHANGED <<index, chainstate, blocktree>>
    BY <1>10, Zenon DEF DisconnectTip, MustDisconnect, Position, memory, databases
  <2>2. Chain(coins) = Chain(coins') \cup {tip} /\ HaveData(index[tip])
    BY <1>10, <2>1, DisconnectsTip, Zenon
  <2> QED
    BY <2>1, <2>2, Zenon DEF Back, UndoThere, Left, Running, Writing
<1>11. CASE \/ FlushBlockFile \/ UnlinkPrunedFiles \/ ReadFails \/ Shutdown \/ VerifyDB
            \/ FlushPeriodically \/ FlushDone
            \/ \E height \in 1 .. UINT_MAX : pruneblockchain(height)
  <2>1. Running /\ UNCHANGED <<index, chainstate, coins, blocktree>>
    BY <1>11, Zenon DEF FlushBlockFile, UnlinkPrunedFiles, ReadFails, Shutdown, VerifyDB,
                 FlushPeriodically, FlushDone, pruneblockchain, Running, memory, databases
  <2>2. pc \in Writing => pc' \in Writing /\ UNCHANGED flush
    BY <1>11, Zenon DEF FlushBlockFile, UnlinkPrunedFiles, ReadFails, Shutdown, VerifyDB,
                 FlushPeriodically, FlushDone, pruneblockchain, Writing
  <2> QED
    BY <2>1, <2>2, BackQuiet, Zenon
<1>12. CASE UNCHANGED vars
  <2>1. UNCHANGED <<index, chainstate, coins, blocktree, pc, flush>>
    BY <1>12, Zenon DEF vars, memory, databases
  <2> QED
    BY <2>1, Zenon DEF Back, UndoThere, Left, Running
<1> QED
  BY <1>1, <1>2, <1>3, <1>4, <1>5, <1>6, <1>7, <1>8, <1>9, <1>10, <1>11, <1>12, Zenon
     DEF Next, Startup, Flushing, Activating, Calls, Stuck

\* Without -prune every step keeps the data of the blocks.
LEMMA NeverPrunedSteps ==
    ASSUME IInv, FInv, NeverPruned, [Next]_vars
    PROVE  NeverPruned'
<1> SUFFICES ASSUME ~fPruneMode
             PROVE  \A b \in Blocks :
                        /\ index'[b].received => HaveData(index'[b])
                        /\ blocktree'.index[b].received => HaveData(blocktree'.index[b])
  BY Zenon DEF NeverPruned
<1>0. \A b \in Blocks : /\ index[b].received => HaveData(index[b])
                        /\ blocktree.index[b].received => HaveData(blocktree.index[b])
  BY Zenon DEF NeverPruned
<1> DEFINE Kept == blocktree'.index = blocktree.index
           Goal == \A b \in Blocks : index'[b].received => HaveData(index'[b])
<1>1. CASE UNCHANGED index /\ Kept
  BY <1>0, <1>1, Zenon
<1>2. CASE LoadBlockIndexDB
  BY <1>0, <1>2, Zenon DEF LoadBlockIndexDB
<1>3. CASE index' = [b \in Blocks |-> Unknown] /\ Kept
  BY <1>0, <1>3, Zenon DEF Unknown
<1>4. ASSUME NEW b \in Blocks, StoreBlock(b), Kept PROVE Goal
  <2>1. FindBlockPos \in Files /\ vinfoBlockFile \in [Files -> FileInfo]
    BY <1>4, Zenon DEF StoreBlock, FInv, Typed
  <2>2. vinfoBlockFile[FindBlockPos].nSize \in Nat
    BY <2>1, InfoFacts, Zenon
  <2>3. index'[b].data = vinfoBlockFile[FindBlockPos].nSize
    BY <1>4, Zenon DEF StoreBlock
  <2>4. HaveData(index'[b])
    BY <2>2, <2>3 DEF HaveData, NoSlot
  <2>5. ASSUME NEW c \in Blocks, c # b PROVE index'[c].received => HaveData(index'[c])
    <3>1. index[c] \in Entry
      BY Zenon DEF FInv, Typed
    <3>2. index'[c] = [index[c] EXCEPT !.known = @ \/ c \in Up[b]]
      BY <1>4, <2>5, Zenon DEF StoreBlock
    <3> QED
      BY <1>0, <3>1, <3>2, Zenon DEF Entry, HaveData
  <2> QED
    BY <2>4, <2>5, Zenon
<1>5. CASE InitBlockIndex \/ \E b \in Blocks : AcceptBlock(b)
  <2>1. PICK b \in Blocks : StoreBlock(b) /\ UNCHANGED databases
    BY <1>5, TreeAssumption, Zenon DEF InitBlockIndex, AcceptBlock
  <2>2. Kept
    BY <2>1, Zenon DEF databases
  <2> QED
    BY <1>0, <1>4, <2>1, <2>2, Zenon
<1>6. CASE FlushStateToDisk
  <2>1. FilesToPrune = {{}}
    BY Zenon DEF FilesToPrune
  <2>2. PICK prune \in FilesToPrune : PruneBlockFiles(prune) /\ WriteFlag(prune)
    BY <1>6, Zenon DEF FlushStateToDisk
  <2>3. prune = {} /\ Kept
    BY <2>1, <2>2 DEF WriteFlag
  <2>4. index' = index
    BY <2>2, <2>3, Zenon DEF PruneBlockFiles, FInv, Typed
  <2> QED
    BY <1>1, <2>3, <2>4, Zenon
<1>7. CASE WriteBatchSync
  <2>1. Running /\ index' = index
    BY <1>7, Zenon DEF WriteBatchSync, Running
  <2>2. \A b \in Blocks : blocktree'.index[b] = index[b]
    BY <1>7, <2>1, Zenon DEF WriteBatchSync, IInv, CleanSame, Shape
  <2> QED
    BY <1>0, <2>1, <2>2, Zenon
<1>8. ASSUME NEW b \in Blocks, ConnectTip(b) PROVE Goal /\ Kept
  <2>1. Kept
    BY <1>8, Zenon DEF ConnectTip, databases
  <2>2. CASE b # Genesis /\ ~HaveUndo(index[b])
    <3>1. index' = [index EXCEPT ![b].undo = vinfoBlockFile[index[b].nFile].nUndoSize]
      BY <1>8, <2>2, Zenon DEF ConnectTip, WriteUndo
    <3>2. index \in [Blocks -> Entry]
      BY Zenon DEF FInv, Typed
    <3>3. \A c \in Blocks : index'[c].received = index[c].received /\ index'[c].data = index[c].data
      BY <3>1, <3>2, Zenon DEF Entry
    <3> QED
      BY <1>0, <2>1, <3>3, Zenon DEF HaveData
  <2>3. CASE ~(b # Genesis /\ ~HaveUndo(index[b]))
    BY <1>0, <1>8, <2>1, <2>3, Zenon DEF ConnectTip, memory
  <2> QED
    BY <2>2, <2>3, Zenon
<1>9. CASE Exit \/ Kill
  BY <1>3, <1>9, Zenon DEF Exit, Kill, MemoryLost, databases
<1>10. CASE PowerFailure
  <2>1. Kept
    <3>1. \E flag : blocktree' = [blocktree EXCEPT !.prunedblockfiles = flag]
      BY <1>10, Zenon DEF PowerFailure
    <3> QED
      BY <3>1
  <2> QED
    BY <1>3, <1>10, <2>1, Zenon DEF PowerFailure, MemoryLost
<1>11. CASE \/ DisconnectTip \/ ReadFails \/ VerifyDB \/ FlushBlockFile \/ UnlinkPrunedFiles
            \/ FlushCoins \/ FlushDone \/ FlushPeriodically \/ Shutdown
            \/ \E height \in 1 .. UINT_MAX : pruneblockchain(height)
  <2>1. UNCHANGED <<index, blocktree>>
    BY <1>11, Zenon DEF DisconnectTip, ReadFails, VerifyDB, FlushBlockFile, UnlinkPrunedFiles, FlushCoins,
                 FlushDone, FlushPeriodically, Shutdown, pruneblockchain, memory, databases
  <2> QED
    BY <1>1, <2>1, Zenon
<1>12. CASE UNCHANGED vars
  BY <1>1, <1>12, Zenon DEF vars, memory, databases
<1> QED
  BY <1>0, <1>2, <1>5, <1>6, <1>7, <1>8, <1>9, <1>10, <1>11, <1>12, Zenon
     DEF Next, Startup, Flushing, Activating, Calls, Stuck

\* What a start needs, until power is lost.
SInv == Position /\ NeverPruned /\ (powerLost \/ Back) /\ StartsUp

\* A start that fails follows a loss of power.
LEMMA StartSteps ==
    ASSUME IInv, FInv, Position, NeverPruned, powerLost \/ Back, StartsUp, [Next]_vars
    PROVE  StartsUp'
<1> SUFFICES ASSUME ~powerLost', pc' = "corrupt" PROVE FALSE
  BY Zenon DEF StartsUp
<1>1. CASE LoadBlockIndexDB
  <2>1. ~BlockFilesPresent
    BY <1>1, Zenon DEF LoadBlockIndexDB
  <2>2. BlockFilesPresent
    <3> SUFFICES ASSUME NEW b \in Blocks, HaveData(blocktree.index[b])
                 PROVE  \E s \in Slots : blk[blocktree.index[b].nFile][s] # NULL
      BY Zenon DEF BlockFilesPresent
    <3>1. blocktree.index[b].data \in Slots
      BY EntryFacts, Zenon DEF FInv, Typed
    <3>2. blk[blocktree.index[b].nFile][blocktree.index[b].data] = b /\ b # NULL
      BY TreeAssumption, Zenon DEF FInv, OnDisk, Stored
    <3> QED
      BY <3>1, <3>2, Zenon
  <2> QED
    BY <2>1, <2>2, Zenon
<1>2. CASE VerifyDB
  <2>1. /\ pc = "verify" /\ powerLost' = powerLost /\ coins = tip /\ Running
        /\ ~\A b \in Verified : ReadBlockFromDisk(b, index[b]) /\ UndoReadFromDisk(b, index[b])
    BY <1>2, Zenon DEF VerifyDB, history, Position, Running
  <2>2. PICK b \in Verified : ~(ReadBlockFromDisk(b, index[b]) /\ UndoReadFromDisk(b, index[b]))
    BY <2>1, Zenon
  <2>3. b \in Chain(tip) \ {Genesis} /\ b \in Blocks
    BY ChainType, Zenon DEF Verified, IInv, Shape
  <2>4. HaveData(index[b])
    <3>1. CASE fPruneMode
      <4>1. nHeight[b] >= nHeight[b]
        BY <2>3, TreeAssumption
      <4> QED
        BY <2>2, <2>3, <3>1, <4>1, Zenon DEF Verified
    <3>2. CASE ~fPruneMode
      BY <2>1, <2>3, <3>2, Zenon DEF NeverPruned, IInv, MemoryComplete, Complete
    <3> QED
      BY <3>1, <3>2, Zenon
  <2>5. HaveUndo(index[b])
    BY <2>1, <2>3, <2>4, Zenon DEF Back, UndoThere
  <2>6. ReadBlockFromDisk(b, index[b])
    BY <2>1, <2>3, <2>4, Zenon DEF FInv, InMemory, Stored, ReadBlockFromDisk
  <2>7. UndoReadFromDisk(b, index[b])
    BY <2>1, <2>3, <2>5, Zenon DEF FInv, UndoKept, UndoStored, UndoReadFromDisk
  <2> QED
    BY <2>2, <2>6, <2>7, Zenon
<1>3. CASE UNCHANGED <<pc, powerLost>>
  BY <1>3, Zenon DEF StartsUp
<1>4. CASE InitBlockIndex \/ \E b \in Blocks : AcceptBlock(b)
  BY <1>4, Zenon DEF InitBlockIndex, AcceptBlock
<1>5. CASE Flushing
  BY <1>5, Zenon DEF Flushing, FlushStateToDisk, FirstWrite, FlushBlockFile, WriteBatchSync,
              UnlinkPrunedFiles, FlushCoins, FlushDone, Exit, MemoryLost, IInv, Shape, Callers
<1>6. CASE Activating \/ FlushPeriodically \/ Shutdown
           \/ \E height \in 1 .. UINT_MAX : pruneblockchain(height)
  BY <1>6, Zenon DEF Activating, ConnectTip, DisconnectTip, ReadFails, AbortNode, FlushPeriodically,
              Shutdown, pruneblockchain
<1>7. CASE Kill \/ PowerFailure
  BY <1>7, Zenon DEF Kill, PowerFailure, MemoryLost
<1>8. CASE UNCHANGED vars
  BY <1>3, <1>8, Zenon DEF vars, history
<1> QED
  BY <1>1, <1>2, <1>4, <1>5, <1>6, <1>7, <1>8, Zenon DEF Next, Startup, Calls, Stuck

\* SInv holds at first and is kept.
LEMMA StartInit == ASSUME Init PROVE SInv
<1>1. pc = "down" /\ chainstate = NULL
  BY Zenon DEF Init
<1>2. NeverPruned
  BY Zenon DEF Init, NeverPruned, Unknown
<1>3. Back
  BY <1>1, Zenon DEF Back, UndoThere, Chain, Running
<1> QED
  BY <1>1, <1>2, <1>3, Zenon DEF SInv, Position, Writing, StartsUp

LEMMA StartStep == ASSUME IInv, FInv, SInv, [Next]_vars PROVE SInv'
<1>1. Position /\ NeverPruned /\ (powerLost \/ Back) /\ StartsUp
  BY Zenon DEF SInv
<1>2. Position' /\ NeverPruned' /\ StartsUp'
  BY <1>1, PositionSteps, NeverPrunedSteps, StartSteps, Zenon
<1>3. powerLost => powerLost'
  BY Zenon DEF Next, Startup, Flushing, Activating, Calls, Stuck, LoadBlockIndexDB, InitBlockIndex,
         VerifyDB, FlushStateToDisk, FlushBlockFile, WriteBatchSync, UnlinkPrunedFiles, FlushCoins,
         FlushDone, Exit, ConnectTip, DisconnectTip, ReadFails, AcceptBlock, FlushPeriodically,
         pruneblockchain, Shutdown, Kill, PowerFailure, vars, history
<1>4. Back => powerLost' \/ Back'
  BY <1>1, BackSteps, Zenon
<1> QED
  BY <1>1, <1>2, <1>3, <1>4, Zenon DEF SInv

\* A block that loses its data in FlushStateToDisk is not near the tip.
LEMMA PrunesOld ==
    ASSUME MIN_BLOCKS_TO_KEEP <= nPruneAfterHeight,
           IInv, FInv, Control, SInv, [Next]_vars, pc = "flush", pc' # "down", ~UNCHANGED vars,
           NEW b \in Blocks, HaveData(index[b]), ~HaveData(index'[b])
    PROVE  nHeight[b] <= nHeight[tip] - MIN_BLOCKS_TO_KEEP
<1>1. FlushStateToDisk
  BY Zenon DEF Next, Startup, Flushing, Activating, Calls, Stuck, LoadBlockIndexDB, InitBlockIndex,
              VerifyDB, FlushBlockFile, WriteBatchSync, UnlinkPrunedFiles, FlushCoins, FlushDone,
              Exit, ConnectTip, DisconnectTip, MustDisconnect, ReadFails, AcceptBlock,
              FlushPeriodically, pruneblockchain, Shutdown, Kill, PowerFailure, MemoryLost
<1>2. PICK prune \in FilesToPrune : PruneBlockFiles(prune)
  BY <1>1, Zenon DEF FlushStateToDisk
<1> DEFINE f == index[b].nFile
<1>3. f \in prune
  BY <1>2, Zenon DEF PruneBlockFiles
<1>4. /\ f \in Files /\ nHeight[b] \in Nat /\ vinfoBlockFile[f].nHeightLast \in Nat
      /\ nHeight[b] <= vinfoBlockFile[f].nHeightLast
  <2>1. Running
    BY Zenon DEF Running
  <2> QED
    BY <2>1, EntryFacts, InfoFacts, TreeAssumption, Zenon DEF FInv, Typed, InMemory, Placed
<1> HIDE DEF f
<1>5. PICK last : /\ f \in Prunable(last) /\ tip # NULL /\ nHeight[tip] >= nPruneAfterHeight
                  /\ \/ last = LastBlockWeCanPrune
                     \/ last = Minimum(flush.manual, LastBlockWeCanPrune) /\ flush.manual \in Nat
  <2>0. tip \in Blocks \cup {NULL} /\ nPruneAfterHeight \in Nat
    BY SizesAssumption, Zenon DEF IInv, Shape
  <2>1. CASE fPruneMode /\ flush.manual > 0
    <3>1. tip # NULL /\ nHeight[tip] >= nPruneAfterHeight
      BY <2>1, Zenon DEF SInv, Position
    <3>2. f \in Prunable(Minimum(flush.manual, LastBlockWeCanPrune))
      BY <1>2, <1>3, <2>1, <3>1, Zenon DEF FilesToPrune, FindFilesToPruneManual
    <3>3. flush.manual \in Nat
      BY SizesAssumption DEF Control, FlushCalls
    <3> QED
      BY <3>1, <3>2, <3>3, Zenon
  <2>2. CASE ~(fPruneMode /\ flush.manual > 0)
    <3>1. prune \in FindFilesToPrune /\ prune # {}
      BY <1>2, <1>3, <2>2, Zenon DEF FilesToPrune
    <3>2. tip # NULL /\ ~(nHeight[tip] <= nPruneAfterHeight)
      BY <3>1, Zenon DEF FindFilesToPrune
    <3>3. f \in Prunable(LastBlockWeCanPrune)
      BY <1>3, <3>1, <3>2, Zenon DEF FindFilesToPrune
    <3>4. nHeight[tip] >= nPruneAfterHeight
      BY <2>0, <3>2, TreeAssumption
    <3> QED
      BY <3>2, <3>3, <3>4, Zenon
  <2> QED
    BY <2>1, <2>2, Zenon
<1>6. /\ LastBlockWeCanPrune = nHeight[tip] - MIN_BLOCKS_TO_KEEP
      /\ LastBlockWeCanPrune \in Nat
  <2> DEFINE m == nHeight[tip] - MIN_BLOCKS_TO_KEEP
             n == UINT_MAX + 1
  <2>1. m \in Nat /\ n \in Nat /\ m < n /\ n > 0
    <3>1. tip \in Blocks
      BY <1>5, Zenon DEF IInv, Shape
    <3>2. nHeight[tip] \in Nat /\ MIN_BLOCKS_TO_KEEP \in Nat /\ nPruneAfterHeight \in Nat
      BY <3>1, TreeAssumption, SizesAssumption, Zenon
    <3> QED
      BY <1>5, <3>1, <3>2, SizesAssumption
  <2>2. m % n = m
    <3> HIDE DEF m, n
    <3> QED BY <2>1
  <2> QED
    BY <2>1, <2>2, Zenon DEF LastBlockWeCanPrune
<1>7. last <= LastBlockWeCanPrune /\ last \in Nat
  BY <1>5, <1>6 DEF Minimum
<1>8. vinfoBlockFile[f].nHeightLast <= last
  BY <1>5, Zenon DEF Prunable
<1>9. \A i, j, k, n \in Nat : i <= j /\ j <= k /\ k <= n => i <= n
  OBVIOUS
<1> QED
  BY <1>4, <1>6, <1>7, <1>8, <1>9, Zenon

-----------------------------------------------------------------------------
(* The facts of finite sets, and the theorems.                              *)
INSTANCE FiniteSetTheorems

\* A non-empty set of naturals has a least element.
LEMMA LeastNat ==
    ASSUME NEW T \in SUBSET Nat, T # {}
    PROVE  \E n \in T : \A m \in T : n <= m
<1> DEFINE R == OpToRel(<, Nat)
<1>1. IsWellFoundedOn(R, Nat)
  BY NatLessThanWellFounded, Zenon
<1>2. PICK x \in T : \A y \in T : ~(<<y, x>> \in R)
  <2> HIDE DEF R
  <2> QED BY <1>1, WFMin, Zenon
<1>3. \A y \in T : ~(y < x)
  BY <1>2, Zenon DEF OpToRel
<1> QED
  BY <1>3

LEMMA Counting == CountingFacts
<1>1. \A T \in SUBSET Nat : T # {} => \E n \in T : \A m \in T : n <= m
  BY LeastNat, Zenon
<1>2. IsFiniteSet({}) /\ Cardinality({}) = 0
  BY FS_EmptySet, Zenon
<1>3. \A S : IsFiniteSet(S) => Cardinality(S) \in Nat
  BY FS_CardinalityType, Zenon
<1>4. \A S : IsFiniteSet(S) =>
         \A T \in SUBSET S : IsFiniteSet(T) /\ Cardinality(T) <= Cardinality(S)
  BY FS_Subset, Zenon
<1>5. \A S, x : IsFiniteSet(S) =>
         /\ IsFiniteSet(S \cup {x})
         /\ Cardinality(S \cup {x}) = IF x \in S THEN Cardinality(S) ELSE Cardinality(S) + 1
  BY FS_AddElement, Zenon
<1> QED
  BY <1>1, <1>2, <1>3, <1>4, <1>5, Zenon DEF CountingFacts

\* The invariant of memory, disk and files.
LEMMA StartInvariance == Spec => [](IInv /\ FInv /\ Control /\ SInv)
<1>1. Init => FInv /\ SInv
  BY Counting, FirstFiles, StartInit, Zenon
<1>2. IInv /\ FInv /\ [Next]_vars => FInv'
  BY Counting, FileSteps, Zenon
<1>3. IInv /\ FInv /\ SInv /\ [Next]_vars => SInv'
  BY StartStep, Zenon
<1> QED
  BY <1>1, <1>2, <1>3, Initially, Steps, ControlInit, ControlSteps, PTL DEF Spec

(***************************************************************************)
(* DataDurable.  Whatever is killed or loses power when: files are         *)
(* committed before the database points into them (FlushBlockFile before   *)
(* WriteBatchSync), removed after it has ceased to, and never overwritten  *)
(* where it does.                                                          *)
(***************************************************************************)
THEOREM DataIsDurable == Spec => []DataDurable
<1>1. IInv /\ FInv /\ Control => DataDurable
  BY FilesDurable, Zenon
<1> QED
  BY <1>1, StartInvariance, PTL

(***************************************************************************)
(* StartsUp.  A node that was shut down or killed, at whatever point of a  *)
(* flush, finds its files in LoadBlockIndexDB and the blocks and the undo  *)
(* data that VerifyDB reads.                                               *)
(***************************************************************************)
THEOREM StartsAgain == Spec => []StartsUp
<1>1. SInv => StartsUp
  BY Zenon DEF SInv
<1> QED
  BY <1>1, StartInvariance, PTL

(***************************************************************************)
(* PruneKeepsRecent.  Where pruning begins above MIN_BLOCKS_TO_KEEP, so    *)
(* that the unsigned subtraction does not wrap, neither FindFilesToPrune   *)
(* nor pruneblockchain removes a block near the tip, on any branch.        *)
(***************************************************************************)
THEOREM PruningKeepsRecent ==
    ASSUME MIN_BLOCKS_TO_KEEP <= nPruneAfterHeight
    PROVE  Spec => PruneKeepsRecent
<1> DEFINE Recent == pc = "flush" /\ pc' # "down" => \A b \in Blocks :
                         HaveData(index[b]) /\ ~HaveData(index'[b])
                             => nHeight[b] <= nHeight[tip] - MIN_BLOCKS_TO_KEEP
<1>1. ASSUME IInv, FInv, Control, SInv, [Next]_vars PROVE [Recent]_vars
  <2> SUFFICES ASSUME pc = "flush", pc' # "down", ~UNCHANGED vars,
                      NEW b \in Blocks, HaveData(index[b]), ~HaveData(index'[b])
               PROVE  nHeight[b] <= nHeight[tip] - MIN_BLOCKS_TO_KEEP
    BY Zenon
  <2> QED
    BY <1>1, PrunesOld, Zenon
<1> QED
  BY <1>1, StartInvariance, PTL DEF Spec, PruneKeepsRecent
=============================================================================
