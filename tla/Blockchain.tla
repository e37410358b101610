---------------------------- MODULE Blockchain ----------------------------
(***************************************************************************)
(* packages/blockchain: the canonical chain over the database.  Every      *)
(* operation but delBlock runs under one lock and writes one batch, so it  *)
(* is one step; a crash loses what is in memory.  The node validates       *)
(* blocks itself (validateBlocks and validateConsensus are off).           *)
(***************************************************************************)
EXTENDS Database

CONSTANTS
    MaxNumber,      \* bound: the highest block of the model
    MaxStored,      \* bound: the blocks stored at a time
    HeadNames,      \* names of iterator heads
    Deletes         \* TRUE where blocks are deleted, which the node never does

VARIABLES
    db,         \* the database
    mem,        \* what Blockchain keeps in memory: heads, headHeader, headBlock, latest, td
    crashed     \* _init failed on this database

vars == <<db, mem, crashed>>

Hashes == UNION {[1 .. n -> Label] : n \in 1 .. MaxNumber}
NewHashes == IF Cardinality(db.Header) < MaxStored THEN Hashes \ db.Header ELSE {}

(* updateLatest.                                                           *)
UpdateLatest(d, m) ==
    [m EXCEPT !.latest = m.headBlock, !.td = d.TotalDifficulty[m.headBlock]]
SaveHeadOps(d, m) ==
    [d EXCEPT !.Heads = m.heads, !.HeadHeader = m.headHeader, !.HeadBlock = m.headBlock]

GenesisOps(d) == DBSaveLookups(DBSetBlockOrHeader(DBSetTD(d, 1, Genesis), Genesis), Genesis)

(* _init: the genesis block is stored once, the heads come from the        *)
(* database or default to it.                                              *)
InitDB(d) == IF NumberToHash(d, 0) = None THEN GenesisOps(d) ELSE d
HeadOr(hash) == IF hash = None THEN Genesis ELSE hash
CanInit(d) == HeadOr(d.HeadHeader) \in d.Header /\ HeadOr(d.HeadBlock) \in d.Header
InitMem(d) ==
    UpdateLatest(d, [heads |-> d.Heads, headHeader |-> HeadOr(d.HeadHeader),
                     headBlock |-> HeadOr(d.HeadBlock), latest |-> Genesis, td |-> 1])

(* _deleteCanonicalChainReferences: numbers from n up lose their hash, and *)
(* what pointed at one of those hashes moves to `head`.                    *)
DeleteCanonicalChainReferences(d, m, n, head) ==
    LET end == CHOOSE k \in n .. MaxNumber + 1 :
                  /\ NumberToHash(d, k) = None
                  /\ \A j \in n .. k - 1 : NumberToHash(d, j) # None
        stale == {NumberToHash(d, j) : j \in n .. end - 1}
        Moved(h) == IF h \in stale THEN head ELSE h
    IN  [db |-> [d EXCEPT !.NumberToHash = Del(@, n .. end - 1)],
         mem |-> [m EXCEPT !.headBlock = Moved(@),
                           !.heads = [x \in DOMAIN @ |-> Moved(@[x])]]]

(* _rebuildCanonical: back to the first ancestor the canonical chain       *)
(* already has, or that is missing; heads on the replaced blocks move to   *)
(* that ancestor, or stay when it is missing.  `old` is the database the   *)
(* walk reads: the batch is not yet written.                               *)
RebuildCanonical(d, m, old, hash) ==
    LET Known(n) == n = Len(hash) \/ SubSeq(hash, 1, n) \in old.Header
        Stops(n) == NumberToHash(old, n) = SubSeq(hash, 1, n) \/ ~Known(n)
        stop == CHOOSE n \in 0 .. Len(hash) :
                   Stops(n) /\ \A k \in n + 1 .. Len(hash) : ~Stops(k)
        stale == {NumberToHash(old, n) : n \in stop + 1 .. Len(hash)} \ {None}
        ancestor == SubSeq(hash, 1, IF Known(stop) THEN stop ELSE stop + 1)
    IN  [db |-> FoldLeft(LAMBDA x, n : DBSaveLookups(x, SubSeq(hash, 1, n)), d,
                         [i \in 1 .. Len(hash) - stop |-> stop + i]),
         mem |-> [m EXCEPT
                    !.heads = [x \in DOMAIN @ |->
                                 IF @[x] \in stale /\ Known(stop) THEN ancestor ELSE @[x]],
                    !.headBlock = IF @ \in stale THEN ancestor ELSE @]]

(* The records of a block, as putBlock is called by the node: receipts and *)
(* transaction lookups with it.                                            *)
BlockOps(d, hash, td) ==
    DBSaveTxLookup(DBSaveReceipts(DBSetBlockOrHeader(DBSetTD(d, td, hash), hash), hash), hash)

(* The block becomes the head of the canonical chain.                      *)
Reorganised(d, m, hash, td) ==
    LET atHead == [m EXCEPT !.headHeader = hash, !.headBlock = hash]
        cut == DeleteCanonicalChainReferences(BlockOps(d, hash, td), atHead, Number(hash) + 1, hash)
        chain == RebuildCanonical(cut.db, cut.mem, d, hash)
        saved == SaveHeadOps(chain.db, chain.mem)
    IN  [db |-> saved, mem |-> UpdateLatest(saved, chain.mem), reorged |-> TRUE]

CanPut(d, hash) == Parent(hash) \in DOMAIN d.TotalDifficulty

IsHeavier(d, m, td) == td > d.TotalDifficulty[m.headHeader]

(* _putBlockOrHeader: a heavier block reorganises the chain, another is    *)
(* stored beside it.                                                       *)
PutResult(d, m, hash) ==
    LET td == d.TotalDifficulty[Parent(hash)] + Difficulty(hash)
        m2 == [m EXCEPT !.headBlock = IF td > d.TotalDifficulty[@] THEN hash ELSE @]
    IN  IF IsHeavier(d, m, td) THEN Reorganised(d, m, hash, td)
        ELSE [db |-> SaveHeadOps(DBSetHashToNumber(BlockOps(d, hash, td), hash), m2),
              mem |-> m2, reorged |-> FALSE]

(* forcePutBlock: the total difficulty is given, here the one the block    *)
(* has, and the block becomes the head though its parent may be missing.   *)
TrueTd(hash) == FoldLeft(LAMBDA x, n : x + Difficulty(SubSeq(hash, 1, n)), 1,
                         [n \in 1 .. Len(hash) |-> n])
ForcePutResult(d, m, hash) == Reorganised(d, m, hash, TrueTd(hash))

-----------------------------------------------------------------------------
Init ==
    /\ db = InitDB(EmptyDB)
    /\ mem = InitMem(db)
    /\ crashed = FALSE

PutBlock(hash) ==
    /\ CanPut(db, hash)
    /\ LET r == PutResult(db, mem, hash) IN db' = r.db /\ mem' = r.mem
    /\ UNCHANGED crashed

ForcePutBlock(hash) ==
    /\ LET r == ForcePutResult(db, mem, hash) IN db' = r.db /\ mem' = r.mem
    /\ UNCHANGED crashed

(* delBlock: a block goes with its canonical children, the heads on them   *)
(* move to its parent, in memory; the batch does not save them.            *)
(* Bound: it is a canonical block (the one that just failed to run) of a   *)
(* chain in which no snapshot left a gap.                                  *)
DelBlock(hash) ==
    /\ Deletes
    /\ NumberToHash(db, Number(hash)) = hash
    /\ \A n \in 0 .. Number(mem.latest) : NumberToHash(db, n) # None
    /\ LET gone == {NumberToHash(db, n) : n \in Number(hash) .. Number(mem.latest)}
           Moved(h) == IF h \in gone THEN Parent(hash) ELSE h
           r == DeleteCanonicalChainReferences(
                  DBDelBlock(db, gone),
                  [mem EXCEPT !.headHeader = Moved(@), !.headBlock = Moved(@)],
                  Number(hash), Parent(hash))
       IN  db' = r.db /\ mem' = UpdateLatest(r.db, r.mem)
    /\ UNCHANGED crashed

(* iterator: the blocks after the name's head are run in order; the head   *)
(* moves before the callback, and a callback that fails leaves it moved    *)
(* and unsaved.                                                            *)
Iterate(name, maxBlocks, fails) ==
    LET from == IF name \in DOMAIN mem.heads THEN mem.heads[name] ELSE Genesis
        last == CHOOSE n \in Number(from) .. Number(from) + maxBlocks :
                   /\ \A k \in Number(from) + 1 .. n : NumberToHash(db, k) # None
                   /\ n = Number(from) + maxBlocks \/ NumberToHash(db, n + 1) = None
        m == [mem EXCEPT !.heads = Put(@, name, NumberToHash(db, last))]
    IN  /\ from \in db.HashToNumber /\ last > Number(from)
        /\ mem' = m
        /\ db' = IF fails THEN db ELSE SaveHeadOps(db, m)
        /\ UNCHANGED crashed

(* The process stops and starts again on what the database holds.          *)
Restart ==
    /\ db' = InitDB(db)
    /\ crashed' = ~CanInit(db)
    /\ mem' = IF CanInit(db) THEN InitMem(db') ELSE mem

(* A snapshot's block is of the chain of the latest block.                 *)
Extends(hash, ancestor) ==
    Number(hash) > Number(ancestor) /\ SubSeq(hash, 1, Number(ancestor)) = ancestor

(* A block is put after it was run, on the states of its ancestors: it     *)
(* extends the latest block or a chain that is stored as a whole.          *)
Processed(hash) ==
    \/ Extends(hash, mem.latest)
    \/ \A n \in 0 .. Number(hash) - 1 : SubSeq(hash, 1, n) \in db.Header

Next ==
    /\ ~crashed
    /\ \/ \E hash \in NewHashes : Processed(hash) /\ PutBlock(hash)
       \/ \E hash \in NewHashes : Extends(hash, mem.latest) /\ ForcePutBlock(hash)
       \/ \E hash \in Hashes : DelBlock(hash)
       \/ \E name \in HeadNames, n \in 1 .. MaxNumber, fails \in BOOLEAN : Iterate(name, n, fails)
       \/ Restart

Spec == Init /\ [][Next]_vars

-----------------------------------------------------------------------------
(* Reads.                                                                  *)
(* getBlocks: from a block on, by canonical numbers, one of every skip + 1.*)
BlockAt(id, n) == IF n = 0 THEN Block(db, id) ELSE CanonicalHeader(db, Number(id) + n)
GetBlocks(id, maxBlocks, skip, reverse) ==
    LET At(i) == BlockAt(id, IF reverse THEN -i * (skip + 1) ELSE i * (skip + 1))
        Reached(i) == \A k \in 0 .. i * (skip + 1) : BlockAt(id, IF reverse THEN -k ELSE k) # None
        n == CHOOSE k \in 0 .. maxBlocks :
               /\ \A i \in 0 .. k - 1 : Reached(i)
               /\ k = maxBlocks \/ ~Reached(k)
    IN  [i \in 1 .. n |-> At(i - 1)]

(* selectNeededHashes: a binary search that supposes the known hashes come *)
(* first.                                                                  *)
SelectNeededHashes(hashes) ==
    LET search[min \in Nat, mid \in Nat, max \in Int] ==
          IF max < min THEN min
          ELSE LET known == hashes[mid + 1] \in db.HashToNumber
                   lo == IF known THEN mid + 1 ELSE min
                   hi == IF known THEN max ELSE mid - 1
               IN  search[lo, (lo + hi) \div 2, hi]
    IN  SubSeq(hashes, search[0, 0, Len(hashes) - 1] + 1, Len(hashes))

-----------------------------------------------------------------------------
Canonical(hash) == NumberToHash(db, Number(hash)) = hash

(* Whatever forks were stored, adopted or deleted, the canonical numbers   *)
(* name one chain: each block with its parent below, where it is known.    *)
CanonicalIsChain ==
    \A n \in DOMAIN db.NumberToHash :
        LET hash == db.NumberToHash[n]
        IN  /\ hash \in db.Header \cap db.HashToNumber /\ Number(hash) = n
            /\ n > 0 /\ Parent(hash) \in db.Header /\ n - 1 \in DOMAIN db.NumberToHash
                 => db.NumberToHash[n - 1] = Parent(hash)

(* The head and every iterator's head are blocks of the canonical chain,   *)
(* and nothing is canonical above the head: a reorganisation leaves no     *)
(* pointer on the chain it replaced.                                       *)
HeadsAreCanonical ==
    /\ Canonical(mem.headHeader) /\ mem.latest = mem.headBlock
    /\ \A n \in DOMAIN db.NumberToHash : n <= Number(mem.headHeader)
    /\ \A name \in DOMAIN mem.heads : Canonical(mem.heads[name])

(* "Completely deletes a block from the blockchain including any           *)
(* references to this block" (delBlock): the node can start again.         *)
RestartFindsHead == ~crashed
=============================================================================
