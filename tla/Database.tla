----------------------------- MODULE Database -----------------------------
(***************************************************************************)
(* packages/database: the records of the chain, the operations a batch is  *)
(* made of (helpers.ts) and the reads (manager.ts).  A block's hash is the *)
(* path of labels that leads to it from the genesis block, so the parent   *)
(* and the number of a block are read off its hash, as a header that was   *)
(* fetched by its hash gives them.  A label stands for what a miner may    *)
(* choose: the difficulty and the transactions, each with one log.         *)
(***************************************************************************)
EXTENDS Integers, Sequences, FiniteSets, SequencesExt, Functions

CONSTANTS
    Label,          \* what may be in a block
    DifficultyOf,   \* label -> difficulty
    TxsOf,          \* label -> sequence of transactions
    LogOf,          \* transaction -> the log of its receipt
    None            \* what a read that finds nothing returns

Genesis == <<>>
Parent(hash) == Front(hash)
Number(hash) == Len(hash)
Txs(hash) == IF hash = Genesis THEN <<>> ELSE TxsOf[Last(hash)]
Difficulty(hash) == IF hash = Genesis THEN 1 ELSE DifficultyOf[Last(hash)]

Put(map, key, value) == [k \in DOMAIN map \cup {key} |-> IF k = key THEN value ELSE map[k]]
Del(map, keys) == RestrictDomain(map, LAMBDA k : k \notin keys)

EmptyDB ==
    [Header |-> {}, HashToNumber |-> {}, TotalDifficulty |-> <<>>, NumberToHash |-> <<>>,
     Receipts |-> {}, TxLookup |-> <<>>, Heads |-> <<>>, HeadHeader |-> None,
     HeadBlock |-> None, BloomBits |-> <<>>, SectionCount |-> -1]

(* helpers.ts: each operation as the change of the records it makes.       *)
DBSetTD(db, td, hash) == [db EXCEPT !.TotalDifficulty = Put(@, hash, td)]
DBSetBlockOrHeader(db, hash) == [db EXCEPT !.Header = @ \cup {hash}]
DBSetHashToNumber(db, hash) == [db EXCEPT !.HashToNumber = @ \cup {hash}]
DBSaveLookups(db, hash) ==
    [DBSetHashToNumber(db, hash) EXCEPT !.NumberToHash = Put(@, Number(hash), hash)]
DBSaveReceipts(db, hash) == [db EXCEPT !.Receipts = @ \cup {hash}]
DBSaveTxLookup(db, hash) ==
    [db EXCEPT !.TxLookup =
        [tx \in DOMAIN @ \cup ToSet(Txs(hash)) |->
           IF tx \in ToSet(Txs(hash)) THEN Number(hash) ELSE @[tx]]]
DBSaveBloomBits(db, section, hash, bits) ==
    [db EXCEPT !.BloomBits = Put(@, <<section, hash>>, bits)]
DBSaveBloomBitsSectionCount(db, section) == [db EXCEPT !.SectionCount = section]
DBDelBlock(db, hashes) ==
    [db EXCEPT !.Header = @ \ hashes, !.HashToNumber = @ \ hashes,
               !.TotalDifficulty = Del(@, hashes)]

(* manager.ts: a read that finds nothing is a NotFoundError, here None.    *)
NumberToHash(db, n) == IF n \in DOMAIN db.NumberToHash THEN db.NumberToHash[n] ELSE None
CanonicalHeader(db, n) ==
    LET hash == NumberToHash(db, n) IN IF hash \in db.Header THEN hash ELSE None
Block(db, hash) == IF hash \in db.HashToNumber /\ hash \in db.Header THEN hash ELSE None
StoredSectionCount(db) == db.SectionCount      \* -1 is undefined

(* getTransaction and getReceipt: the canonical block the lookup names is  *)
(* searched for the transaction.                                           *)
TransactionAt(db, tx) ==
    IF tx \notin DOMAIN db.TxLookup THEN None
    ELSE LET hash == CanonicalHeader(db, db.TxLookup[tx])
         IN  IF hash # None /\ Contains(Txs(hash), tx) THEN hash ELSE None
ReceiptAt(db, tx) ==
    LET hash == TransactionAt(db, tx) IN IF hash \in db.Receipts THEN hash ELSE None
=============================================================================
