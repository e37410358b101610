--------------------------- MODULE ChainIndexer ---------------------------
(***************************************************************************)
(* core/src/indexer and core/src/bloomBits: sections of the canonical      *)
(* chain are indexed by the items (addresses and topics) of their logs,    *)
(* and a filter reads the index where there is one and the receipts after. *)
(* A bloom is the set of the items themselves: a false positive of the     *)
(* real one only makes the filter read receipts in vain.                   *)
(***************************************************************************)
EXTENDS Database, FiniteSetsExt

CONSTANTS
    SectionSize,            \* bloomBitsConfig.bloomBitsSectionSize
    ConfirmsBlockNumber     \* bloomBitsConfig.confirmsBlockNumber

ItemsOf(log) == {log.address} \cup ToSet(log.topics)
LogsOf(hash) == [i \in 1 .. Len(Txs(hash)) |-> LogOf[Txs(hash)[i]]]
Bloom(hash) == UNION {ItemsOf(log) : log \in ToSet(LogsOf(hash))}

-----------------------------------------------------------------------------
(* The indexer.  A section is named by its number; `stored` is the last    *)
(* indexed one, -1 when there is none.                                     *)
SectionStart(section) == section * SectionSize
SectionEnd(section) == (section + 1) * SectionSize

(* processNewHeader: the sections wholly below the confirmed head.         *)
ConfirmedSections(number) ==
    IF number > ConfirmsBlockNumber
    THEN ((number - ConfirmsBlockNumber) \div SectionSize) - 1 ELSE -1

HasWork(number, stored) == ConfirmedSections(number) > stored

(* BloomBitsGenerator: one row per header of the section; a header lost to *)
(* a snapshot has an empty bloom.                                          *)
BloomRows(db, section) ==
    [i \in 0 .. SectionSize - 1 |->
       LET hash == CanonicalHeader(db, SectionStart(section) + i)
       IN  IF hash = None THEN {} ELSE Bloom(hash)]

Linked(db, section) ==
    \A n \in SectionStart(section) .. SectionEnd(section) - 1 :
        LET below == CanonicalHeader(db, n - 1)
            hash == CanonicalHeader(db, n)
        IN  below # None /\ hash # None => Parent(hash) = below

(* One turn of the loop: the section is written with its count, or its     *)
(* headers do not link and the task ends.                                  *)
IndexSection(db, section) ==
    DBSaveBloomBitsSectionCount(
        DBSaveBloomBits(db, section, CanonicalHeader(db, SectionEnd(section) - 1),
                        BloomRows(db, section)), section)

(* The task starts again at the last stored section.                       *)
FirstSection(stored) == IF stored = -1 THEN 0 ELSE stored

(* The whole task, as node.init runs it.                                   *)
ProcessNewHeader(db, number) ==
    LET confirmed == ConfirmedSections(number)
        first == FirstSection(StoredSectionCount(db))
        f[section \in first - 1 .. confirmed] ==
          IF section = first - 1 THEN db
          ELSE IF Linked(db, section) THEN IndexSection(f[section - 1], section)
          ELSE f[section - 1]
    IN  IF HasWork(number, StoredSectionCount(db)) THEN f[confirmed] ELSE db

-----------------------------------------------------------------------------
(* The filter.  A query is its addresses and, for each position, the       *)
(* topics that may stand there; AnyTopic is the null that stands for all.       *)
AnyTopic == "null"

(* topicMatched.                                                           *)
TopicMatched(topics, logTopics) ==
    /\ Len(topics) <= Len(logTopics)
    /\ \A i \in 1 .. Len(topics) :
          topics[i] = {} \/ AnyTopic \in topics[i] \/ logTopics[i] \in topics[i]

(* checkLogMatches.                                                        *)
LogMatches(log, query) ==
    /\ query.addresses = {} \/ log.address \in query.addresses
    /\ TopicMatched(query.topics, log.topics)

(* filterBlock: a block whose receipts were lost to a snapshot has no logs.*)
FilterBlock(db, number, query) ==
    LET hash == CanonicalHeader(db, number)
    IN  IF hash = None \/ hash \notin db.Receipts THEN {}
        ELSE {<<number, i>> : i \in {j \in 1 .. Len(LogsOf(hash)) :
                                        LogMatches(LogsOf(hash)[j], query)}}

Blooms(query) == query.addresses \cup (UNION ToSet(query.topics) \ {AnyTopic})

(* The blocks of a section whose index holds one of the query's items.     *)
IndexedBlocks(db, section, query, from, to) ==
    LET key == <<section, NumberToHash(db, SectionEnd(section) - 1)>>
    IN  {n \in Max({from, SectionStart(section)}) .. Min({to, SectionEnd(section)}) :
            /\ n < SectionEnd(section)
            /\ db.BloomBits[key][n - SectionStart(section)] \cap Blooms(query) # {}}

UnindexedStart_LastIndexed(maxSection) ==
    IF maxSection = -1 THEN 1 ELSE SectionEnd(maxSection) + 1
UnindexedStart(maxSection) == IF maxSection = -1 THEN 1 ELSE SectionEnd(maxSection)

(* filterRange: the blocks it reads with filterBlock.                      *)
FilterRange(db, latest, from, to, query) ==
    LET maxSection == StoredSectionCount(db)
        sections == IF maxSection = -1 THEN {}
                    ELSE Min({from \div SectionSize, maxSection})
                           .. Min({to \div SectionSize, maxSection})
        indexed == UNION {IndexedBlocks(db, s, query, from, to) : s \in sections}
        rest == Max({from, UnindexedStart(maxSection)}) .. Min({to, Number(latest)})
        numbers == IF Blooms(query) = {} THEN from .. Min({to, Number(latest)})
                   ELSE indexed \cup rest
    IN  IF from > Number(latest) THEN {}
        ELSE numbers
=============================================================================
