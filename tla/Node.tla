------------------------------- MODULE Node -------------------------------
(***************************************************************************)
(* core/src/node.ts: blocks from consensus, full sync and snapshot sync    *)
(* meet in one queue; the commit loop puts them one by one and tells the   *)
(* other parts of the node.  The blockchain monitor and the chain indexer, *)
(* with the filter that reads its index, are modelled with it.             *)
(***************************************************************************)
EXTENDS Blockchain, ChainIndexer

CONSTANTS
    MaxQueue,       \* bound on the queued blocks
    MaxRestarts,    \* bound on the restarts
    Chains,         \* bound: the chains consensus may agree on, of length MaxNumber
    Queries         \* the filters asked of the node

VARIABLES
    finalised,      \* the chain consensus agrees on, up to MaxNumber
    commitQueue,    \* CommitBlock tasks: [block, force]
    notifying,      \* the modules a new block still has to be announced to
    task,           \* the task in progress, or None
    indexQueue,     \* numbers of the headers the indexer has yet to process
    indexing,       \* the section the indexer is about to index, or -1
    currentHeader,  \* BlockchainMonitor
    newHeads,       \* history: the blocks the monitor went through since the start
    restarts

nodeVars == <<commitQueue, notifying, task, indexQueue, indexing, currentHeader, newHeads, restarts>>
allVars == <<vars, nodeVars, finalised>>

(* TxPool.newBlock and ReimintEngine.newBlock are modelled with their      *)
(* components.                                                             *)
Listeners == {"bcMonitor", "bloomBitsIndexer"}

NodeInit ==
    /\ Init
    /\ finalised \in Chains
    /\ commitQueue = <<>> /\ notifying = {} /\ task = None
    /\ indexQueue = <<>> /\ indexing = -1
    /\ currentHeader = Genesis /\ newHeads = <<>> /\ restarts = 0

(* commitBlock: consensus and full sync push a block that they executed on *)
(* its parent, snapshot sync forces one ahead of the chain.                *)
CommitBlock(hash, force) ==
    /\ Len(commitQueue) < MaxQueue
    /\ \/ force /\ Extends(hash, mem.latest)
       \/ ~force /\ Parent(hash) \in db.Header
    /\ commitQueue' = Append(commitQueue, [block |-> hash, force |-> force])
    /\ UNCHANGED <<vars, notifying, task, indexQueue, indexing, currentHeader, newHeads, restarts>>

(* doCommitBlock: a block already committed, or one at or below the latest *)
(* height, is not put again.                                               *)
Refused(hash) ==
    NumberToHash(db, Number(hash)) = hash \/ Number(hash) <= Number(mem.latest)

(* commitBlockLoop takes a task whose block is refused: it is answered.    *)
AnswerRefused ==
    /\ task = None /\ commitQueue # <<>>
    /\ LET t == Head(commitQueue)
       IN  Refused(t.block) \/ (~t.force /\ ~CanPut(db, t.block))
    /\ commitQueue' = Tail(commitQueue)
    /\ UNCHANGED <<vars, notifying, task, indexQueue, indexing, currentHeader, newHeads, restarts>>

(* commitBlockLoop puts a block; only a reorganisation is announced.       *)
DoCommitBlock ==
    /\ task = None /\ commitQueue # <<>>
    /\ LET t == Head(commitQueue)
           r == IF t.force THEN ForcePutResult(db, mem, t.block) ELSE PutResult(db, mem, t.block)
       IN  /\ ~Refused(t.block)
           /\ t.force \/ CanPut(db, t.block)
           /\ db' = r.db /\ mem' = r.mem
           /\ task' = IF r.reorged THEN t ELSE None
           /\ notifying' = IF r.reorged THEN Listeners ELSE {}
    /\ commitQueue' = Tail(commitQueue)
    /\ UNCHANGED <<crashed, indexQueue, indexing, currentHeader, newHeads, restarts>>

(* The listener is done; after the last one the task is resolved.          *)
Notified(listener) ==
    /\ listener \in notifying
    /\ notifying' = notifying \ {listener}
    /\ task' = IF notifying' = {} THEN None ELSE task

MonitorNewBlock_SkipsForced ==
    /\ Notified("bcMonitor")
    /\ newHeads' = IF task.force THEN newHeads
                   ELSE Append(newHeads, [block |-> task.block, emitted |-> TRUE])
    /\ currentHeader' = IF task.force THEN currentHeader ELSE task.block
    /\ UNCHANGED <<vars, commitQueue, indexQueue, indexing, restarts>>
(* BlockchainMonitor.newBlock: the heads since the common ancestor of its  *)
(* current header and the new block, none when the block was forced.       *)
MonitorNewBlock ==
    /\ Notified("bcMonitor")
    /\ LET hash == task.block
           ancestor == CHOOSE n \in 0 .. Number(currentHeader) :
                         /\ Extends(hash, SubSeq(currentHeader, 1, n))
                         /\ \A k \in n + 1 .. Number(currentHeader) :
                               ~Extends(hash, SubSeq(currentHeader, 1, k))
           heads == [i \in 1 .. Number(hash) - ancestor |->
                       [block |-> SubSeq(hash, 1, ancestor + i), emitted |-> TRUE]]
       IN  newHeads' = IF task.force THEN Append(newHeads, [block |-> hash, emitted |-> FALSE])
                       ELSE newHeads \o heads
    /\ currentHeader' = task.block
    /\ UNCHANGED <<vars, commitQueue, indexQueue, indexing, restarts>>

(* ChainIndexer.newBlockHeader: the header is queued; a forced one is      *)
(* waited for.                                                             *)
QueueHeader ==
    /\ "bloomBitsIndexer" \in notifying
    /\ ~task.force /\ Notified("bloomBitsIndexer")
    /\ indexQueue' = Append(indexQueue, [number |-> Number(task.block), force |-> FALSE])
    /\ UNCHANGED <<vars, commitQueue, indexing, currentHeader, newHeads, restarts>>
QueueForcedHeader ==
    /\ "bloomBitsIndexer" \in notifying /\ task.force
    /\ ~\E i \in DOMAIN indexQueue : indexQueue[i].force
    /\ indexQueue' = Append(indexQueue, [number |-> Number(task.block), force |-> TRUE])
    /\ UNCHANGED <<vars, commitQueue, notifying, task, indexing, currentHeader, newHeads, restarts>>

(* processHeaderLoop: the header at the head of the queue asks for work,   *)
(* its sections are indexed one by one, and it is resolved.                *)
StartIndexing ==
    /\ indexQueue # <<>> /\ indexing = -1
    /\ HasWork(Head(indexQueue).number, StoredSectionCount(db))
    /\ indexing' = FirstSection(StoredSectionCount(db))
    /\ UNCHANGED <<vars, commitQueue, notifying, task, indexQueue, currentHeader, newHeads, restarts>>

IndexOneSection ==
    /\ indexing # -1 /\ indexing <= ConfirmedSections(Head(indexQueue).number)
    /\ Linked(db, indexing)
    /\ db' = IndexSection(db, indexing)
    /\ indexing' = indexing + 1
    /\ UNCHANGED <<mem, crashed, commitQueue, notifying, task, indexQueue, currentHeader, newHeads, restarts>>

EndIndexing_ForgetsForced ==
    /\ indexQueue # <<>>
    /\ LET t == Head(indexQueue)
       IN  IF indexing = -1 THEN ~HasWork(t.number, StoredSectionCount(db))
           ELSE indexing > ConfirmedSections(t.number) \/ ~Linked(db, indexing)
    /\ indexQueue' = Tail(indexQueue) /\ indexing' = -1
    /\ UNCHANGED <<vars, notifying, task, commitQueue, currentHeader, newHeads, restarts>>
EndIndexing ==
    /\ indexQueue # <<>>
    /\ LET t == Head(indexQueue)
       IN  /\ IF indexing = -1 THEN ~HasWork(t.number, StoredSectionCount(db))
              ELSE indexing > ConfirmedSections(t.number) \/ ~Linked(db, indexing)
           /\ IF t.force THEN Notified("bloomBitsIndexer") ELSE UNCHANGED <<notifying, task>>
    /\ indexQueue' = Tail(indexQueue) /\ indexing' = -1
    /\ UNCHANGED <<vars, commitQueue, currentHeader, newHeads, restarts>>

(* The node stops anywhere and runs init and start again: the queues are   *)
(* lost, the monitor starts at the latest block and the index is brought   *)
(* up to it.                                                               *)
NodeRestart ==
    /\ restarts < MaxRestarts
    /\ CanInit(db)
    /\ mem' = InitMem(InitDB(db))
    /\ db' = ProcessNewHeader(InitDB(db), Number(mem'.latest))
    /\ commitQueue' = <<>> /\ notifying' = {} /\ task' = None
    /\ indexQueue' = <<>> /\ indexing' = -1
    /\ currentHeader' = mem'.latest /\ newHeads' = <<>>
    /\ restarts' = restarts + 1
    /\ UNCHANGED crashed

Loops ==
    /\ \/ AnswerRefused \/ DoCommitBlock \/ MonitorNewBlock
       \/ QueueHeader \/ QueueForcedHeader
       \/ StartIndexing \/ IndexOneSection \/ EndIndexing
    /\ UNCHANGED finalised

(* Bound: the blocks that are pushed are of one chain, which no two nodes  *)
(* disagree on: ConsensusProofs shows it.                                  *)
NodeNext ==
    /\ \/ \E n \in Max({1, Number(mem.latest)}) .. MaxNumber, force \in BOOLEAN :
             CommitBlock(SubSeq(finalised, 1, n), force)
       \/ Loops
       \/ NodeRestart
    /\ UNCHANGED finalised

(* The loops run as long as they have something to do: weak fairness of    *)
(* Loops, with the condition under which one of them is enabled.           *)
Busy == commitQueue # <<>> \/ task # None \/ indexQueue # <<>>
LoopsRun == []<>~Busy \/ []<><<Loops>>_allVars

NodeSpec == NodeInit /\ [][NodeNext]_allVars /\ LoopsRun

-----------------------------------------------------------------------------
(* Subscribers of newHeads see every block of the canonical chain once, in *)
(* the order of the chain, whoever committed it: only blocks a snapshot    *)
(* jumped to are not emitted.                                              *)
HeadsAnnouncedInOrder ==
    \A i \in 1 .. Len(newHeads) - 1 :
        /\ Extends(newHeads[i + 1].block, newHeads[i].block)
        /\ newHeads[i + 1].emitted => Parent(newHeads[i + 1].block) = newHeads[i].block

(* A filter answers the same whether its blocks are indexed, being indexed *)
(* or neither: of the blocks with matching logs, filterRange reads those   *)
(* of the blocks it spans, each with filterBlock.                          *)
FilterFindsAll ==
    \A query \in Queries :
        LET matching == {n \in 1 .. MaxNumber : FilterBlock(db, n, query) # {}}
        IN  \A from \in 1 .. MaxNumber : \A to \in from .. MaxNumber :
               FilterRange(db, mem.latest, from, to, query) \cap matching
                 = (from .. Min({to, Number(mem.latest)})) \cap matching

(* The commit loop never hangs on what it announces, though it waits for   *)
(* the indexer when the block was forced: the block in progress is         *)
(* answered and the queue gets room again.                                 *)
CommitLoopAdvances ==
    /\ task # None ~> task = None
    /\ Len(commitQueue) = MaxQueue ~> Len(commitQueue) < MaxQueue
=============================================================================
