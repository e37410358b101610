------------------------------ MODULE MCState ------------------------------
(* What a node stores of the chain and the state, and how it gets there,   *)
(* as seven instances of which a behaviour runs one (part), while the      *)
(* others stay as they begin:                                              *)
(*  "node"       a chain of five blocks, committed with gaps and one       *)
(*               restart, index sections of two blocks, three filters;     *)
(*  "messages"   a sender, a contract and an address without an account,   *)
(*               calls two deep, three instructions, one transaction;      *)
(*  "transactions" the same with two transactions of two instructions;     *)
(*  "code"       programs of up to four of fourteen instructions on words  *)
(*               of two bits a byte, and one of four pushes;               *)
(*  "generator"  three accounts of two slots, ranges of two accounts and   *)
(*               one slot, three states of which two left records, two     *)
(*               merges;                                                   *)
(*  "layers"     two accounts of one slot, four states, four blocks, one   *)
(*               diff layer kept;                                          *)
(*  "iterator"   three hashes in any of three layers.                      *)
EXTENDS Integers, Sequences, TLC

CONSTANTS
    None,
    \* node
    Label, DifficultyOf, TxsOf, LogOf, MaxNumber, Chains, MaxStored, HeadNames, Deletes,
    SectionSize, ConfirmsBlockNumber, MaxQueue, MaxNodeRestarts, Queries,
    \* messages
    Address, Key, Sender, Value, MessageWord, MaxDepth, MaxSteps, MaxMessageBlocks, MaxTx, Accounts,
    \* code
    ByteBits, WordBytes, Programs, GasLimit, MaxHeight, CallGasDivisor, CallValueTransfer,
    CallStipend, Memory, QuadCoeffDiv,
    \* generator
    Account, Slot, Code, Word, AccountRange, SlotRange, Old, GeneratorRoots, MaxMerges,
    MaxRestarts, EarlyAborts,
    \* layers
    TreeAccount, TreeSlot, Layer, Roots, MaxSnapLayers, MaxBlocks,
    \* iterator
    Hash, Depth

VARIABLES part,
    db, mem, crashed, finalised, commitQueue, notifying, task, indexQueue, indexing,
    currentHeader, newHeads, restarts,
    m, frames, refund, result, messageBlocks, txs, steps,
    code, pc, stack, returnStack, status, gas, memory, memoryWordCount, highestMemCost, args,
    root, records, batch, marker, generator, aborted, accounts, slots, first, merges,
    generatorRestarts,
    layers, tree, disk, head, capping, running, blocks,
    lists, iterators, positioned, i, out

nodeVars == <<db, mem, crashed, finalised, commitQueue, notifying, task, indexQueue, indexing,
              currentHeader, newHeads, restarts>>
messageVars == <<m, frames, refund, result, messageBlocks, txs, steps>>
codeVars == <<code, pc, stack, returnStack, status, gas, memory, memoryWordCount,
              highestMemCost, args>>
generatorVars == <<root, records, batch, marker, generator, aborted, accounts, slots, first,
                   merges, generatorRestarts>>
layerVars == <<layers, tree, disk, head, capping, running, blocks>>
iteratorVars == <<lists, iterators, positioned, i, out>>

TheNode == INSTANCE Node WITH MaxRestarts <- MaxNodeRestarts
Messages == INSTANCE Evm WITH
    Slot <- Key, Word <- MessageWord, MaxBlocks <- MaxMessageBlocks, blocks <- messageBlocks
Transactions == INSTANCE Evm WITH
    MaxSteps <- 2, MaxTx <- 2,
    Slot <- Key, Word <- MessageWord, MaxBlocks <- MaxMessageBlocks, blocks <- messageBlocks
Run == INSTANCE Interpreter
Generator == INSTANCE SnapGeneration WITH
    Roots <- GeneratorRoots, pc <- generator, restarts <- generatorRestarts
Layers == INSTANCE SnapTree WITH Account <- TreeAccount, Slot <- TreeSlot
Iterator == INSTANCE FastIterator

-----------------------------------------------------------------------------
MCDifficultyOf == <<1, 1>>
MCTxsOf == << <<1>>, <<2>> >>
MCLogOf == << [address |-> "a", topics |-> <<"x">>], [address |-> "b", topics |-> <<"x", "y">>] >>
MCChains == {<<1, 2, 2, 1, 2>>}
NullTopic == "null"
MCQueries ==
    {[addresses |-> {}, topics |-> <<>>], [addresses |-> {"a"}, topics |-> <<{"x", "y"}>>],
     [addresses |-> {}, topics |-> <<{NullTopic}, {"y"}>>]}

AnAccount(nonce, balance, word, c) ==
    [nonce |-> nonce, balance |-> balance, root |-> [k \in Key |-> word], code |-> c]
MCAccounts ==
    [a \in Address |-> CASE a = "s" -> AnAccount(0, 1, 0, None)
                         [] a = "c" -> AnAccount(1, 1, 1, "code")
                         [] OTHER -> None]

Pushes(s) == <<1, s[1], 1, s[2], 1, s[3], 1, s[4]>>
MCPrograms ==
    UNION {[1 .. n -> 0 .. 13] : n \in 1 .. 4} \cup {Pushes(s) \o <<9>> : s \in [1 .. 4 -> 0 .. 4]}

Record(x, y) == [code |-> 1, slots |-> <<x, y>>]
Root1 == <<Record(1, 0), None, Record(1, 1)>>
Root2 == <<Record(0, 1), Record(1, 1), None>>
Root3 == <<None, Record(0, 0), Record(1, 0)>>
MCGeneratorRoots == {Root1, Root2, Root3}
MCOld == {Root1, Root2}

TreeRecord(x) == [code |-> 1, slots |-> <<x>>]
MCRoots == {<<TreeRecord(0), TreeRecord(0)>>, <<TreeRecord(0), TreeRecord(1)>>,
            <<TreeRecord(0), None>>, <<TreeRecord(1), None>>}

-----------------------------------------------------------------------------
Init ==
    /\ part \in {"node", "messages", "transactions", "code", "generator", "layers", "iterator"}
    /\ TheNode!NodeInit /\ Messages!Init
    /\ Layers!Init /\ (part # "layers" => head = <<TreeRecord(0), None>>)
    /\ IF part = "code" THEN Run!Init
       ELSE /\ code = <<>> /\ pc = 0 /\ stack = <<>> /\ returnStack = <<>> /\ status = "done"
            /\ gas = 0 /\ memory = <<>> /\ memoryWordCount = 0 /\ highestMemCost = 0 /\ args = <<>>
    /\ IF part = "generator" THEN Generator!Init
       ELSE /\ root = Root1 /\ records = None /\ batch = None /\ marker = None
            /\ generator = "stopped" /\ aborted = FALSE /\ accounts = None /\ slots = None
            /\ first = None /\ merges = 0 /\ generatorRestarts = 0
    /\ IF part = "iterator" THEN Iterator!Init
       ELSE lists = None /\ iterators = None /\ positioned = None /\ i = 0 /\ out = <<>>

NodeLoops == part = "node" /\ TheNode!Loops

Next ==
    \/ /\ part = "node" /\ TheNode!NodeNext
       /\ UNCHANGED <<part, messageVars, codeVars, generatorVars, layerVars, iteratorVars>>
    \/ /\ \/ part = "messages" /\ Messages!Next
          \/ part = "transactions" /\ Transactions!Next
       /\ UNCHANGED <<part, nodeVars, codeVars, generatorVars, layerVars, iteratorVars>>
    \/ /\ part = "code" /\ Run!Next
       /\ UNCHANGED <<part, nodeVars, messageVars, generatorVars, layerVars, iteratorVars>>
    \/ /\ part = "generator" /\ Generator!Next
       /\ UNCHANGED <<part, nodeVars, messageVars, codeVars, layerVars, iteratorVars>>
    \/ /\ part = "layers" /\ Layers!Next
       /\ UNCHANGED <<part, nodeVars, messageVars, codeVars, generatorVars, iteratorVars>>
    \/ /\ part = "iterator" /\ Iterator!Next
       /\ UNCHANGED <<part, nodeVars, messageVars, codeVars, generatorVars, layerVars>>

vars == <<part, nodeVars, messageVars, codeVars, generatorVars, layerVars, iteratorVars>>

(* The fairness of NodeSpec: the loops of the node run while they have     *)
(* something to do.                                                        *)
Spec ==
    /\ Init /\ [][Next]_vars
    /\ []<>(part # "node" \/ ~ TheNode!Busy) \/ []<><<NodeLoops>>_nodeVars

-----------------------------------------------------------------------------
(* Subscribers see every head once, in order (BlockchainMonitor).          *)
HeadsAnnouncedInOrder == part = "node" => TheNode!HeadsAnnouncedInOrder

(* The stored blocks form a chain that ends in the head, and the logs of   *)
(* any range are found, indexed or not (Blockchain, BloomBitsFilter).      *)
FilterFindsAll ==
    part = "node" =>
        TheNode!FilterFindsAll /\ TheNode!HeadsAreCanonical /\ TheNode!CanonicalIsChain

(* Blocks that are queued are committed, whatever the indexer does.        *)
CommitLoopAdvances ==
    /\ task # None ~> task = None
    /\ Len(commitQueue) = MaxQueue ~> Len(commitQueue) < MaxQueue

(* A message that fails leaves no trace in the state, nor in what the      *)
(* snapshot tree will be told (EVM.executeMessage, StateManager.revert).   *)
FailureRestores == [][Messages!StepRestores]_messageVars

(* The running code knows its own account, a static call and what it calls *)
(* write nothing, the snapshot of a block matches its trie, messages make  *)
(* no coins (EVM, StateManager); jumps land on instructions, memory is     *)
(* paid for, a callee gets no more gas than was taken, and the arithmetic  *)
(* of signed words is right (Interpreter, opcodes).                        *)
CodeRunsSoundly ==
    /\ part \in {"messages", "transactions"} =>
        /\ Messages!EnvIsFresh /\ Messages!StaticWritesNothing
        /\ Messages!SnapshotMatchesTrie /\ Messages!SupplyNeverGrows
    /\ part = "code" =>
        /\ Run!JumpsLandOnOpcodes /\ Run!MemoryIsPaidFor
        /\ Run!CalleeGasIsCovered /\ Run!ArithmeticIsRight

(* A generation that is done has the records of its root, what is below    *)
(* its marker is right before, every layer answers with the state of its   *)
(* root through flattening and the writes to the disk layer, and the       *)
(* merged iterator yields every hash once, from its topmost layer          *)
(* (SnapGeneration, SnapTree, FastIterator).                               *)
LayersTellTheirRoots ==
    /\ part = "generator" => Generator!GeneratedIsRoot /\ Generator!RightUpToMarker
    /\ part = "layers" => Layers!LayersTellTheirRoots /\ Layers!DiskIsItsRoot
    /\ part = "iterator" => Iterator!YieldsTopmost
=============================================================================
