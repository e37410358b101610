----------------------------- MODULE MCExchange -----------------------------
(* What a node takes from its peers, as five instances of which a          *)
(* behaviour runs one (part), while the others stay as they begin:         *)
(*  "pool"    two accounts, one of them local, with two transactions each  *)
(*            that cost two slots: room for one of each account and two in *)
(*            all, so that every limit is met; two blocks, which may be    *)
(*            taken back, one write of the journal;                        *)
(*  "journal" the same with one block and two writes of the journal;       *)
(*  "snap"    a state of two accounts, one with a storage that is split,   *)
(*            the other with a code, and the block after it with another   *)
(*            storage; one peer, two synchronizations, crashes;            *)
(*  "split"   the same with the first account only, in a single range, and *)
(*            another slot: two parts of the storage are asked for at a    *)
(*            time;                                                        *)
(*  "gossip"  two nodes at the same height or one apart, in the same round *)
(*            or one apart, a set of validators that grows, two moves of   *)
(*            the state machines and a new connection.                     *)
EXTENDS TxPool, TLC

CONSTANTS
    \* snap
    SnapPeer, MaxHash, NoCode, AccountConcurrency, StorageConcurrency, CodeRequestSize,
    HealRequestSize, MaxSyncs, MaxCalls,
    \* gossip
    Node, Steps, MaxRound, MaxMessages, MaxMoves, MaxLinks

VARIABLES part,
    db, progress, target, run, tasks, gen, snapped, healed, finished, preRoot, heal, flying,
    channel, agenda, idle, busy, stateless, syncs,
    st, rec, up, net, moves, links

snapVars == <<db, progress, target, run, tasks, gen, snapped, healed, finished, preRoot, heal,
              flying, channel, agenda, idle, busy, stateless, syncs>>
gossipVars == <<st, rec, up, net, moves, links>>

-----------------------------------------------------------------------------
Tx(from, nonce, price) ==
    [from |-> from, nonce |-> nonce, price |-> price, cost |-> 1, slots |-> 2]
MCTxs == {Tx(1, 0, 1), Tx(1, 1, 1), Tx(2, 0, 2), Tx(2, 1, 1)}
MCBalance == <<3, 3>>
Journaling == INSTANCE TxPool WITH MaxBlocks <- 1, MaxJournal <- 2

Account(slots, code) == [slots |-> [k \in 0 .. MaxHash |-> slots[k + 1]], code |-> code]
Genesis == 0 :> (1 :> Account(<<0, 1, 0, 0>>, "code"))
Other == 3 :> Account(<<0, 0, 0, 0>>, "code")
Storage(slots) == 1 :> Account(slots, NoCode)
Snap == INSTANCE SnapSync WITH
    Peer <- SnapPeer,
    State <- Genesis @@ <<Storage(<<0, 1, 1, 0>>) @@ Other, Storage(<<0, 1, 2, 0>>) @@ Other>>
Splitting == INSTANCE SnapSync WITH
    Peer <- SnapPeer, AccountConcurrency <- 1,
    State <- Genesis @@ <<Storage(<<0, 1, 1, 1>>), Storage(<<0, 1, 1, 2>>)>>

MCSize == <<2, 3>>
Prevote0(h, i) == [height |-> h, round |-> 0, type |-> "prevote", index |-> i]
Round0(h) == [height : {h}, round : {0}, type : {"prevote", "precommit"}, index : 0 .. MCSize[h] - 1]
At(h, r, step, votes) ==
    [height |-> h, round |-> r, step |-> step, votes |-> votes, proposal |-> None,
     block |-> FALSE, queue |-> <<>>]
MCStart ==
    (0 :> {At(1, 0, 4, {Prevote0(1, 0)}), At(1, 1, 4, Round0(1)), At(2, 0, 1, {})}) @@
    (1 :> {At(1, 0, 6, {Prevote0(1, 1)}), At(2, 0, 4, {Prevote0(2, 2)})})
Votes == INSTANCE Gossip WITH Size <- MCSize, Start <- MCStart

-----------------------------------------------------------------------------
MCInit ==
    /\ part \in {"pool", "journal", "snap", "split", "gossip"}
    /\ Init /\ IF part = "split" THEN Splitting!Init ELSE Snap!Init
    /\ Votes!Init /\ (part # "gossip" => moves = 0 /\ st = [n \in Node |-> CHOOSE s \in MCStart[n] : TRUE])

OnlyPool == UNCHANGED <<part, snapVars, gossipVars>>
OnlySnap == UNCHANGED <<part, vars, gossipVars>>
OnlyGossip == UNCHANGED <<part, vars, snapVars>>
MCNext ==
    \/ part = "pool" /\ Next /\ OnlyPool
    \/ part = "journal" /\ Journaling!Next /\ OnlyPool
    \/ part = "snap" /\ Snap!Next /\ OnlySnap
    \/ part = "split" /\ Splitting!Next /\ OnlySnap
    \/ part = "gossip" /\ Votes!Next /\ OnlyGossip

(* The fairness of Gossip's Spec. *)
Works(n) == part = "gossip" /\ Votes!Works(n) /\ OnlyGossip
MCVars == <<part, vars, snapVars, gossipVars>>
MCSpec == MCInit /\ [][MCNext]_MCVars /\ \A n \in Node : WF_MCVars(Works(n))

-----------------------------------------------------------------------------
(* The lists, the table of all transactions, the limits and the journal of *)
(* the local transactions agree (TxPool).                                  *)
PoolIsConsistent == KnownAreListed /\ PoolIsBounded /\ LocalsAreJournaled

(* What is in the database is whole, a synchronization that has finished   *)
(* has everything, and one that runs forgets nothing and no peer           *)
(* (SnapSync).                                                             *)
DownloadIsWhole ==
    /\ part = "snap" =>
        /\ Snap!DatabaseIsClosed /\ Snap!FinishedIsComplete
        /\ Snap!NothingForgotten /\ Snap!BusyPeersReturn
    /\ part = "split" =>
        /\ Splitting!DatabaseIsClosed /\ Splitting!FinishedIsComplete
        /\ Splitting!NothingForgotten /\ Splitting!BusyPeersReturn

(* No vote is taken for had that is not, and the loop that picks votes     *)
(* sends what it picks (ConsensusProtocolHandler).                         *)
GossipIsSound == part = "gossip" => Votes!RecordIsTrue /\ Votes!GossipNeverSpins

(* A vote that a peer waits for gets there                                 *)
(* (ConsensusProtocolHandler.gossipVotesLoop).                             *)
VotesGetThrough == \A n \in Node : []<>(part = "gossip" => Votes!Delivered(n))
=============================================================================
