----------------------------- MODULE MCNetwork -----------------------------
(* How a node meets others and catches up with them, as eight instances of *)
(* which a behaviour runs one (part), while the others stay as they begin: *)
(*  "network"    one peer of the address book, one protocol of two         *)
(*               versions, one connection, two streams, one message        *)
(*               waiting;                                                  *)
(*  "discovery"  a peer that discv5 finds, one version, one stream;        *)
(*  "overflow"   send queues that overflow, and a peer that is not found   *)
(*               but connects itself;                                      *)
(*  "nodes"      two nodes with two addresses each, two sequence numbers;  *)
(*  "blocks"     two peers of which one is honest, four blocks in batches  *)
(*               of two, two downloads at a time, two synchronizations;    *)
(*  "wire"       two peers of which one is of another network, two users,  *)
(*               two handlers, two requests;                               *)
(*  "announcing" the same with one request and a transaction;              *)
(*  "sync"       three peers of which one is honest, a chain of three      *)
(*               blocks, one trusted block, one announcement waiting.      *)
EXTENDS Integers, Sequences, FiniteSets, TLC

CONSTANTS
    None,
    \* network, busy
    NetworkPeer, Groups, MaxConns, MaxStreams,
    \* nodes
    NodeOrder, IP, MaxSeq,
    \* blocks
    BlockPeer, HonestPeer, Height, MaxGetBlockHeaders, Limit, MaxSyncs,
    \* wire
    User, Good, Tx, MaxKnown, MaxQueued, MaxHandlers, MaxRequests,
    \* sync
    SyncPeer, HonestAnnouncer, Mode, Trusted, MaxHeight, SnapSyncMinTD, StaleNumber,
    TrustedStaleNumber, RetryLimit, MaxAnnounced

\* What is not there is no address (NodeDB).
ASSUME NoneIsNoAddress == None \notin IP

\* No more than two announcers lie (Synchronizer.confirmAnn asks two others to agree).
ASSUME FewLiars ==
    /\ IsFiniteSet(SyncPeer \ HonestAnnouncer)
    /\ Cardinality(SyncPeer \ HonestAnnouncer) <= 2

\* Snap peers are peers, heights are numbers (Synchronizer).
ASSUME SyncConstants ==
    HonestAnnouncer \subseteq SyncPeer /\ Trusted \in Nat /\ MaxHeight \in Nat

\* A chain has a height, a batch a block (BlockSync).
ASSUME BlockConstants == Height \in Nat /\ MaxGetBlockHeaders \in Nat \ {0}

\* Bounds of the model (Wire).
ASSUME WireConstants == MaxHandlers \in Nat /\ MaxRequests \in Nat

VARIABLES part,
    up, opened, peers, entry, streams, dropping, queue, cur, banned, static, discovered,
    outbound, dialing, reaper, phase,
    enr, pong, checking, seeds, storedSeq, me, clock,
    sched, target, start, aborted, header, nextBatch, task, getters, chan, loop, error,
    idle, busy, useless, fetchBanned, head, shutdown, syncs,
    hs, wireIdle, wireBusy, wireGetters, user, waiting, flight, asked, held, served, pooled,
    announceQueue, known,
    mode, top, syncHead, announcements, syncLoop, full, snap, headerSync, saved, syncShutdown

networkVars == <<up, opened, peers, entry, streams, dropping, queue, cur, banned, static,
                 discovered, outbound, dialing, reaper, phase>>
nodeVars == <<enr, pong, checking, seeds, storedSeq, me, clock>>
blockVars == <<sched, target, start, aborted, header, nextBatch, task, getters, chan, loop,
               error, idle, busy, useless, fetchBanned, head, shutdown, syncs>>
wireVars == <<hs, wireIdle, wireBusy, wireGetters, user, waiting, flight, asked, held, served,
              pooled, announceQueue, known>>
syncVars == <<mode, top, syncHead, announcements, syncLoop, full, snap, headerSync, saved,
              syncShutdown>>

TheNetwork == INSTANCE Network WITH
    Peer <- NetworkPeer, Static <- {}, Book <- NetworkPeer, Announced <- {},
    MaxConnections <- 1, MaxMessages <- 1, Overflows <- FALSE
Discovering == INSTANCE Network WITH
    Peer <- NetworkPeer, Static <- {}, Book <- {}, Announced <- NetworkPeer,
    Groups <- << <<"v1">> >>, MaxStreams <- 1,
    MaxConnections <- 1, MaxMessages <- 1, Overflows <- FALSE
Overflowing == INSTANCE Network WITH
    Peer <- NetworkPeer, Static <- {}, Book <- {}, Announced <- {},
    MaxConnections <- 1, MaxMessages <- 1, Overflows <- TRUE
Nodes == INSTANCE NodeDB
Blocks == INSTANCE BlockSync WITH
    Peer <- BlockPeer, Honest <- HonestPeer, banned <- fetchBanned
TheWire == INSTANCE Wire WITH
    Peer <- BlockPeer, idle <- wireIdle, busy <- wireBusy, getters <- wireGetters,
    queue <- announceQueue
Sync == INSTANCE Synchronizer WITH
    Peer <- SyncPeer, Honest <- HonestAnnouncer, V2 <- SyncPeer, SnapPeer <- HonestAnnouncer, head <- syncHead,
    chan <- announcements, loop <- syncLoop, header <- headerSync, shutdown <- syncShutdown

-----------------------------------------------------------------------------
MCGroups == << <<"v2", "v1">> >>
MCNodeOrder == <<1, 2>>

-----------------------------------------------------------------------------
Init ==
    /\ part \in {"network", "discovery", "overflow", "nodes", "blocks", "wire", "announcing", "sync"}
    /\ IF part = "discovery" THEN Discovering!Init ELSE TheNetwork!Init
    /\ Nodes!Init /\ Blocks!Init /\ TheWire!Init
    /\ Sync!Init /\ (part # "sync" => mode = "full")

OnlyNetwork == UNCHANGED <<part, nodeVars, blockVars, wireVars, syncVars>>
OnlyNodes == UNCHANGED <<part, networkVars, blockVars, wireVars, syncVars>>
OnlyBlocks == UNCHANGED <<part, networkVars, nodeVars, wireVars, syncVars>>
OnlyWire == UNCHANGED <<part, networkVars, nodeVars, blockVars, syncVars>>
OnlySync == UNCHANGED <<part, networkVars, nodeVars, blockVars, wireVars>>

(* Bound: no transactions in "wire", one request in "announcing".          *)
NothingAnnounced == pooled = {} /\ \A h \in DOMAIN known : known[h] = <<>>

Next ==
    \/ part = "network" /\ TheNetwork!Next /\ OnlyNetwork
    \/ part = "discovery" /\ Discovering!Next /\ OnlyNetwork
    \/ part = "overflow" /\ Overflowing!Next /\ OnlyNetwork
    \/ part = "nodes" /\ Nodes!Next /\ OnlyNodes
    \/ part = "blocks" /\ Blocks!Next /\ OnlyBlocks
    \/ part = "wire" /\ TheWire!Next /\ NothingAnnounced' /\ OnlyWire
    \/ part = "announcing" /\ TheWire!Next /\ asked' <= 1 /\ OnlyWire
    \/ part = "sync" /\ Sync!Next /\ OnlySync

vars == <<part, networkVars, nodeVars, blockVars, wireVars, syncVars>>

(* The fairness of each module's Spec.  As part does not change, the       *)
(* fairness of a disjunction over the parts is that of the part that runs. *)
Timers(u) ==
    /\ part \in {"wire", "announcing"}
    /\ TheWire!GetTimeout(u) \/ TheWire!RequestTimeout(u)
FirstUser == CHOOSE u \in User : TRUE
OtherUsers == User \ {FirstUser}
Goes ==
    \/ part = "network" /\ TheNetwork!Progress /\ OnlyNetwork
    \/ part = "discovery" /\ Discovering!Progress /\ OnlyNetwork
    \/ part = "overflow" /\ Overflowing!Progress /\ OnlyNetwork
    \/ part = "blocks" /\ Blocks!Progress /\ OnlyBlocks
    \/ Timers(FirstUser) /\ OnlyWire
    \/ part = "sync" /\ Sync!Works /\ OnlySync
GoesToo ==
    \/ (\E u \in OtherUsers : Timers(u)) /\ OnlyWire
    \/ part = "sync" /\ Sync!Syncs /\ OnlySync
PicksPeer == part = "sync" /\ Sync!RandomPick /\ OnlySync
Spec == Init /\ [][Next]_vars /\ WF_vars(Goes) /\ WF_vars(GoesToo) /\ SF_vars(PicksPeer)

-----------------------------------------------------------------------------
(* A banned peer and one without a connection are about to be removed, and *)
(* a live handler is the one its peer's entry names, as long as no send    *)
(* queue overflows (Network).                                              *)
PeersAreConsistent ==
    /\ part \in {"network", "discovery", "overflow"} =>
        TheNetwork!BannedPeersGo /\ TheNetwork!NoGhosts
    /\ part \in {"network", "discovery"} => TheNetwork!LiveAreEntered

(* The deletion of a node takes its answers with it, and a seed has        *)
(* answered from the address of its record (NodeDB).                       *)
RecordsMatchAnswers == [][Nodes!AnswersGoToo /\ Nodes!SeedsAnswered]_nodeVars

(* Blocks are committed after their parents in whatever order their bodies *)
(* arrive, and a fetch returns the handlers it took (BlockSync).           *)
FetchIsOrderly ==
    part = "blocks" => Blocks!CommitsInOrder /\ Blocks!HandlersComeBack

(* Nobody waits in line while a handler is idle, busy handlers are held,   *)
(* and only peers of the same network are served (HandlerPool, Wire).      *)
PoolIsFair ==
    part \in {"wire", "announcing"} =>
        TheWire!GettersServed /\ TheWire!BusyIsHeld /\ TheWire!ServesItsNetwork

(* A state is downloaded only of a block that enough peers confirm         *)
(* (Synchronizer).                                                         *)
RootIsHonest == part = "sync" => Sync!RootIsHonest

(* The abort of the network, a fetch of blocks, and whoever waits for a    *)
(* handler or an answer: what is waited for.                               *)
Waits(u) ==
    \/ part \in {"network", "discovery", "overflow"} /\ phase \in {"aborting", "stopping"}
    \/ part = "blocks" /\ sched = "fetch"
    \/ part \in {"wire", "announcing"} /\ user[u].st \in {"queued", "asking", "direct"}

(* No one waits for ever: AbortEnds, FetchFinishes and NobodyHangs         *)
(* (NetworkManager.abort, BlockSync.fetch, HandlerPool.get,                *)
(* WireProtocolHandler.request).                                           *)
NothingHangs == \A u \in User : Waits(u) ~> ~ Waits(u)

(* A node that is behind starts to synchronize (Synchronizer).             *)
BehindSyncs ==
    part = "sync" /\ mode = "full" /\ syncHead < top
        ~> full # 0 \/ syncHead = top \/ syncShutdown # "no"
=============================================================================
