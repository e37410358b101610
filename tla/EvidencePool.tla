---------------------------- MODULE EvidencePool ----------------------------
(***************************************************************************)
(* The pool of duplicate-vote evidence of evpool.ts and its database, with *)
(* restarts and crashes between two database writes.                       *)
(*                                                                         *)
(* Evidence is an opaque value with a height.  Every method of the pool    *)
(* holds its lock, so a method is one step unless a crash cuts it short.   *)
(***************************************************************************)
EXTENDS Integers, Sequences, SequencesExt

CONSTANTS
    Evidence,           \* the evidence there is
    HeightOf,           \* HeightOf[ev]: the height of the two votes
    MaxCacheSize,
    MaxAge,             \* maxAgeNumBlocks
    MaxEvidenceCount,   \* evidence per block
    MaxBlocks           \* bound: the last block

ASSUME PoolAssumption ==
    HeightOf \in [Evidence -> Nat] /\ MaxCacheSize \in Nat \ {0} /\ MaxAge \in Nat \ {0}
    /\ MaxEvidenceCount \in Nat \ {0} /\ MaxBlocks \in Nat

VARIABLES
    poolHeight, pruningHeight,
    cache,              \* cachedPendingEvidence, oldest first
    pending, committed, \* the database
    blocks,             \* the evidence in each block of the chain
    torn                \* history: evidence an interrupted update left pending

poolVars == <<poolHeight, pruningHeight, cache, pending, committed, blocks, torn>>

chainHeight == Len(blocks)
Minted == UNION ToSet(blocks)

IsExpiredAt(ev, h) == h - HeightOf[ev] >= MaxAge
Expired(h) == {ev \in Evidence : IsExpiredAt(ev, h)}

(* The members of S in ascending order of their rank.                      *)
InOrder(S, rank) ==
    CHOOSE s \in [1 .. Cardinality(S) -> S] :
        \A i, j \in 1 .. Cardinality(S) : i < j => s[i] # s[j] /\ rank[s[i]] <= rank[s[j]]

(* A pending set in the order of the database keys, for the heights given: *)
(* by height; which of two with the same height comes first depends on     *)
(* their hashes and is left open.                                          *)
LoadPending(P, from, to) == InOrder({ev \in P : HeightOf[ev] \in from .. to}, HeightOf)

AtMost(s, k) == SubSeq(s, 1, IF Len(s) < k THEN Len(s) ELSE k)

(* deleteFromCache: what is left of the cache are the items of S.          *)
Keep(c, S) ==
    LET places == {i \in 1 .. Len(c) : c[i] \in S}
        kept   == InOrder(places, [i \in places |-> i])
    IN  [n \in 1 .. Len(kept) |-> c[kept[n]]]

(* addToCache of distinct items, one after the other: once each; beyond    *)
(* the limit the oldest entries leave.                                     *)
AddToCache(c, evs) ==
    LET longer == c \o Keep(evs, Evidence \ ToSet(c))
    IN  SubSeq(longer, IF Len(longer) > MaxCacheSize THEN Len(longer) - MaxCacheSize + 1 ELSE 1,
               Len(longer))

Prune_TooEarly(h, P) == P \ Expired(h + 1)

(* pruneExpiredPendingEvidence at height h: removes what has expired and   *)
(* comes back when the oldest that is left expires.                        *)
Prune(h, P) == P \ Expired(h)
PruningHeight(h, P) ==
    IF Prune(h, P) = {} THEN h
    ELSE MaxAge + HeightOf[CHOOSE ev \in Prune(h, P) :
                              \A e \in Prune(h, P) : HeightOf[ev] <= HeightOf[e]]

PoolInit ==
    /\ poolHeight = 0 /\ pruningHeight = 0 /\ cache = <<>>
    /\ pending = {} /\ committed = {}
    /\ blocks = <<>> /\ torn = {}

-----------------------------------------------------------------------------
(* addEvidence: from a peer, or from the state machine for votes of the    *)
(* next height.                                                            *)
AddEvidence(ev) ==
    /\ ~ IsExpiredAt(ev, poolHeight)
    /\ ev \notin pending \cup committed
    /\ pending' = pending \cup {ev}
    /\ cache' = AddToCache(cache, <<ev>>)
    /\ UNCHANGED <<poolHeight, pruningHeight, committed, blocks, torn>>

(* What checkEvidence throws at.                                           *)
IsRefused(ev) == IsExpiredAt(ev, poolHeight) \/ HeightOf[ev] > poolHeight \/ ev \in committed

(* The evidence of a block is checked in order, up to the first item that  *)
(* is refused or repeated; what passes stays in the pool.                  *)
PassedBefore(s) ==
    LET bad == {i \in 1 .. Len(s) : IsRefused(s[i]) \/ \E j \in 1 .. i - 1 : s[j] = s[i]}
    IN  IF bad = {} THEN s ELSE SubSeq(s, 1, Min(bad) - 1)

CheckEvidence(s) ==
    LET new == ToSet(PassedBefore(s)) \ pending
    IN  /\ pending' = pending \cup new
        /\ cache' = AddToCache(cache, Keep(PassedBefore(s), new))
        /\ UNCHANGED <<poolHeight, pruningHeight, committed, blocks, torn>>

PickEvidence_OneTooOld(h) ==
    IF h = 0 THEN <<>>
    ELSE AtMost(LoadPending(pending, IF h > MaxAge THEN h - MaxAge ELSE 0, h),
                MaxEvidenceCount)

(* pickEvidence(height, count) for the block after h.                      *)
PickEvidence(h) ==
    IF h = 0 THEN <<>>
    ELSE AtMost(LoadPending(pending, IF h + 1 > MaxAge THEN h + 1 - MaxAge ELSE 0, h),
                MaxEvidenceCount)

(* A block that this node has checked and the other validators accept      *)
(* (no evidence of an earlier block) is put into the database.             *)
PutBlock(evs) ==
    /\ chainHeight = poolHeight
    /\ chainHeight < MaxBlocks
    /\ evs \subseteq pending \ Minted
    /\ Cardinality(evs) <= MaxEvidenceCount
    /\ \A ev \in evs : ~ IsRefused(ev)
    /\ blocks' = Append(blocks, evs)
    /\ UNCHANGED <<poolHeight, pruningHeight, cache, pending, committed, torn>>

(* What update leaves pending and cached at height h, once the evidence in *)
(* done has become committed and has been removed.                         *)
Update(h, done) ==
    LET left    == pending \ done
        prunes  == h >= pruningHeight
        kept    == IF prunes THEN Prune(h, left) ELSE left
    IN  /\ poolHeight' = h
        /\ committed' = committed \cup done
        /\ pending' = kept
        /\ pruningHeight' = IF prunes THEN PruningHeight(h, left) ELSE pruningHeight
        /\ cache' = Keep(cache, Evidence \ (done \cup (left \ kept)))
        /\ UNCHANGED <<blocks, torn>>

(* engine.newBlock: evidence that is committed already is not touched.     *)
NewBlock ==
    /\ poolHeight < chainHeight
    /\ Update(poolHeight + 1, blocks[poolHeight + 1] \ committed)

(* init at the latest block: prunes, and caches from the newest down.      *)
Restarted(P) ==
    LET left == Prune(chainHeight, P)
        newest == Reverse(LoadPending(left, 0, chainHeight + 1))
    IN  /\ poolHeight' = chainHeight
        /\ pending' = left
        /\ pruningHeight' = PruningHeight(chainHeight, P)
        /\ cache' = AtMost(newest, MaxCacheSize)
        /\ UNCHANGED blocks

(* The node stops between two methods: if the update of the latest block   *)
(* has not run, it never will.                                             *)
CrashBetween == Restarted(pending) /\ UNCHANGED <<committed, torn>>

(* The node stops within update: some of the block's evidence is done, and *)
(* one may be committed and not yet removed.                               *)
CrashInUpdate ==
    /\ poolHeight < chainHeight
    /\ \E done \in SUBSET (blocks[chainHeight] \ committed), half \in blocks[chainHeight] \ committed :
          /\ half \notin done
          /\ committed' = committed \cup done \cup {half}
          /\ torn' = torn \cup {half}
          /\ Restarted(pending \ done)

PoolNext ==
    \/ \E ev \in Evidence : AddEvidence(ev)
    \/ \E s \in SeqOf(Evidence, MaxEvidenceCount) : CheckEvidence(s)
    \/ \E evs \in SUBSET Evidence : PutBlock(evs)
    \/ NewBlock
    \/ CrashBetween
    \/ CrashInUpdate

PoolSpec == PoolInit /\ [][PoolNext]_poolVars

-----------------------------------------------------------------------------
(* Heights are ordered, and the database holds evidence.                   *)
PoolTypeOK ==
    /\ poolHeight \in 0 .. chainHeight /\ chainHeight <= MaxBlocks
    /\ pruningHeight \in Nat
    /\ pending \subseteq Evidence /\ committed \subseteq Evidence
    /\ Len(cache) <= MaxCacheSize

(* What is broadcast from the cache is pending in the database, once: no   *)
(* order of adding, checking, pruning and restarting leaves a cached item  *)
(* behind.                                                                 *)
CacheIsPending == ToSet(cache) \subseteq pending /\ IsInjective(cache)

(* Evidence that is committed is no longer pending, unless a crash came    *)
(* between the two writes: update never returns to it.                     *)
CommittedNotPending == pending \cap committed \subseteq torn

(* The evidence this node proposes for the next block passes its own       *)
(* checkEvidence: the window of heights that pickEvidence reads is the one *)
(* that isExpired and "future evidence" leave, although expired evidence   *)
(* may linger in the database until the pruning height.                    *)
PickedPasses ==
    poolHeight = chainHeight =>
        \A ev \in ToSet(PickEvidence(poolHeight)) : IsRefused(ev) => ev \in torn

(* What the node proposes is acceptable, what it broadcasts is pending and *)
(* what is committed is neither, unless a crash tore an update: all three  *)
(* of the above (pickEvidence, addToCache, update).                        *)
PickedIsAcceptable == PickedPasses /\ CacheIsPending /\ CommittedNotPending

(* Evidence leaves the database only when it is committed or has expired.  *)
StepKeepsEvidence ==
    \A ev \in pending \ pending' : ev \in committed' \/ IsExpiredAt(ev, poolHeight')
EvidenceKept == [][StepKeepsEvidence]_poolVars

(* update is documented to "be called when a new block is minted": once    *)
(* the pool is at the height of the chain, the evidence of every block is  *)
(* committed, and none of it is picked for another block.                  *)
MintedIsCommitted == poolHeight = chainHeight => Minted \subseteq committed
=============================================================================
