------------------------------ MODULE SnapTree ------------------------------
(***************************************************************************)
(* The tree of snapshot layers (core/src/snap): the layers in memory, each *)
(* the changes of one block over its parent, the layer on disk under them, *)
(* and what the node does with them.  Executing a block adds a layer,      *)
(* committing one discards the layers that do not lead to it and caps the  *)
(* others: the layers beyond the limit are flattened into one, which is    *)
(* merged into the disk layer when it has grown large.  Stopping merges    *)
(* them all, and starting takes the disk layer again or builds it anew.    *)
(*                                                                         *)
(* A layer is an object: the tree maps roots to objects, and an object     *)
(* that has left the tree may still be the parent or the origin of one     *)
(* that has not.  Generating is SnapGeneration's; here a disk layer is     *)
(* complete.                                                               *)
(***************************************************************************)
EXTENDS SnapState

CONSTANTS Layer,            \* the objects, positive integers
          Roots,            \* the states blocks have
          MaxSnapLayers,    \* the argument of cap
          MaxBlocks         \* bound of the model

VARIABLES
  layers,     \* the objects in use: [root, parent, origin, diff, bloom, stale]
  tree,       \* SnapTree.layers: from roots to objects
  disk,       \* [root, records], root None while the batch of diffToDisk is split
  head,       \* the state of the last committed block
  capping,    \* None, or the cap under way: [bottom, child], child 0 if nothing is above
  running,    \* whether the node is
  blocks      \* the blocks executed

vars == <<layers, tree, disk, head, capping, running, blocks>>

DiskLayer(root) == [root |-> root, parent |-> 0, origin |-> 0, diff |-> NoDiff, bloom |-> {}, stale |-> FALSE]
IsDisk(h, l) == h[l].parent = 0
Fresh(h) == Min(Layer \ DOMAIN h)

\* rebloom: the keys a diff touches, <<a, 0>> for the account a itself.
Keys(d) == {<<a, 0>> : a \in d.destructs \cup DOMAIN d.accounts}
           \cup UNION {{<<a, k>> : k \in DOMAIN d.storage[a]} : a \in DOMAIN d.storage}

\* createDiffLayerFromParent.
DiffLayer(h, p, root, d) ==
  [root |-> root, parent |-> p, origin |-> IF IsDisk(h, p) THEN p ELSE h[p].origin,
   diff |-> d, bloom |-> h[p].bloom \cup Keys(d), stale |-> FALSE]

\* The objects from l down to the disk layer.
RECURSIVE Chain(_, _)
Chain(h, l) == <<l>> \o (IF IsDisk(h, l) THEN <<>> ELSE Chain(h, h[l].parent))
\* Only what the tree, or a cap under way, can reach is kept.
Kept(h, t, c) ==
  LET tops == Range(t) \cup (IF c = None THEN {} ELSE {c.bottom, c.child} \ {0})
      below == UNION {ToSet(Chain(h, l)) : l \in tops}
      used == below \cup ({h[l].origin : l \in below} \ {0})
  IN  Restrict(h, used)

-----------------------------------------------------------------------------
\* Reading.

\* accountIterator, and getSerializedAccount of a key the bloom has: the topmost layer
\* that says something.
AccountOf(h, l, a) ==
  LET chain == Chain(h, l)
      says == {i \in DOMAIN chain : LET d == h[chain[i]].diff IN a \in d.destructs \cup DOMAIN d.accounts}
      d == h[chain[Min(says)]].diff
  IN  IF says = {} THEN disk.records.accounts[a]
      ELSE IF a \in DOMAIN d.accounts THEN d.accounts[a] ELSE None

\* storageIterator: no layer below one that destructs the account is asked.
SlotOf(h, l, a, k) ==
  LET chain == Chain(h, l)
      says == {i \in DOMAIN chain : LET d == h[chain[i]].diff
                                    IN a \in d.destructs \/ (a \in DOMAIN d.storage /\ k \in DOMAIN d.storage[a])}
      d == h[chain[Min(says)]].diff
  IN  IF says = {} THEN disk.records.storage[a][k]
      ELSE IF a \in DOMAIN d.storage /\ k \in DOMAIN d.storage[a] THEN d.storage[a][k] ELSE 0

\* getStorage: the destructed accounts are not asked after.
StorageOf(h, l, a, k) ==
  LET chain == Chain(h, l)
      says == {i \in DOMAIN chain : LET d == h[chain[i]].diff IN a \in DOMAIN d.storage /\ k \in DOMAIN d.storage[a]}
  IN  IF says = {} THEN disk.records.storage[a][k] ELSE h[chain[Min(says)]].diff.storage[a][k]

\* Whether getSerializedAccount of l answers, or meets a stale layer: a key the bloom does
\* not have is asked of the origin at once.
Answers(h, l, a) ==
  LET chain == Chain(h, l)
      says == {i \in DOMAIN chain : LET d == h[chain[i]].diff IN a \in d.destructs \cup DOMAIN d.accounts}
      asked == IF <<a, 0>> \in h[l].bloom THEN {chain[i] : i \in 1..(IF says = {} THEN Len(chain) ELSE Min(says))}
               ELSE {IF IsDisk(h, l) THEN l ELSE h[l].origin}
  IN  \A m \in asked : ~h[m].stale

-----------------------------------------------------------------------------
\* Update.

\* update: the executed block's changes, over the layer of its parent.
Execute ==
  /\ running /\ blocks < MaxBlocks
  /\ blocks' = blocks + 1
  /\ \E from \in {head} \cup {r \in DOMAIN tree : ~IsDisk(layers, tree[r]) /\ layers[layers[tree[r]].parent].root = head} :
     \E root \in Roots \ {from} : \E gone \in Destructed(from, root) :
       /\ from \in DOMAIN tree /\ root \notin DOMAIN tree
       /\ LET l == Fresh(layers)
          IN /\ layers' = (l :> DiffLayer(layers, tree[from], root, DiffOf(from, root, gone))) @@ layers
             /\ tree' = (root :> l) @@ tree
  /\ UNCHANGED <<disk, head, capping, running>>

-----------------------------------------------------------------------------
\* Discard and cap.

\* discard.
Discarded(h, t, root) ==
  LET line == IF root \in DOMAIN t THEN ToSet(Chain(h, t[root])) ELSE {}
  IN  Restrict(t, {r \in DOMAIN t : t[r] \in line})

\* flatten merges the changes of a layer into those of the one below it.
Over(low, high) ==
  LET kept(f) == Restrict(f, DOMAIN f \ high.destructs)
  IN  [destructs |-> low.destructs \cup high.destructs,
       accounts |-> high.accounts @@ kept(low.accounts),
       storage |-> [a \in DOMAIN high.storage \cup DOMAIN kept(low.storage) |->
                      IF a \notin DOMAIN high.storage THEN low.storage[a]
                      ELSE IF a \in DOMAIN kept(low.storage) THEN high.storage[a] @@ low.storage[a]
                      ELSE high.storage[a]]]

\* The mutant of Flattened: the destructed accounts of the layers above are not carried.
Flattened_KeepsDestructed(h, l) ==
  LET chain == Front(Chain(h, l))
      merge(low, high) == [Over([low EXCEPT !.destructs = {}], [high EXCEPT !.destructs = {}])
                             EXCEPT !.destructs = low.destructs]
      merged == FoldLeft(merge, h[Last(chain)].diff, Tail(Reverse([i \in DOMAIN chain |-> h[chain[i]].diff])))
  IN  IF Len(chain) = 1 THEN [h |-> h, l |-> l]
      ELSE LET new == [h[l] EXCEPT !.parent = Last(Chain(h, l)), !.origin = Last(Chain(h, l)),
                                   !.diff = merged, !.stale = FALSE]
           IN [h |-> (Fresh(h) :> new) @@ [h EXCEPT ![Last(chain)].stale = TRUE], l |-> Fresh(h)]

\* flatten of l and all the diff layers below it: the lowest is stale then, and so is a
\* result on the way, which nobody has; the layers between keep their parents.
Flattened(h, l) ==
  LET chain == Front(Chain(h, l))
      merged == FoldLeft(Over, h[Last(chain)].diff, Tail(Reverse([i \in DOMAIN chain |-> h[chain[i]].diff])))
  IN  IF Len(chain) = 1 THEN [h |-> h, l |-> l]
      ELSE LET new == [h[l] EXCEPT !.parent = Last(Chain(h, l)), !.origin = Last(Chain(h, l)),
                                   !.diff = merged, !.stale = FALSE]
           IN [h |-> (Fresh(h) :> new) @@ [h EXCEPT ![Last(chain)].stale = TRUE], l |-> Fresh(h)]

\* The layer `depth` - 1 below l, 0 if the disk is reached before.
Below(h, l, depth) == LET chain == Front(Chain(h, l)) IN IF depth > Len(chain) THEN 0 ELSE chain[depth]

\* diffToDisk marks its base before it writes.
BeginMerge(h, t, bottom, child) ==
  LET c == [bottom |-> bottom, child |-> child]
      marked == [h EXCEPT ![h[bottom].parent].stale = TRUE]
  IN  /\ capping' = c /\ tree' = t /\ layers' = Kept(marked, t, c)

\* The last part of cap: layers that are stale or were built on one that is, by root, are
\* removed; what is above the new disk layer takes it as its origin.
Swept(h, t, base) ==
  LET above == [r \in DOMAIN t |-> IF IsDisk(h, t[r]) THEN None ELSE h[h[t[r]].parent].root]
      F[n \in 0..Cardinality(DOMAIN t)] ==
        IF n = 0 THEN {r \in DOMAIN t : h[t[r]].stale}
        ELSE F[n - 1] \cup {r \in DOMAIN t : above[r] \in F[n - 1]}
      left == Restrict(t, DOMAIN t \ F[Cardinality(DOMAIN t)])
      bloomed[l \in DOMAIN h] == IF IsDisk(h, l) THEN {} ELSE bloomed[h[l].parent] \cup Keys(h[l].diff)
      mine == {l \in Range(left) : ~IsDisk(h, l) /\ base \in ToSet(Chain(h, l))}
  IN  [h |-> [l \in DOMAIN h |-> IF l \in mine THEN [h[l] EXCEPT !.origin = base, !.bloom = bloomed[l]] ELSE h[l]],
       t |-> left]

\* doCommitBlock: discard and cap.  Whether the flattened layer is large enough to be
\* merged into the disk layer is left open.
Commit ==
  /\ running /\ capping = None
  /\ \E root \in DOMAIN tree \ {head} :
       LET t == Discarded(layers, tree, root)
           low == Below(layers, tree[root], MaxSnapLayers)
           p == layers[low].parent
           flat == Flattened(layers, p)
           h == [flat.h EXCEPT ![p].stale = TRUE, ![low].parent = flat.l]
           shallow == IF low = 0 THEN TRUE ELSE Len(Chain(layers, p)) <= 2
           replaced == (layers[p].root :> flat.l) @@ t
       IN /\ head' = root
          /\ \/ /\ shallow
                /\ tree' = t /\ layers' = Kept(layers, t, None) /\ UNCHANGED capping
             \/ /\ ~shallow
                /\ \/ LET s == Swept(h, replaced, 0)
                      IN tree' = s.t /\ layers' = Kept(s.h, s.t, None) /\ UNCHANGED capping
                   \/ BeginMerge(h, replaced, flat.l, low)
  /\ UNCHANGED <<disk, running, blocks>>

\* diffToDisk has a batch of its own that it writes whenever it is large, the removal of
\* the root first.
SplitBatch ==
  /\ capping # None /\ disk.root # None
  /\ disk' = [disk EXCEPT !.root = None]
  /\ UNCHANGED <<layers, tree, head, capping, running, blocks>>

\* The rest of diffToDisk and of cap.
EndMerge ==
  /\ capping # None
  /\ LET bottom == capping.bottom
         root == layers[bottom].root
         base == Fresh(layers)
         h == (base :> DiskLayer(root)) @@ [layers EXCEPT ![bottom].stale = TRUE]
         linked == [h EXCEPT ![capping.child].parent = base]
         s == Swept(linked, (root :> base) @@ tree, base)
         gone == [h |-> h, t |-> root :> base]
         end == IF capping.child = 0 THEN gone ELSE s
     IN /\ disk' = [root |-> root, records |-> DiffToDisk(disk.records, layers[bottom].diff, None)]
        /\ tree' = end.t /\ layers' = Kept(end.h, end.t, None)
        /\ running' = (capping.child # 0)
  /\ capping' = None
  /\ UNCHANGED <<head, blocks>>

-----------------------------------------------------------------------------
\* Stopping and starting.

\* abort: discard, and cap with no layers left; journal then writes the disk layer's root,
\* which has nothing above it.
Abort ==
  /\ running /\ capping = None /\ head \in DOMAIN tree
  /\ LET flat == Flattened(layers, tree[head])
     IN IF IsDisk(layers, tree[head])
        THEN /\ running' = FALSE /\ tree' = Discarded(layers, tree, head)
             /\ layers' = Kept(layers, tree', None) /\ UNCHANGED capping
        ELSE BeginMerge(flat.h, Discarded(layers, tree, head), flat.l, 0) /\ UNCHANGED running
  /\ UNCHANGED <<disk, head, blocks>>

Crash ==
  /\ running
  /\ running' = FALSE /\ capping' = None
  /\ UNCHANGED <<layers, tree, disk, head, blocks>>

\* init: loadSnapshot, or rebuild when the root is missing or not the head's.
Start ==
  /\ ~running
  /\ running' = TRUE
  /\ disk' = IF disk.root = head THEN disk ELSE [root |-> head, records |-> Records(head)]
  /\ tree' = (head :> 1) /\ layers' = (1 :> DiskLayer(head))
  /\ UNCHANGED <<head, capping, blocks>>

Init ==
  /\ head \in Roots
  /\ disk = [root |-> head, records |-> Records(head)]
  /\ tree = (head :> 1) /\ layers = (1 :> DiskLayer(head))
  /\ capping = None /\ running = TRUE /\ blocks = 0

Next == Execute \/ Commit \/ SplitBatch \/ EndMerge \/ Abort \/ Crash \/ Start
Spec == Init /\ [][Next]_vars

-----------------------------------------------------------------------------
(* Every layer of the tree tells the accounts and, of the accounts there   *)
(* are, the slots of its own root, as the iterators read them, and answers *)
(* for any account unless the disk layer is being written (accountIterator,*)
(* storageIterator, getSerializedAccount).                                 *)
LayersTellTheirRoots ==
  running => \A r \in DOMAIN tree : \A a \in Account :
    /\ AccountOf(layers, tree[r], a) = r[a]
    /\ r[a] # None => \A k \in Slot : SlotOf(layers, tree[r], a, k) = r[a].slots[k]
    /\ capping = None => Answers(layers, tree[r], a)

(* The head that is committed has a layer, and what is on disk is complete *)
(* for the root it is said to have (commit, init).                         *)
DiskIsItsRoot ==
  /\ running => head \in DOMAIN tree
  /\ disk.root # None => AreOf(disk.records, disk.root)

(* getStorage of a layer tells the slots of its own root: "Get storage     *)
(* data".                                                                  *)
StorageIsItsRoots ==
  running => \A r \in DOMAIN tree : \A a \in Account :
    r[a] # None => \A k \in Slot : StorageOf(layers, tree[r], a, k) = r[a].slots[k]
=============================================================================
