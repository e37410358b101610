------------------------------- MODULE TxPool -------------------------------
(***************************************************************************)
(* The transaction pool (core/src/txpool): one nonce-sorted map of pending *)
(* and one of queued transactions per account, the map of all known        *)
(* transactions, the list ordered by price that makes room when the pool   *)
(* is full, and the journal of the local accounts' transactions.           *)
(*                                                                         *)
(* A transaction is a record of sender, nonce, gas price, cost and slots.  *)
(* The pool's lock makes every operation one step; the journal has a lock  *)
(* of its own and is rotated in two.  Time is left out: any queue may      *)
(* expire and the accounts' queues are truncated in any order.             *)
(***************************************************************************)
EXTENDS Integers, FiniteSetsExt, SequencesExt

CONSTANTS Address,        \* the senders, naturals (the order of the maps)
          Locals,         \* the accounts this node can unlock
          Txs,            \* the transactions that may appear
          Balance,        \* of each account
          FreeStaking,    \* the hard fork that stops filtering by balance
          PriceLimit, PriceBump, AccountSlots, GlobalSlots, AccountQueue, GlobalQueue,
          MaxBlocks, MaxJournal,        \* bounds of the model
          None            \* a model value: no cached list, no pending nonce

VARIABLES pool,     \* accounts, all transactions, the priced list and its counters
          chain,    \* the blocks of the canonical chain, as sets of transactions
          journal   \* the file, the copy a rotation took, the insertions it delays

vars == <<pool, chain, journal>>

SlotsOf(S) == MapThenSumSet(LAMBDA t : t.slots, S)
ByNonce(S) == SetToSortSeq(S, LAMBDA s, t : s.nonce < t.nonce)
StateNonce(ch, a) == Cardinality({t \in UNION Range(ch) : t.from = a})

-----------------------------------------------------------------------------
\* TxSortedMap: a set of transactions with different nonces, and the cached list.

NewMap == [txs |-> {}, cache |-> None]
Has(m, n) == \E t \in m.txs : t.nonce = n
Cost(t) == t.cost

\* What is removed from the map leaves the front, or the end, of the cached list.
CutFront(m, S) == [txs |-> m.txs \ S,
                   cache |-> IF m.cache = None THEN None
                             ELSE SubSeq(m.cache, Cardinality(S) + 1, Len(m.cache))]
CutEnd(m, S) == [txs |-> m.txs \ S,
                 cache |-> IF m.cache = None THEN None
                           ELSE SubSeq(m.cache, 1, Len(m.cache) - Cardinality(S))]

\* The heap is read from its lowest nonce: back removes everything or nothing.
BackOf(m, n) == IF \A t \in m.txs : t.nonce >= n THEN m.txs ELSE {}
ForwardOf(m, n) == {t \in m.txs : t.nonce < n}
ResizeOf(m, size) == {t \in m.txs : Cardinality({s \in m.txs : s.nonce < t.nonce}) >= size}
ReadyOf(m, n) == {t \in m.txs : /\ t.nonce >= n
                                /\ \A s \in m.txs : s.nonce >= n
                                /\ \A k \in n .. t.nonce : Has(m, k)}
FilteredOf(m, balance) == {t \in m.txs : Cost(t) > balance}
InvalidOf(m, S) == {t \in m.txs \ S : \E s \in S : s.nonce < t.nonce}

Push(m, t) ==
  LET old == {s \in m.txs : s.nonce = t.nonce}
  IN  IF \E s \in old : t.price * 100 < (PriceBump + 100) * s.price
      THEN [inserted |-> FALSE, old |-> {}, map |-> m]
      ELSE [inserted |-> TRUE, old |-> old,
            map |-> [txs |-> (m.txs \ old) \cup {t}, cache |-> None]]

DeleteNonce(m, n, strict) ==
  IF ~Has(m, n) THEN m
  ELSE [txs |-> {t \in m.txs : t.nonce # n /\ ~(strict /\ t.nonce > n)}, cache |-> None]

ToList(m) == IF m.cache = None THEN ByNonce(m.txs) ELSE m.cache

-----------------------------------------------------------------------------
\* TxPricedList.  Nothing calls its put: the heap is what the last reheap found.

Removed(p, n) ==
  IF 4 * (p.stales + n) <= Cardinality(p.remotes) THEN [p EXCEPT !.stales = @ + n]
  ELSE [p EXCEPT !.stales = 0, !.remotes = p.txs]

Cheapest(S) == CHOOSE t \in S : \A s \in S : t.price <= s.price
Cheaper(S, t) == {s \in S : s.price < t.price \/ (s.price = t.price /\ s # t /\ s = Cheapest({s, t}))}

\* The stale transactions at the top of the heap are dropped.
WithoutStaleTop(p) ==
  LET stale == {t \in p.remotes : t \notin p.txs /\ \A s \in p.remotes \cap p.txs : t \in Cheaper(p.remotes, s)}
  IN  [p EXCEPT !.remotes = @ \ stale, !.stales = @ - Cardinality(stale)]
Underpriced(p, t) == p.remotes # {} /\ Cheapest(p.remotes).price > t.price

\* The cheapest transactions, until they free the slots asked for.
DiscardOf(p, slots) ==
  {t \in p.remotes : SlotsOf(Cheaper(p.remotes, t) \cap p.txs) < slots}

-----------------------------------------------------------------------------
\* TxPool.

NewAccount == [pending |-> NewMap, queue |-> NewMap, nonce |-> None]
NewPool == [acc |-> [a \in Address |-> NewAccount], txs |-> {}, remotes |-> {}, stales |-> 0, slots |-> 0]
Forget(p, S) == [p EXCEPT !.txs = @ \ S]
WithoutEmpty(p, a) ==
  IF p.acc[a].pending.txs = {} /\ p.acc[a].queue.txs = {} THEN [p EXCEPT !.acc[a] = NewAccount] ELSE p

UpdateNonce(p, a, n, lower) ==
  LET old == p.acc[a].nonce
  IN  IF old = None THEN [p EXCEPT !.acc[a].nonce = n]
      ELSE IF (lower /\ old > n) \/ (~lower /\ old < n) THEN [p EXCEPT !.acc[a].nonce = n] ELSE p
PendingNonce(p, ch, a) == IF p.acc[a].nonce = None THEN StateNonce(ch, a) ELSE p.acc[a].nonce

Enqueue(p, t) ==
  LET r == Push(p.acc[t.from].queue, t)
  IN  [p EXCEPT !.acc[t.from].queue = r.map,
                !.txs = IF r.inserted THEN (@ \cup {t}) \ r.old ELSE @]
EnqueueAll(p, S) == FoldLeft(Enqueue, p, ByNonce(S))

Promote(p, t) ==
  LET r == Push(p.acc[t.from].pending, t)
      q == [p EXCEPT !.acc[t.from].pending = r.map,
                     !.txs = IF r.inserted THEN (@ \cup {t}) \ r.old ELSE @]
  IN  UpdateNonce(q, t.from, t.nonce + 1, FALSE)

Valid(ch, t) ==
  /\ t.from \in Locals \/ t.price >= PriceLimit
  /\ t.nonce >= StateNonce(ch, t.from)
  /\ Cost(t) <= Balance[t.from]

PromoteAccount(p, ch, a) ==
  LET queue == p.acc[a].queue
      old == ForwardOf(queue, StateNonce(ch, a))
      q1 == CutFront(queue, old)
      poor == IF FreeStaking THEN {} ELSE FilteredOf(q1, Balance[a])
      q2 == IF poor = {} THEN q1 ELSE [txs |-> q1.txs \ poor, cache |-> None]
      ready == ReadyOf(q2, PendingNonce(p, ch, a))
      q3 == CutFront(q2, ready)
      p1 == [Forget(p, old \cup poor) EXCEPT !.acc[a].queue = q3,
                                             !.acc[a].nonce = PendingNonce(p, ch, a)]
      p2 == FoldLeft(Promote, p1, ByNonce(ready))
      over == IF a \in Locals THEN {} ELSE ResizeOf(q3, AccountQueue)
      p3 == [Forget(p2, over) EXCEPT !.acc[a].queue = CutEnd(q3, over)]
  IN  IF queue.txs = {} THEN p
      ELSE WithoutEmpty(Removed(p3, Cardinality(old) + Cardinality(poor) + Cardinality(over)), a)

Ascending(S) == SetToSortSeq(S, <)
PromoteExecutables(p, ch, A) == FoldLeft(LAMBDA q, a : PromoteAccount(q, ch, a), p, Ascending(A))

\* Room for t: the discarded transactions leave the map of all transactions, their
\* nonces the lists of the sender of t.
MakeRoom(p, t) ==
  LET drop == DiscardOf(p, p.slots - (GlobalSlots + GlobalQueue))
      live == drop \cap p.txs
      Delete(q, d) ==
        [Forget(q, {d}) EXCEPT
           !.acc[t.from].pending = DeleteNonce(@, d.nonce, TRUE),
           !.acc[t.from].queue = DeleteNonce(@, d.nonce, FALSE)]
      p1 == [p EXCEPT !.remotes = @ \ drop, !.stales = @ - Cardinality(drop \ live)]
  IN  FoldSet(LAMBDA d, q : Delete(q, d), p1, live)

\* Slots are counted as they come and never given back; beyond the limit and all the
\* transactions there are, a larger count makes no difference.
Count(n) == Min({n, GlobalSlots + GlobalQueue + SlotsOf(Txs)})

\* One transaction of _addTxs: the pool, the addresses to promote, the results.
NotAdded(s) == [s EXCEPT !.results = Append(@, FALSE)]
Placed(s, t) ==
  LET replaces == Has(s.pool.acc[t.from].pending, t.nonce)
      p == IF replaces THEN Promote(s.pool, t) ELSE Enqueue(s.pool, t)
  IN  [pool |-> [p EXCEPT !.slots = Count(@ + t.slots)],
       dirty |-> IF ~replaces /\ t \in p.txs THEN s.dirty \cup {t.from} ELSE s.dirty,
       results |-> Append(s.results, TRUE),
       local |-> IF t.from \in Locals THEN Append(s.local, t) ELSE s.local]
Squeezed(s, t) ==
  IF Underpriced(s.pool, t) THEN NotAdded(s) ELSE Placed([s EXCEPT !.pool = MakeRoom(@, t)], t)
AddOne(s, ch, t) ==
  CASE t \in s.pool.txs \/ ~Valid(ch, t) -> NotAdded(s)
    [] t.slots + Cardinality(s.pool.txs) > GlobalSlots + GlobalQueue ->
         Squeezed([s EXCEPT !.pool = WithoutStaleTop(@)], t)
    [] OTHER -> Placed(s, t)

Promoted(s, ch, force) ==
  [s EXCEPT !.pool = PromoteExecutables(@, ch, IF force THEN Address ELSE s.dirty)]
AddTxsTo(p, ch, ts, force) ==
  Promoted(FoldLeft(LAMBDA r, t : AddOne(r, ch, t),
                    [pool |-> p, dirty |-> {}, results |-> <<>>, local |-> <<>>], ts), ch, force)

\* Mutant of DemoteAccount: what follows a gap stays pending.
DemoteAccount_KeepsGap(p, ch, a) ==
  LET old == ForwardOf(p.acc[a].pending, StateNonce(ch, a))
  IN  WithoutEmpty([Forget(p, old) EXCEPT !.acc[a].pending = CutFront(@, old)], a)

DemoteAccount(p, ch, a) ==
  LET pending == p.acc[a].pending
      old == ForwardOf(pending, StateNonce(ch, a))
      m1 == CutFront(pending, old)
      poor == IF FreeStaking THEN {} ELSE FilteredOf(m1, Balance[a])
      invalid == InvalidOf(m1, poor)
      m2 == IF poor = {} THEN m1 ELSE [txs |-> m1.txs \ (poor \cup invalid), cache |-> None]
      gap == IF Has(m2, StateNonce(ch, a)) THEN {} ELSE m2.txs
      p1 == [Forget(p, old \cup poor) EXCEPT !.acc[a].pending = CutEnd(m2, gap)]
      p2 == Removed(EnqueueAll(p1, invalid), Cardinality(old) + Cardinality(poor))
  IN  IF pending.txs = {} THEN p ELSE WithoutEmpty(EnqueueAll(p2, gap), a)

PendingSlots(p) == FoldFunction(+, 0, [a \in Address |-> SlotsOf(p.acc[a].pending.txs)])
QueueSlots(p) == FoldFunction(+, 0, [a \in Address |-> SlotsOf(p.acc[a].queue.txs)])

DropLast(p, a) ==
  LET pending == p.acc[a].pending
      last == ResizeOf(pending, Cardinality(pending.txs) - 1)
      p1 == [Forget(p, last) EXCEPT !.acc[a].pending = CutEnd(pending, last)]
  IN  Removed(UpdateNonce(p1, a, (CHOOSE t \in last : TRUE).nonce, TRUE), 1)

\* The offenders lose a transaction each until the last of them is down to the floor.
RECURSIVE Level(_, _, _)
Level(p, offenders, floor) ==
  IF PendingSlots(p) <= GlobalSlots \/ SlotsOf(p.acc[Last(offenders)].pending.txs) <= floor THEN p
  ELSE Level(FoldLeft(DropLast, p, offenders), offenders, floor)

TruncatePending(p) ==
  LET Size(a) == SlotsOf(p.acc[a].pending.txs)
      offenders == SetToSortSeq({a \in Address : Size(a) > AccountSlots},
                                LAMBDA a, b : Size(a) > Size(b) \/ (Size(a) = Size(b) /\ a < b))
      Levelled == FoldLeft(LAMBDA q, k : Level(q, SubSeq(offenders, 1, k - 1), Size(offenders[k])),
                           p, [k \in 1 .. Len(offenders) - 1 |-> k + 1])
  IN  IF PendingSlots(p) <= GlobalSlots \/ offenders = <<>> THEN p
      ELSE Level(Levelled, offenders, AccountSlots)

\* The queues of the accounts that are not local, in the order given.
TruncateQueue(p, order) ==
  LET Clip(q, a) ==
        LET m == q.acc[a].queue
            excess == QueueSlots(q) - GlobalQueue
            over == IF QueueSlots(q) - SlotsOf(m.txs) >= GlobalQueue THEN m.txs
                    ELSE ResizeOf(m, Cardinality(m.txs) - excess)
        IN  IF excess <= 0 \/ a \in Locals \/ m.txs = {} THEN q
            ELSE Removed([Forget(q, over) EXCEPT !.acc[a].queue =
                            [txs |-> m.txs \ over, cache |-> None]], Cardinality(over))
  IN  FoldLeft(Clip, p, order)
Truncate(p, order) == TruncateQueue(TruncatePending(p), order)

-----------------------------------------------------------------------------
\* The journal: an insertion waits for the lock a rotation holds.

\* Mutant of Insert: the journal's lock is not taken.
Insert_WithoutLock(j, ts) == [j EXCEPT !.file = @ \o ts]
Insert(j, ts) == IF j.copy = None THEN [j EXCEPT !.file = @ \o ts] ELSE [j EXCEPT !.late = @ \o ts]

\* local() appends the queued transactions to the list of the pending ones it was
\* given, which is the map's cached list.
LocalList(m, q) == ToList(m) \o (IF q.txs = {} THEN <<>> ELSE ToList(q))
LocalTxs(p) == FlattenSeq([i \in 1 .. Cardinality(Locals) |->
                 LET a == Ascending(Locals)[i] IN LocalList(p.acc[a].pending, p.acc[a].queue)])
CachedLists(p) ==
  [p EXCEPT !.acc = [a \in Address |->
     LET r == p.acc[a]
     IN  IF a \in Locals
         THEN [r EXCEPT !.pending.cache =
                           IF r.pending.txs = {} THEN @ ELSE LocalList(r.pending, r.queue),
                        !.queue.cache = IF r.queue.txs = {} THEN @ ELSE ToList(r.queue)]
         ELSE r]]

-----------------------------------------------------------------------------
Orders == SetToSeqs(Address \ Locals)
Init == pool = NewPool /\ chain = <<>> /\ journal = [file |-> <<>>, copy |-> None, late |-> <<>>]

\* What was added is truncated, and its local transactions go to the journal j.
Taken(r, j, order) ==
  /\ Len(j.file) + Len(j.late) + Len(r.local) <= MaxJournal
  /\ pool' = Truncate(r.pool, order)
  /\ journal' = Insert(j, r.local)

AddTxs(ts, order) == Taken(AddTxsTo(pool, chain, ts, FALSE), journal, order) /\ UNCHANGED chain

\* A block may hold, of each sender, the transactions that follow its nonce.
CanFollow(ch, B) == \A a \in Address :
  {t.nonce : t \in {s \in B : s.from = a}}
    = StateNonce(ch, a) .. StateNonce(ch, a) + Cardinality({s \in B : s.from = a}) - 1

\* The chain keeps its first blocks and gets new ones; the transactions of the others
\* that were not included again are put back.
NewBlock(keep, bs, force, order) ==
  LET ch == SubSeq(chain, 1, keep) \o bs
      discarded == IF force THEN {} ELSE UNION Range(SubSeq(chain, keep + 1, Len(chain)))
      reinject == discarded \ UNION Range(bs)
      p1 == FoldSet(LAMBDA t, p : UpdateNonce(p, t.from, t.nonce, TRUE), pool, reinject)
      senders == {t.from : t \in reinject}
      Requeued(a) == BackOf(p1.acc[a].pending, PendingNonce(p1, ch, a))
      p2 == [p1 EXCEPT !.acc = [a \in Address |->
               IF a \in senders THEN [p1.acc[a] EXCEPT !.pending = CutFront(@, Requeued(a))]
               ELSE p1.acc[a]],
             !.txs = @ \ UNION {Requeued(a) : a \in senders}]
      again == ByNonce(reinject) \o FlattenSeq([i \in 1 .. Cardinality(senders) |->
                                      ByNonce(Requeued(Ascending(senders)[i]))])
      Demoted(p) == FoldLeft(LAMBDA q, a : DemoteAccount(q, ch, a), p, Ascending(Address))
  IN  /\ Len(chain) < Len(ch) /\ Len(ch) <= MaxBlocks
      /\ \A i \in 1 .. Len(bs) : CanFollow(SubSeq(ch, 1, keep + i - 1), bs[i])
      /\ chain' = ch
      /\ Taken([AddTxsTo(p2, ch, again, TRUE) EXCEPT !.pool = Demoted(@)], journal, order)

\* timeoutLoop: the queue has been idle for the lifetime of a transaction.
Expire(a) ==
  /\ pool.acc[a].queue.txs # {}
  /\ pool' = [Forget(pool, pool.acc[a].queue.txs) EXCEPT !.acc[a].queue = NewMap]
  /\ UNCHANGED <<chain, journal>>

RotateBegin ==
  /\ journal.copy = None
  /\ journal' = [journal EXCEPT !.copy = LocalTxs(pool)]
  /\ pool' = CachedLists(pool)
  /\ UNCHANGED chain
RotateEnd ==
  /\ journal.copy # None
  /\ journal' = [file |-> journal.copy \o journal.late, copy |-> None, late |-> <<>>]
  /\ UNCHANGED <<pool, chain>>

\* The worker and the wire handler read the list of the pending transactions.
ReadPending(a) ==
  /\ pool.acc[a].pending.txs # {}
  /\ pool' = [pool EXCEPT !.acc[a].pending.cache = ToList(pool.acc[a].pending)]
  /\ UNCHANGED <<chain, journal>>

\* The node stops and its journal is loaded again.
Restart(order) ==
  /\ pool # NewPool
  /\ Taken(AddTxsTo(NewPool, chain, journal.file, FALSE),
           [file |-> journal.file, copy |-> None, late |-> <<>>], order)
  /\ UNCHANGED chain

Next ==
  \/ \E t \in Txs, order \in Orders : AddTxs(<<t>>, order)
  \/ \E keep \in 0 .. Len(chain), bs \in {<<B>> : B \in SUBSET Txs} \cup {<<{t}, {}>> : t \in Txs},
        force \in BOOLEAN, order \in Orders : NewBlock(keep, bs, force, order)
  \/ \E a \in Address : Expire(a) \/ ReadPending(a)
  \/ RotateBegin \/ RotateEnd
  \/ \E order \in Orders : Restart(order)

Spec == Init /\ [][Next]_vars

-----------------------------------------------------------------------------
\* What an account has pending can be executed in order on the newest block: the
\* nonces start at the account's nonce and have no gap.
PendingIsExecutable == \A a \in Address :
  LET pending == pool.acc[a].pending.txs
  IN  {t.nonce : t \in pending}
        = StateNonce(chain, a) .. StateNonce(chain, a) + Cardinality(pending) - 1

\* The limits bind whenever an account could still give way: the queues do not exceed
\* theirs unless only local accounts queue, the pending lists unless each is small.
PoolIsBounded ==
  /\ QueueSlots(pool) <= GlobalQueue
       \/ \A a \in Address \ Locals : pool.acc[a].queue.txs = {}
  /\ PendingSlots(pool) <= GlobalSlots
       \/ \A a \in Address : SlotsOf(pool.acc[a].pending.txs) <= AccountSlots

\* A crash does not lose a local account's transaction: every one that is in the pool
\* is in the journal, or waits for the rotation that is writing it.
LocalsAreJournaled == \A a \in Locals :
  (pool.acc[a].pending.txs \cup pool.acc[a].queue.txs) \cap pool.txs
    \subseteq Range(journal.file) \cup Range(journal.late)

\* toList (txmap.ts): "Return a list of transactions, order by nonce".
ListsAreOrdered == \A a \in Address : ToList(pool.acc[a].pending) = ByNonce(pool.acc[a].pending.txs)

\* The pool knows what its accounts list and nothing else, and lists no two transactions
\* of an account with one nonce, nor one transaction twice.
KnownAreListed ==
  LET Pending(a) == pool.acc[a].pending.txs
      Queue(a) == pool.acc[a].queue.txs
  IN  /\ pool.txs = UNION {Pending(a) \cup Queue(a) : a \in Address}
      /\ \A a \in Address : \A t \in Queue(a) : ~Has(pool.acc[a].pending, t.nonce)

\* A queued transaction that the account's nonce has reached becomes pending.
NextIsPending == \A a \in Address : \A t \in pool.acc[a].queue.txs : t.nonce # StateNonce(chain, a)
=============================================================================
