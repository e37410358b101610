------------------------------ MODULE SnapSync ------------------------------
(***************************************************************************)
(* The download of a state (core/src/sync/snap/snapSync.ts, trieSync.ts),  *)
(* with the requests and the pool of the snap protocol's handlers          *)
(* (core/src/protocols/snap).  Account tasks download ranges of accounts,  *)
(* with their code and storage; large storages are split into tasks of     *)
(* their own.  What an answer leaves incomplete is healed: the missing     *)
(* nodes of the trie are requested from the root downwards.  One loop      *)
(* takes callbacks from a channel, and assigns requests to idle peers      *)
(* after each.  Aborted, it saves how far it has come; a later run goes on *)
(* from there, perhaps with another root.                                  *)
(*                                                                         *)
(* Trie nodes are their content: the node of a state, which has a child    *)
(* for each account; the leaf of an account; the storage of an account; a  *)
(* code.  Answers come with proofs, so what is taken from one is true of   *)
(* the root it was asked for.  The records of the snapshot are left out:   *)
(* they are generated again from the trie (SnapGeneration).                *)
(***************************************************************************)
EXTENDS Integers, FiniteSetsExt, SequencesExt, Functions

CONSTANTS Peer,
          MaxHash,        \* hashes of accounts and of slots: 0..MaxHash
          State,          \* of each block: [slots, code] of its accounts, by hash
          NoCode,
          AccountConcurrency, StorageConcurrency,
          CodeRequestSize, HealRequestSize,
          MaxSyncs, MaxCalls,  \* bounds of the model: synchronizations, calls in the channel as a peer joins
          None

VARIABLES db,        \* the nodes in the database
          progress,  \* the tasks saved in it
          target,    \* the block whose state is downloaded
          run,       \* "idle", "running", or "closing": waits for the requests in the air
          tasks,     \* account tasks, by their last hash
          gen,       \* the account tasks' genTrie: leaves
          snapped, healed, finished,
          preRoot,   \* the parent's root is known: "no", "sent", "yes"
          heal,      \* the healer and its TrieSync
          flying,    \* requests without an answer
          channel,
          agenda,    \* what the loop has still to assign after a callback
          idle, busy, stateless,  \* SnapHandlerPool
          syncs

download == <<tasks, gen, snapped, healed, finished, preRoot, heal>>
pool == <<idle, busy, stateless>>
vars == <<db, progress, target, run, download, flying, channel, agenda, pool, syncs>>

Hash == 0..MaxHash
Kind == {"account", "storage", "code", "trieNode"}
EmptyTrie == [k \in Hash |-> 0]
Shared == MaxHash + 1  \* the storage trie of all the tasks that were loaded

-----------------------------------------------------------------------------
(* Nodes. *)
TrieNode(kind, c) == [kind |-> kind, is |-> c]
Leaves(b) == {[hash |-> h, slots |-> State[b][h].slots, code |-> State[b][h].code] : h \in DOMAIN State[b]}
Root(b) == TrieNode("trie", Leaves(b))
Storage(slots) == IF slots = EmptyTrie THEN {} ELSE {TrieNode("storage", slots)}
Code(code) == IF code = NoCode THEN {} ELSE {TrieNode("code", code)}
Parts(x) == CASE x.kind = "trie" -> {TrieNode("leaf", l) : l \in x.is}
              [] x.kind = "leaf" -> Storage(x.is.slots) \cup Code(x.is.code)
              [] OTHER -> {}
\* CheckpointTrie.commit of the accounts put so far.
Committed(leaves) == IF leaves = {} THEN {} ELSE {TrieNode("trie", leaves)} \cup {TrieNode("leaf", l) : l \in leaves}

\* splitRange: at most `concurrency' ranges of what comes after `from' (0 stands for all).
SplitRange(concurrency, from) ==
  LET all == (2 * MaxHash + concurrency) \div (2 * concurrency)
      c == IF from = 0 THEN concurrency ELSE concurrency - from \div all
      step == IF from = 0 THEN all ELSE (MaxHash - from) \div c
      first == IF from = 0 THEN 0 ELSE from + 1
      start(i) == first + (i - 1) * step
  IN  {<<start(i), IF i = c THEN MaxHash ELSE start(i) + step - 1>> : i \in 1..c}
\* Tasks of ranges, by their last hash.
ByLast(ranges, T(_)) == [l \in {r[2] : r \in ranges} |-> T((CHOOSE r \in ranges : r[2] = l)[1])]

-----------------------------------------------------------------------------
(* TrieSync.  A request that has its data waits for the requests of what   *)
(* is missing below it, and is written to the database with the last.      *)
NoHeal == [waits |-> <<>>, got |-> {}, queue |-> {}, pending |-> {}]
Reqs(h) == DOMAIN h.waits
\* schedule: a new request, unless there is one.
Scheduled(h, xs) ==
  [h EXCEPT !.waits = [x \in xs \ Reqs(h) |-> {}] @@ @, !.queue = @ \cup (xs \ Reqs(h))]
SetRoot(h, root, d) == IF root \in d THEN h ELSE Scheduled(h, {root})
\* _commit, from a request upwards.
Commit(hd) ==
  LET ready == {x \in hd.heal.got : hd.heal.waits[x] = {}}
      left == Reqs(hd.heal) \ ready
  IN  [db |-> hd.db \cup ready,
       heal |-> [hd.heal EXCEPT !.got = @ \ ready, !.waits = [x \in left |-> @[x] \ ready]]]
Depth == 3
Commits(hd) == FoldLeft(LAMBDA s, i : Commit(s), hd, [i \in 1..Depth |-> i])
\* process; an account's leaf requests its storage and its code.
Process(hd, x) ==
  IF x \notin Reqs(hd.heal) THEN hd
  ELSE LET missing == Parts(x) \ hd.db
           h == Scheduled(hd.heal, missing)
       IN  Commits([hd EXCEPT !.heal = [h EXCEPT !.got = @ \cup {x}, !.waits[x] = missing]])
\* fillHealTask.
Fill(h) == [h EXCEPT !.pending = @ \cup h.queue, !.queue = {}]
IsCode(x) == x.kind = "code"

-----------------------------------------------------------------------------
(* Account tasks.  needCode, needState and needHeal are the hashes of the  *)
(* accounts of the answer (res) they are set for.                          *)
AccountTask(next) ==
  [next |-> next, req |-> FALSE, res |-> None, cont |-> FALSE, needCode |-> {}, needState |-> {},
   needHeal |-> {}, pending |-> 0, pendingCode |-> {}, pendingState |-> {}, large |-> <<>>,
   tries |-> <<>>, done |-> FALSE]
StorageTask(root, next, trie) ==
  [next |-> next, root |-> root, req |-> FALSE, trie |-> trie, done |-> FALSE]
Account(t, h) == CHOOSE l \in Range(t.res) : l.hash = h
Owing(t) == t.needCode \cup t.needState

\* forwardAccountTask: the accounts before the first that lacks something.
Ready(t) ==
  LET lacks == {i \in DOMAIN t.res : t.res[i].hash \in Owing(t)}
  IN  IF lacks = {} THEN t.res ELSE SubSeq(t.res, 1, Min(lacks) - 1)
\* Mutant: an account whose storage has yet to be healed is put in the trie as well.
Generated_All(t) == Range(Ready(t))
Generated(t) == {l \in Range(Ready(t)) : l.hash \notin t.needHeal}
\* What a callback works on: one task, the trie of accounts and the database.
Forward(s) ==
  LET t == s.task
      ready == Ready(t)
      done == Len(ready) = Len(t.res) /\ ~t.cont
      g == s.gen \cup Generated(t)
  IN  IF t.res = None THEN s
      ELSE [task |-> [t EXCEPT !.res = None, !.done = done,
                               !.next = IF ready = <<>> THEN @ ELSE Last(ready).hash + 1],
            gen |-> g,
            db |-> IF done THEN s.db \cup Committed(g) ELSE s.db]
Forwarded(s) == IF s.task.pending = 0 THEN Forward(s) ELSE s

\* processAccountResponse.
AccountsArrive(s, last, a) ==
  LET own == SelectSeq(a.accounts, LAMBDA l : l.hash <= last)
      code == {l \in Range(own) : Code(l.code) \ s.db # {}}
      state == {l \in Range(own) : Storage(l.slots) \ s.db # {}}
      hashes(ls) == {l.hash : l \in ls}
      resumed == hashes(state) \cap DOMAIN s.task.large
      new(h) == (CHOOSE l \in state : l.hash = h).slots
  IN  Forwarded([s EXCEPT !.task =
        [@ EXCEPT !.req = FALSE, !.res = own,
                  !.cont = a.cont /\ \A l \in Range(a.accounts) : l.hash < last,
                  !.needCode = hashes(code), !.needState = hashes(state), !.needHeal = resumed,
                  !.pending = Cardinality(code) + Cardinality(state),
                  !.pendingCode = {l.code : l \in code}, !.pendingState = hashes(state) \ resumed,
                  !.large = [h \in resumed |-> [k \in DOMAIN @[h] |-> [@[h][k] EXCEPT !.root = new(h)]]]]])

\* The slots of a trie that lie in a range, and slots put into a trie.
Slots(trie, from, to) == [k \in Hash |-> IF k \in from..to THEN trie[k] ELSE 0]
Put(trie, slots) == [k \in Hash |-> IF slots[k] # 0 THEN slots[k] ELSE trie[k]]
Keys(slots) == {k \in Hash : slots[k] # 0}

\* processStorageResponse for whole accounts: the last of them may be cut off, and is then split.
Split(t, h, slots) ==
  LET from == Max(Keys(slots))
      parts == ByLast(SplitRange(StorageConcurrency, from), LAMBDA next : StorageTask(Account(t, h).slots, next, h))
  IN  IF h \in DOMAIN t.large THEN t
      ELSE [t EXCEPT !.large = (h :> [parts EXCEPT ![Min(DOMAIN parts)].next = from + 1]) @@ @,
                     !.tries = (h :> slots) @@ @]
StoragesArrive(s, q, a) ==
  LET n == Len(a.slots)
      given == {q.accounts[i] : i \in 1..n}
      whole == {q.accounts[i] : i \in {j \in 1..n : j < n \/ ~a.cont}}
      cut == given \ whole
      t == [s.task EXCEPT !.pendingState = @ \cup (Range(q.accounts) \ given),
                          !.pending = @ - Cardinality(whole \cap s.task.needState),
                          !.needState = @ \ whole, !.needHeal = @ \cup cut]
  IN  Forwarded([s EXCEPT !.task = IF cut = {} THEN t ELSE Split(t, q.accounts[n], a.slots[n]),
                          !.db = @ \cup UNION {Storage(Account(t, h).slots) : h \in whole}])
\* ... and for a part of a large one.
PartArrives(s, q, a) ==
  LET h == q.accounts[1]
      part == s.task.large[h][q.part]
      own == Slots(a.slots[1], 0, q.part)
      cont == a.cont /\ Keys(a.slots[1]) \cap (q.part..MaxHash) = {}
      trie == Put(s.task.tries[part.trie], own)
      t == [s.task EXCEPT !.large[h][q.part] = IF cont THEN [@ EXCEPT !.req = FALSE, !.next = Max(Keys(own)) + 1]
                                               ELSE [@ EXCEPT !.req = FALSE, !.done = TRUE],
                          !.tries[part.trie] = trie,
                          !.needHeal = IF ~cont /\ trie = part.root THEN @ \ {h} ELSE @]
  IN  Forwarded([s EXCEPT !.task = t, !.db = IF cont THEN @ ELSE @ \cup Storage(trie)])
\* processBytecodeResponse.
CodesArrive(s, q, a) ==
  LET served == {h \in s.task.needCode : Account(s.task, h).code \in a.codes}
  IN  Forwarded([s EXCEPT !.task = [@ EXCEPT !.pendingCode = @ \cup (q.codes \ a.codes),
                                             !.needCode = @ \ served, !.pending = @ - Cardinality(served)],
                          !.db = @ \cup UNION {Code(c) : c \in a.codes}])
\* A request that failed: what was asked for is asked for again.
Reverted(t, q) ==
  CASE q.kind = "account" -> [t EXCEPT !.req = FALSE]
    [] q.kind = "code" -> [t EXCEPT !.pendingCode = @ \cup q.codes]
    [] q.part # None -> [t EXCEPT !.large[q.accounts[1]][q.part].req = FALSE]
    [] OTHER -> [t EXCEPT !.pendingState = @ \cup Range(q.accounts)]

\* cleanStorageTasks: parts that are done, and large storages that have none left.
CleanStorage(s) ==
  LET t == s.task
      open == [h \in DOMAIN t.large |-> {k \in DOMAIN t.large[h] : ~t.large[h][k].done}]
      done == {h \in DOMAIN t.large : open[h] = {}}
      kept == [h \in (DOMAIN t.large) \ done |-> [k \in open[h] |-> t.large[h][k]]]
      c == [s EXCEPT !.task = [t EXCEPT !.large = kept, !.needState = @ \ done,
                                        !.pending = @ - Cardinality(done)]]
  IN  IF done = {} THEN c ELSE Forwarded(c)
\* All tasks, one after the other, work on the same trie and database.
Ids(ts) == SetToSortSeq(DOMAIN ts, <)
AllTasks(s, Op(_)) ==
  FoldLeft(LAMBDA r, id : LET o == Op([task |-> r.tasks[id], gen |-> r.gen, db |-> r.db])
                          IN  [tasks |-> [r.tasks EXCEPT ![id] = o.task], gen |-> o.gen, db |-> o.db],
           s, Ids(s.tasks))
\* cleanAccountTasks.
Undone(ts) == [id \in {i \in DOMAIN ts : ~ts[i].done} |-> ts[id]]

-----------------------------------------------------------------------------
(* The loop. *)
Entries == ({"account", "code", "storage"} \X Hash) \cup ({"healNode", "healCode"} \X {0})
PoolOf(e) == CASE e[1] = "healNode" -> "trieNode" [] e[1] = "healCode" -> "code" [] OTHER -> e[1]
\* The first part of a large storage that is not asked for.
OpenParts(t) == {<<h, k>> \in (DOMAIN t.large) \X Hash : k \in DOMAIN t.large[h] /\ ~t.large[h][k].req}
HealPending(h, code) == {x \in h.pending : IsCode(x) = code}
Wanted(e, ts, h, snap) ==
  IF e[1] \in {"healNode", "healCode"}
  THEN snap /\ HealPending(Fill(h), e[1] = "healCode") # {}
  ELSE e[2] \in DOMAIN ts /\
       LET t == ts[e[2]]
       IN  CASE e[1] = "account" -> ~t.req /\ t.res = None
             [] e[1] = "code" -> t.res # None /\ t.pendingCode # {}
             [] e[1] = "storage" -> t.res # None /\ (OpenParts(t) # {} \/ t.pendingState # {})
\* The entries of a pass over the tasks for which there is work and a peer.
Useful(entries, ts, h, snap, free) == {e \in entries : free[PoolOf(e)] # {} /\ Wanted(e, ts, h, snap)}

\* The loop ends: what is ready is forwarded, everything is committed and the tasks are saved.
Saved(ts) ==
  [id \in DOMAIN ts |->
     [next |-> ts[id].next,
      large |-> [h \in DOMAIN ts[id].large |->
                   [k \in DOMAIN ts[id].large[h] |-> [next |-> ts[id].large[h][k].next, root |-> ts[id].large[h][k].root]]]]]
LargeTries(t) == UNION {{t.tries[t.large[h][k].trie] : k \in DOMAIN t.large[h]} : h \in DOMAIN t.large}
Exits(s) ==
  LET f == AllTasks(s, Forward)
      left == Undone(f.tasks)
  IN  /\ run' = "closing"
      /\ progress' = Saved(left)
      /\ db' = f.db \cup (IF DOMAIN left = {} THEN {} ELSE Committed(f.gen))
                    \cup UNION {UNION {Storage(x) : x \in LargeTries(left[id])} : id \in DOMAIN left}
      /\ tasks' = left /\ gen' = f.gen
      /\ channel' = <<>> /\ agenda' = {}
\* After each callback: clean up, then see whether a phase is over, then assign what there is.
\* The second phase of healing starts without any request when the parent's state is there.
Continues(s, h, pre) ==
  LET c == AllTasks(s, CleanStorage)
      left == Undone(c.tasks)
      snap == snapped \/ (DOMAIN s.tasks # {} /\ DOMAIN left = {})
      over == snap /\ Reqs(h) = {}
      next == over /\ ~healed /\ pre = "yes"
      heal2 == IF next THEN SetRoot(NoHeal, Root(target - 1), c.db) ELSE h
  IN  /\ snapped' = snap /\ preRoot' = pre
      /\ heal' = IF snap THEN Fill(heal2) ELSE heal2
      /\ healed' = (healed \/ next)
      /\ IF over /\ healed
         THEN finished' = TRUE /\ Exits([c EXCEPT !.tasks = left])
         ELSE /\ UNCHANGED <<finished, run, progress>>
              /\ tasks' = left /\ gen' = c.gen /\ db' = c.db
              /\ channel' = Tail(channel)
              /\ agenda' = Useful(Entries, left, heal2, snap, idle)
      /\ UNCHANGED <<target, flying, pool, syncs>>
Now == [tasks |-> tasks, gen |-> gen, db |-> db]

\* The callback of an answer.
Arrive(s, id, q, a) ==
  IF a = None THEN [s EXCEPT !.task = Reverted(s.task, q)]
  ELSE CASE q.kind = "account" -> AccountsArrive(s, id, a)
         [] q.kind = "code" -> CodesArrive(s, q, a)
         [] q.part # None -> PartArrives(s, q, a)
         [] OTHER -> StoragesArrive(s, q, a)
OfTask(id, q, a) ==
  LET o == Arrive([task |-> tasks[id], gen |-> gen, db |-> db], id, q, a)
  IN  [tasks |-> [tasks EXCEPT ![id] = o.task], gen |-> o.gen, db |-> o.db]
HealArrive(q, a) ==
  LET got == IF a = None THEN {} ELSE a.nodes
      h == [heal EXCEPT !.pending = @ \cup (q.nodes \ got)]
  IN  FoldSet(LAMBDA x, hd : Process(hd, x), [heal |-> h, db |-> db], got)
Callback ==
  /\ run = "running" /\ agenda = {} /\ channel # <<>>
  /\ LET m == Head(channel)
     IN  CASE m.kind = "wake" -> Continues(Now, heal, preRoot)
           [] m.kind = "preRoot" -> Continues(Now, heal, "yes")
           [] m.kind = "answer" /\ m.req.kind \in {"healNode", "healCode"} ->
                LET r == HealArrive(m.req, m.res)
                IN  Continues([Now EXCEPT !.db = r.db], r.heal, preRoot)
           [] OTHER -> Continues(OfTask(m.req.task, m.req, m.res), heal, preRoot)

\* The assignment of one entry; which peers are idle is all that chance decides.
RequestFor(e, p) ==
  LET t == tasks[e[2]]
      h == Min({pt[1] : pt \in OpenParts(t)})
      k == Min({pt[2] : pt \in {x \in OpenParts(t) : x[1] = h}})
      own == [kind |-> e[1], peer |-> p, task |-> e[2], root |-> target]
  IN  CASE e[1] = "account" -> own @@ [origin |-> t.next]
        [] e[1] = "code" -> own @@ [codes |-> CHOOSE C \in SUBSET t.pendingCode :
                                                Cardinality(C) = Min({CodeRequestSize, Cardinality(t.pendingCode)})]
        [] e[1] = "storage" /\ OpenParts(t) # {} -> own @@ [accounts |-> <<h>>, part |-> k, origin |-> t.large[h][k].next]
        [] e[1] = "storage" -> own @@ [accounts |-> SetToSortSeq(t.pendingState, <), part |-> None, origin |-> 0]
        [] OTHER -> LET xs == HealPending(Fill(heal), e[1] = "healCode")
                    IN  [kind |-> e[1], peer |-> p,
                         nodes |-> CHOOSE X \in SUBSET xs : Cardinality(X) = Min({HealRequestSize, Cardinality(xs)})]
Taken(t, q) ==
  CASE q.kind = "account" -> [t EXCEPT !.req = TRUE]
    [] q.kind = "code" -> [t EXCEPT !.pendingCode = @ \ q.codes]
    [] q.part # None -> [t EXCEPT !.large[q.accounts[1]][q.part].req = TRUE]
    [] OTHER -> [t EXCEPT !.pendingState = {}]
Order == <<"account", "code", "storage", "healNode", "healCode">>
Before(d, e) == LET at(x) == CHOOSE i \in DOMAIN Order : Order[i] = x[1]
                IN  at(d) < at(e) \/ (d[1] = e[1] /\ d[2] < e[2])
Assign(p) ==
  LET e == CHOOSE x \in agenda : \A y \in agenda : x = y \/ Before(x, y)
      type == PoolOf(e)
      q == RequestFor(e, p)
      healing == e[1] \in {"healNode", "healCode"}
      later == IF healing THEN agenda ELSE agenda \ {e}  \* healing assigns all it can
  IN  /\ agenda # {} /\ p \in idle[type]
      /\ idle' = [idle EXCEPT ![type] = @ \ {p}] /\ busy' = [busy EXCEPT ![type] = @ \cup {p}]
      /\ flying' = flying \cup {q}
      /\ heal' = IF healing THEN [Fill(heal) EXCEPT !.pending = @ \ q.nodes] ELSE heal
      /\ tasks' = IF healing THEN tasks ELSE [tasks EXCEPT ![e[2]] = Taken(@, q)]
      /\ agenda' = Useful(later, tasks', heal', snapped, idle')
      /\ UNCHANGED <<db, progress, target, run, gen, snapped, healed, finished, preRoot, channel, stateless, syncs>>

-----------------------------------------------------------------------------
(* Requests and peers. *)
\* What a peer that has the state may answer; all of it is checked against the root.
Sorted(b, from) == SetToSortSeq({l \in Leaves(b) : l.hash >= from}, LAMBDA x, y : x.hash < y.hash)
AccountAnswers(q) ==
  LET s == Sorted(q.root, q.origin)
  IN  {[accounts |-> SubSeq(s, 1, k), cont |-> k < Len(s)] : k \in IF s = <<>> THEN {0} ELSE 1..Len(s)}
\* Slots up to a limit; an answer without any is taken for one of a peer without the state.
StorageAnswers(q) ==
  LET trie(i) == State[q.root][q.accounts[i]].slots
      upTo(n, k) == [slots |-> [i \in 1..n |-> IF i < n THEN trie(i) ELSE Slots(trie(i), q.origin, k)],
                     cont |-> Keys(trie(n)) \cap (k + 1)..MaxHash # {}]
  IN  {upTo(n, k) : n \in 1..Len(q.accounts), k \in Hash}
Answers(q) ==
  CASE q.kind = "account" -> AccountAnswers(q)
    [] q.kind = "storage" -> {a \in StorageAnswers(q) : Keys(Last(a.slots)) # {}}
    [] q.kind = "code" -> {[codes |-> C] : C \in (SUBSET q.codes) \ {{}}}
    [] OTHER -> {[nodes |-> X] : X \in (SUBSET q.nodes) \ {{}}}
Back(q) == /\ busy' = [busy EXCEPT ![PoolOf(<<q.kind>>)] = @ \ {q.peer}]
           /\ idle' = IF q.peer \in busy[PoolOf(<<q.kind>>)] THEN [idle EXCEPT ![PoolOf(<<q.kind>>)] = @ \cup {q.peer}] ELSE idle
Calls(q, a) == channel' = IF run = "running" THEN Append(channel, [kind |-> "answer", req |-> q, res |-> a]) ELSE channel
Answer(q) ==
  /\ agenda = {} /\ flying' = flying \ {q}
  /\ \E a \in Answers(q) \cup {None} : Calls(q, a)
  /\ Back(q)
  /\ UNCHANGED <<db, progress, target, run, download, agenda, stateless, syncs>>
\* An empty answer: the peer is asked for nothing any more until the synchronization ends.
Without(f, p) == [k \in Kind |-> f[k] \ {p}]
EmptyAnswer(q) ==
  /\ agenda = {} /\ flying' = flying \ {q}
  /\ Calls(q, None)
  /\ idle' = Without(idle, q.peer) /\ busy' = Without(busy, q.peer)
  /\ stateless' = IF \E k \in Kind : q.peer \in idle[k] \cup busy[k] THEN stateless \cup {q.peer} ELSE stateless
  /\ UNCHANGED <<db, progress, target, run, download, agenda, syncs>>
Known(p) == p \in stateless \/ \E k \in Kind : p \in idle[k] \cup busy[k]
Join(p) ==
  /\ agenda = {} /\ ~Known(p) /\ Len(channel) < MaxCalls
  /\ \A q \in flying : q.peer # p
  /\ idle' = [k \in Kind |-> idle[k] \cup {p}]
  /\ channel' = IF run = "running" THEN Append(channel, [kind |-> "wake"]) ELSE channel
  /\ UNCHANGED <<db, progress, target, run, download, flying, agenda, busy, stateless, syncs>>
\* The handler is aborted: its requests fail.
Leave(p) ==
  LET lost == {q \in flying : q.peer = p}
  IN  /\ agenda = {} /\ Known(p)
      /\ idle' = Without(idle, p) /\ busy' = Without(busy, p) /\ stateless' = stateless \ {p}
      /\ flying' = flying \ lost
      /\ channel' = IF run # "running" THEN channel
                    ELSE channel \o [i \in 1..Cardinality(lost) |->
                                       [kind |-> "answer", req |-> SetToSeq(lost)[i], res |-> None]]
      /\ UNCHANGED <<db, progress, target, run, download, agenda, syncs>>

-----------------------------------------------------------------------------
(* The synchronization as a whole. *)
Loaded(saved) ==
  [id \in DOMAIN saved |->
     LET large == saved[id].large
     IN  [AccountTask(saved[id].next) EXCEPT
            !.large = [h \in DOMAIN large |-> [k \in DOMAIN large[h] |-> StorageTask(large[h][k].root, large[h][k].next, Shared)]],
            !.tries = Shared :> EmptyTrie]]
Start(b) ==
  /\ run = "idle" /\ syncs < MaxSyncs
  /\ syncs' = syncs + 1 /\ run' = "running" /\ target' = b
  /\ tasks' = IF progress = None THEN ByLast(SplitRange(AccountConcurrency, 0), AccountTask) ELSE Loaded(progress)
  /\ snapped' = (DOMAIN tasks' = {})
  /\ gen' = {} /\ healed' = FALSE /\ finished' = FALSE /\ preRoot' = "no"
  /\ heal' = SetRoot(NoHeal, Root(b), db)
  /\ channel' = <<[kind |-> "wake"]>>
  /\ UNCHANGED <<db, progress, flying, agenda, pool>>
\* announcePreRoot, by the download of the headers (module Synchronizer).
AnnouncePreRoot ==
  /\ run = "running" /\ agenda = {} /\ preRoot = "no"
  /\ preRoot' = "sent" /\ channel' = Append(channel, [kind |-> "preRoot"])
  /\ UNCHANGED <<db, progress, target, run, tasks, gen, snapped, healed, finished, heal, flying, agenda, pool, syncs>>
Abort ==
  /\ run = "running" /\ agenda = {}
  /\ Exits(Now)
  /\ snapped' = (snapped \/ DOMAIN tasks' = {})
  /\ UNCHANGED <<target, healed, finished, preRoot, heal, flying, pool, syncs>>
\* All requests are answered; clear().
Cleared ==
  /\ target' = 0 /\ run' = "idle" /\ tasks' = <<>> /\ gen' = {} /\ snapped' = FALSE /\ healed' = FALSE
  /\ finished' = FALSE /\ preRoot' = "no" /\ heal' = NoHeal /\ channel' = <<>> /\ agenda' = {}
Close ==
  /\ run = "closing" /\ flying = {}
  /\ Cleared
  /\ idle' = [k \in Kind |-> idle[k] \cup stateless] /\ stateless' = {}
  /\ UNCHANGED <<db, progress, flying, busy, syncs>>
\* The process stops: what is not in the database is gone.
Crash ==
  /\ run # "idle" /\ agenda = {}
  /\ Cleared
  /\ flying' = {} /\ idle' = [k \in Kind |-> {}] /\ busy' = [k \in Kind |-> {}] /\ stateless' = {}
  /\ UNCHANGED <<db, progress, syncs>>

Init ==
  /\ db = {} /\ progress = None /\ target = 0 /\ run = "idle" /\ tasks = <<>> /\ gen = {}
  /\ snapped = FALSE /\ healed = FALSE /\ finished = FALSE /\ preRoot = "no" /\ heal = NoHeal
  /\ flying = {} /\ channel = <<>> /\ agenda = {}
  /\ idle = [k \in Kind |-> {}] /\ busy = [k \in Kind |-> {}] /\ stateless = {} /\ syncs = 0
Next ==
  \/ Callback \/ AnnouncePreRoot \/ Abort \/ Close \/ Crash
  \/ \E b \in (DOMAIN State) \ {0} : Start(b)
  \/ \E q \in flying : Answer(q) \/ EmptyAnswer(q)
  \/ \E p \in Peer : Assign(p) \/ Join(p) \/ Leave(p)
Spec == Init /\ [][Next]_vars

-----------------------------------------------------------------------------
\* Whatever was aborted, lost or cut off, a node in the database has all of what is below it
\* there, an account its storage and code: that is why healing may stop at nodes that are there
\* (TrieSync.addSubTrie, children).
DatabaseIsClosed == \A x \in db : Parts(x) \subseteq db

\* A synchronization that says it has finished has the whole state, and that of the parent.
FinishedIsComplete == finished => Root(target) \in db /\ Root(target - 1) \in db

\* What is asked for or about to be processed.
InAir == flying \cup {channel[i].req : i \in {j \in DOMAIN channel : channel[j].kind = "answer"}}
Asked(kind, id) == {q \in InAir : q.kind = kind /\ q.task = id}
\* No account, storage, code or node that is missing is forgotten: it is waiting to be asked for
\* or is asked for, and the count of what a task waits for is right (the reverts of the
\* process...Response methods, pending).
NothingForgotten == run = "running" =>
  /\ \A id \in DOMAIN tasks :
       LET t == tasks[id]
       IN  /\ t.req <=> Asked("account", id) # {}
           /\ t.res # None =>
                /\ t.pending = Cardinality(t.needCode) + Cardinality(t.needState)
                /\ \A h \in t.needCode : Account(t, h).code \in t.pendingCode \cup UNION {q.codes : q \in Asked("code", id)}
                /\ t.needState \subseteq t.pendingState \cup DOMAIN t.large
                                         \cup UNION {Range(q.accounts) : q \in Asked("storage", id)}
           /\ \A h \in DOMAIN t.large : \A k \in DOMAIN t.large[h] :
                t.large[h][k].req <=> \E q \in Asked("storage", id) : q.part = k /\ q.accounts = <<h>>
  /\ \A x \in Reqs(heal) : \/ x \in heal.queue \cup heal.pending
                           \/ x \in heal.got /\ heal.waits[x] # {}
                           \/ \E q \in InAir : q.kind \in {"healNode", "healCode"} /\ x \in q.nodes

\* A busy peer has a request in the air, so that it comes back.
BusyPeersReturn ==
  \A k \in Kind : \A p \in busy[k] : \E q \in flying : q.peer = p /\ PoolOf(<<q.kind>>) = k
=============================================================================
