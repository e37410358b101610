----------------------------- MODULE BlockSync -----------------------------
(***************************************************************************)
(* Full synchronization (core/src/sync/full/).  The headers of a peer's    *)
(* blocks are downloaded from it in batches, one after the other; the      *)
(* bodies of at most Limit batches at a time from whatever peers the pool  *)
(* gives; and one loop commits the blocks in the order of their batches,   *)
(* which a priority channel restores.  An error aborts all three.          *)
(*                                                                         *)
(* Blocks are their numbers; batch k holds the k-th MaxGetBlockHeaders     *)
(* blocks after the start.  The node's consensus commits blocks meanwhile. *)
(***************************************************************************)
EXTENDS Integers, FiniteSetsExt, SequencesExt

CONSTANTS Peer,
          Honest,             \* peers whose answers are right if they come
          Height,             \* height of every peer's chain
          MaxGetBlockHeaders, \* blocks of one batch
          Limit,              \* downloadBodiesLimit
          MaxSyncs,           \* bound of the model: synchronizations
          None

VARIABLES sched,     \* FullSyncScheduler: "idle", "ancient" (findAncient) or "fetch"
          target,    \* the handler the headers come from
          start,     \* the first block of the fetch
          aborted,   \* BlockSync.aborted
          header,    \* downloadHeaders: "asking", "slot" (waits to start the bodies) or "done"
          nextBatch,
          task,      \* downloadBodies of each batch: what it waits for
          getters,   \* getterQueue of the pool: batches that wait for a handler
          chan,      \* processBlocksChannel: the heap, what is ready, the index reached
          loop,      \* processBlocksLoop: Ended, Waiting or the block it commits next
          error,     \* the loop ended with an error that is the target's fault
          idle, busy, useless, banned,
          head,      \* the node's latest block
          shutdown,  \* scheduler.abort: "no", "called", "done"
          syncs

vars == <<sched, target, start, aborted, header, nextBatch, task, getters, chan, loop, error,
          idle, busy, useless, banned, head, shutdown, syncs>>
pool == <<idle, busy, getters>>

Batch == 0..(Height \div MaxGetBlockHeaders)
First(k) == start + k * MaxGetBlockHeaders
LastOf(k) == Min({Height, First(k) + MaxGetBlockHeaders - 1})
BatchOf(n) == (n - start) \div MaxGetBlockHeaders
Ended == 0
Waiting == -1
Empty == [heap |-> {}, ready |-> <<>>, processed |-> 0]
NoTask == [st |-> "none", peer |-> None]
Done == [st |-> "done", peer |-> None]
Asking(p) == [st |-> "asking", peer |-> p]

Init ==
  /\ sched = "idle" /\ target = None /\ start = 1 /\ aborted = FALSE /\ header = "done"
  /\ nextBatch = 0 /\ task = [k \in Batch |-> NoTask] /\ getters = <<>> /\ chan = Empty
  /\ loop = Ended /\ error = FALSE /\ idle = Peer /\ busy = {} /\ useless = {}
  /\ banned = {} /\ head = 0 /\ shutdown = "no" /\ syncs = 0

-----------------------------------------------------------------------------
(* The parts the handlers are made of. *)
\* _abort: the channel is cleared; dropping a batch resolves the promise its task waits for.
Drops_Nothing(t) == t
Drops(t) == [k \in Batch |-> IF t[k].st = "queued" /\ (k \in chan.heap \/ Contains(chan.ready, k))
                             THEN Done ELSE t[k]]
LoopStopped == IF loop = Waiting THEN Ended ELSE loop
Aborts(t) == /\ aborted' = TRUE /\ chan' = Empty /\ loop' = LoopStopped /\ task' = Drops(t)
Goes(t) == /\ task' = t /\ UNCHANGED <<aborted, chan, loop>>

\* The peer is banned and removed: its handler leaves the pool.
Bans(p) == /\ banned' = banned \cup {p}
           /\ idle' = idle \ {p} /\ busy' = busy \ {p}
\* HandlerPool.put: the first that waits gets the handler.
Puts(p, t) ==
  IF p \notin busy THEN [idle |-> idle, busy |-> busy, getters |-> getters, task |-> t]
  ELSE IF getters = <<>>
  THEN [idle |-> idle \cup {p}, busy |-> busy \ {p}, getters |-> getters, task |-> t]
  ELSE [idle |-> idle, busy |-> busy, getters |-> Tail(getters), task |-> [t EXCEPT ![Head(getters)] = Asking(p)]]

-----------------------------------------------------------------------------
(* The scheduler. *)
FullSync(p) ==
  /\ sched = "idle" /\ shutdown = "no" /\ syncs < MaxSyncs /\ p \in Peer \ banned
  /\ sched' = "ancient" /\ target' = p /\ syncs' = syncs + 1
  /\ UNCHANGED <<start, aborted, header, nextBatch, task, pool, chan, loop, error, useless, banned, head, shutdown>>
\* findAncient fails, the block is known already, or consensus has the votes for it.
NothingToFetch ==
  /\ sched = "ancient"
  /\ sched' = "idle"
  /\ UNCHANGED <<target, start, aborted, header, nextBatch, task, pool, chan, loop, error, useless, banned, head, shutdown, syncs>>
\* The common ancestor is found: the block syncer is reset and the fetch starts.
StartFetch ==
  /\ sched = "ancient" /\ head < Height
  /\ sched' = "fetch" /\ start' = head + 1
  /\ aborted' = FALSE /\ chan' = Empty /\ loop' = Waiting /\ error' = FALSE
  /\ header' = "asking" /\ nextBatch' = 0 /\ task' = [k \in Batch |-> NoTask]
  /\ UNCHANGED <<target, pool, useless, banned, head, shutdown, syncs>>

-----------------------------------------------------------------------------
(* downloadHeaders. *)
HeadersArrive ==
  /\ header = "asking" /\ target \notin banned
  /\ header' = "slot"
  /\ UNCHANGED <<sched, target, start, aborted, nextBatch, task, pool, chan, loop, error, useless, banned, head, shutdown, syncs>>
\* Too few headers ("useless"), headers that do not link, no answer, or the handler is aborted.
HeadersFail(why) ==
  /\ header = "asking"
  /\ why = "abort" <=> target \in banned
  /\ why = "invalid" => target \notin Honest
  /\ header' = "done"
  /\ Aborts(task)
  /\ IF why \in {"invalid", "timeout"} THEN Bans(target) ELSE UNCHANGED <<idle, busy, banned>>
  /\ UNCHANGED <<sched, target, start, nextBatch, getters, error, useless, head, shutdown, syncs>>

Running == {k \in Batch : task[k].st \notin {"none", "done"}}
\* newConcurrency: the bodies of the batch are downloaded once less than Limit are, and the
\* next headers are asked for, unless the fetch is aborted.
StartBodies ==
  /\ header = "slot" /\ Cardinality(Running) < Limit
  /\ nextBatch' = nextBatch + 1
  /\ header' = IF aborted \/ First(nextBatch + 1) > Height THEN "done" ELSE "asking"
  /\ task' = [task EXCEPT ![nextBatch] = IF aborted THEN Done ELSE [st |-> "get", peer |-> None]]
  /\ UNCHANGED <<sched, target, start, aborted, pool, chan, loop, error, useless, banned, head, shutdown, syncs>>

-----------------------------------------------------------------------------
(* downloadBodies. *)
\* pool.get: an idle handler, or a place in the queue.
GetHandler(k) ==
  /\ task[k].st = "get"
  /\ IF idle # {}
     THEN \E p \in idle : /\ idle' = idle \ {p} /\ busy' = busy \cup {p} /\ UNCHANGED getters
                          /\ task' = [task EXCEPT ![k] = Asking(p)]
     ELSE /\ task' = [task EXCEPT ![k].st = "waiting"] /\ getters' = Append(getters, k)
          /\ UNCHANGED <<idle, busy>>
  /\ UNCHANGED <<sched, target, start, aborted, header, nextBatch, chan, loop, error, useless, banned, head, shutdown, syncs>>
\* No handler in 3 seconds: the whole fetch is aborted.
GetterTimeout(k) ==
  /\ \E i \in DOMAIN getters : getters[i] = k /\ getters' = RemoveAt(getters, i)
  /\ Aborts([task EXCEPT ![k] = Done])
  /\ UNCHANGED <<sched, target, start, header, nextBatch, error, idle, busy, useless, banned, head, shutdown, syncs>>

\* PChannel.push: what is in order becomes ready, and goes to the loop if it waits.
Readies(heap) == LET ready == {j \in heap : chan.processed..j \subseteq heap}
                 IN  [i \in 1..Cardinality(ready) |-> chan.processed + i - 1]
Push_Unordered(k) ==
  LET ready == chan.ready \o <<k>>
      takes == loop = Waiting
  IN  /\ chan' = [chan EXCEPT !.ready = IF takes THEN Tail(ready) ELSE ready]
      /\ loop' = IF takes THEN First(Head(ready)) ELSE loop
Push(k) ==
  LET q == Readies(chan.heap \cup {k})
      ready == chan.ready \o q
      takes == loop = Waiting /\ q # <<>>
  IN  /\ chan' = [heap |-> (chan.heap \cup {k}) \ Range(q), processed |-> chan.processed + Len(q),
                  ready |-> IF takes THEN Tail(ready) ELSE ready]
      /\ loop' = IF takes THEN First(Head(ready)) ELSE loop

BodiesArrive(k) ==
  LET p == task[k].peer
      r == Puts(p, [task EXCEPT ![k] = IF aborted THEN Done ELSE [st |-> "queued", peer |-> None]])
  IN  /\ task[k].st = "asking" /\ p \notin banned
      /\ idle' = r.idle /\ busy' = r.busy /\ getters' = r.getters /\ task' = r.task
      /\ IF aborted THEN UNCHANGED <<chan, loop>> ELSE Push(k)
      /\ UNCHANGED <<sched, target, start, aborted, header, nextBatch, error, useless, banned, head, shutdown, syncs>>
\* Bodies are missing, wrong or do not come: the handler is not put back before the end.
BodiesFail(k, why) ==
  LET p == task[k].peer
  IN  /\ task[k].st = "asking"
      /\ why = "abort" <=> p \in banned
      /\ why = "invalid" => p \notin Honest
      /\ useless' = useless \cup {p}
      /\ task' = [task EXCEPT ![k] = IF aborted THEN Done ELSE [st |-> "get", peer |-> None]]
      /\ IF why \in {"invalid", "timeout"} THEN Bans(p) ELSE UNCHANGED <<idle, busy, banned>>
      /\ UNCHANGED <<sched, target, start, aborted, header, nextBatch, getters, chan, loop, error, head, shutdown, syncs>>

-----------------------------------------------------------------------------
(* processBlocksLoop. *)
\* The parent of a block must be there; a block that consensus has committed is skipped.
Processes(n) == head' = IF n = head + 1 THEN n ELSE head
Fails(n) == n > head + 1
\* The batch is done, its task goes on and the loop takes what is ready.
BatchEnds(k) ==
  IF chan.ready = <<>> THEN loop' = Waiting /\ UNCHANGED chan
  ELSE loop' = First(Head(chan.ready)) /\ chan' = [chan EXCEPT !.ready = Tail(@)]
Committing == sched = "fetch" /\ loop > Ended
CommitBlock ==
  LET k == BatchOf(loop)
      resolved == [task EXCEPT ![k] = Done]
  IN  /\ Committing /\ ~Fails(loop)
      /\ Processes(loop)
      /\ IF aborted THEN loop' = Ended /\ task' = resolved /\ UNCHANGED chan
         ELSE IF loop = LastOf(k) THEN BatchEnds(k) /\ task' = resolved
         ELSE loop' = loop + 1 /\ UNCHANGED <<task, chan>>
      /\ UNCHANGED <<sched, target, start, aborted, header, nextBatch, pool, error, useless, banned, shutdown, syncs>>
\* Processing fails: a block of the target is invalid, or its parent is not found.
CommitFails(invalid) ==
  /\ Committing /\ (invalid => target \notin Honest) /\ (~invalid => Fails(loop))
  /\ aborted' = TRUE /\ chan' = Empty /\ loop' = Ended
  /\ task' = Drops([task EXCEPT ![BatchOf(loop)] = Done])
  /\ error' = invalid
  /\ UNCHANGED <<sched, target, start, header, nextBatch, pool, useless, banned, head, shutdown, syncs>>

-----------------------------------------------------------------------------
\* The end of fetch: all batches are done, the loop is stopped, the handlers kept aside are
\* put back and the error is charged to the target.
PutBack(S) == [idle |-> idle \cup (S \cap busy), busy |-> busy \ S]
FetchEnds ==
  LET r == PutBack(useless)
      out == IF error THEN {target} ELSE {}
  IN  /\ sched = "fetch" /\ header = "done" /\ Running = {} /\ loop <= Ended
      /\ sched' = "idle" /\ loop' = Ended /\ chan' = Empty
      /\ idle' = r.idle \ out /\ busy' = r.busy \ out /\ useless' = {}
      /\ banned' = banned \cup out
      /\ error' = FALSE
      /\ UNCHANGED <<target, start, aborted, header, nextBatch, task, getters, head, shutdown, syncs>>

\* Consensus commits the next block itself.
ConsensusCommits ==
  /\ head < Height /\ head' = head + 1
  /\ UNCHANGED <<sched, target, start, aborted, header, nextBatch, task, pool, chan, loop, error, useless, banned, shutdown, syncs>>
\* The node stops: scheduler.abort aborts the block syncer and waits for the synchronization.
Shutdown ==
  /\ shutdown = "no"
  /\ shutdown' = IF sched = "idle" THEN "done" ELSE "called"
  /\ IF sched = "idle" THEN Goes(task) ELSE Aborts(task)
  /\ UNCHANGED <<sched, target, start, header, nextBatch, pool, error, useless, banned, head, syncs>>
ShutdownEnds ==
  /\ shutdown = "called" /\ sched = "idle" /\ shutdown' = "done"
  /\ UNCHANGED <<sched, target, start, aborted, header, nextBatch, task, pool, chan, loop, error, useless, banned, head, syncs>>

-----------------------------------------------------------------------------
\* What ends by itself or with a timeout.
Progress ==
  \/ NothingToFetch \/ StartFetch \/ HeadersArrive
  \/ \E why \in {"useless", "invalid", "timeout", "abort"} : HeadersFail(why)
  \/ StartBodies \/ CommitBlock \/ FetchEnds \/ ShutdownEnds
  \/ \E invalid \in BOOLEAN : CommitFails(invalid)
  \/ \E k \in Batch : \/ GetHandler(k) \/ GetterTimeout(k) \/ BodiesArrive(k)
                      \/ \E why \in {"useless", "invalid", "timeout", "abort"} : BodiesFail(k, why)
Next == Progress \/ Shutdown \/ ConsensusCommits \/ \E p \in Peer : FullSync(p)
Spec == Init /\ [][Next]_vars /\ WF_vars(Progress)

-----------------------------------------------------------------------------
\* Type of the state.
TypeOK ==
  /\ sched \in {"idle", "ancient", "fetch"} /\ idle \subseteq Peer /\ busy \subseteq Peer
  /\ chan.heap \subseteq Batch /\ Range(chan.ready) \subseteq Batch /\ Range(getters) \subseteq Batch

\* Bodies arrive in any order, from any peer, and after retries; still the loop never commits
\* a block before its parent (BlockSync.processBlocks, PChannel).
CommitsInOrder == Committing => loop <= head + 1

\* Every handler a fetch took from the pool is back in it, or banned, when none is running:
\* nothing else would ever return it (useless, put).
HandlersComeBack == sched = "idle" => busy = {} /\ idle \cup banned = Peer

\* A fetch ends (BlockSync.fetch): no task, slot or channel is waited for in vain, whatever fails.
FetchFinishes == sched = "fetch" ~> sched = "idle"

\* Claim of FullSyncScheduler.abort, "Abort sync": once it is called at most the block being
\* committed is still committed by the synchronization.
AbortStops == shutdown = "called" /\ sched = "fetch" => aborted
=============================================================================
