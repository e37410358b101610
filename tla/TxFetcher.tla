------------------------------ MODULE TxFetcher ------------------------------
(***************************************************************************)
(* The transaction fetcher (core/src/txSync.ts).  A hash a peer announced  *)
(* waits for the transaction to arrive by itself, is then announced, is    *)
(* asked for from one of its peers, with the others as alternates, and is  *)
(* forgotten when the pool took the transaction.  Requests are answered,   *)
(* time out or fail, peers leave; a loop takes the announcements and the   *)
(* answers in the order they were queued.                                  *)
(*                                                                         *)
(* A map from hashes to sets of peers is a function; Absent marks a hash   *)
(* without an entry and Undefined an entry without a set, which announced  *)
(* can hold.                                                               *)
(***************************************************************************)
EXTENDS Integers, FiniteSetsExt, SequencesExt

CONSTANTS Peer, Hash,
          MaxTxAnnounces,   \* maxTxAnnounces
          MaxTxRetrievals,  \* maxTxRetrievals
          MaxQueue,         \* bound of the model: announcements waiting for the loop
          MaxAnswers,       \* bound of the model: answers waiting for the loop
          MaxJoins,         \* bound of the model: connections of all peers
          Absent, Undefined \* model values

VARIABLES s,       \* the maps of the fetcher
          queue,   \* newPooledTransactionQueue
          answers, \* enqueueTransactionQueue
          calls,   \* requests sent whose answer, failure or timeout is outstanding
          online, joins,
          pooled,  \* hashes of the transactions the pool took
          panics   \* what panicError has reported

vars == <<s, queue, answers, calls, online, joins, pooled, panics>>

NoRequest == [hashes |-> <<>>, stolen |-> {}, open |-> FALSE]
Init ==
  /\ s = [waiting |-> [h \in Hash |-> {}], announces |-> [p \in Peer |-> {}],
          announced |-> [h \in Hash |-> Absent], fetching |-> [h \in Hash |-> Absent],
          alternates |-> [h \in Hash |-> Absent], requests |-> [p \in Peer |-> NoRequest]]
  /\ queue = <<>> /\ answers = <<>> /\ calls = {} /\ online = {} /\ joins = 0
  /\ pooled = {} /\ panics = {}

IsSet(v) == v # Absent /\ v # Undefined
Slots(f, p) == {h \in Hash : p \in f.waiting[h]}

\* autoDelete and Set.delete: the entry goes with its last element, or stays empty.
AutoDelete(set, p) == IF IsSet(set) /\ set \ {p} = {} THEN Absent
                      ELSE IF IsSet(set) THEN set \ {p} ELSE set

-----------------------------------------------------------------------------
\* dropPeer without its last call, which schedules the fetches again.
Dropped(f, p) ==
  LET open == Range(f.requests[p].hashes) \ f.requests[p].stolen
      alters(h) == f.alternates[h]
      back(h) == h \in open /\ IsSet(alters(h)) /\ alters(h) # {}
  IN  [waiting |-> [h \in Hash |-> f.waiting[h] \ {p}],
       announces |-> [f.announces EXCEPT ![p] = {}],
       announced |-> [h \in Hash |->
          LET v == IF back(h) /\ alters(h) \ {p} # {} THEN alters(h) \ {p} ELSE f.announced[h]
          IN  IF h \in f.announces[p] THEN AutoDelete(v, p) ELSE v],
       fetching |-> [h \in Hash |-> IF h \in open THEN Absent ELSE f.fetching[h]],
       alternates |-> [h \in Hash |-> IF back(h) THEN Absent ELSE alters(h)],
       requests |-> [f.requests EXCEPT ![p] = NoRequest]]

\* What a peer is asked for: the first hashes it announced that nobody fetches.
WantedOf(f, p) ==
  LET free == SetToSeq({h \in f.announces[p] : f.fetching[h] = Absent})
  IN  SubSeq(free, 1, Min({Len(free), MaxTxRetrievals}))

\* One peer of scheduleFetches.
Fetch(r, p) ==
  LET f == r.f
      hashes == WantedOf(f, p)
      H == Range(hashes)
      taken(h) == h \in H /\ f.announced[h] # Absent /\ f.announced[h] # Undefined
      g == [f EXCEPT !.fetching = [h \in Hash |-> IF h \in H THEN p ELSE f.fetching[h]],
                     !.alternates = [h \in Hash |-> IF taken(h) THEN f.announced[h] ELSE @[h]],
                     !.announced = [h \in Hash |-> IF taken(h) THEN Absent ELSE @[h]],
                     !.requests[p] = [hashes |-> hashes, stolen |-> {}, open |-> TRUE]]
  IN  IF f.requests[p].open \/ H = {} THEN r
      ELSE [f |-> IF p \in online THEN g ELSE Dropped(g, p),
            calls |-> IF p \in online THEN r.calls \cup {p} ELSE r.calls,
            panics |-> r.panics \cup {"scheduleFetches" : h \in {k \in H : f.alternates[k] # Absent}}]

ScheduleFetches(f, active) == FoldLeft(Fetch, [f |-> f, calls |-> calls, panics |-> panics], SetToSeq(active))
Announcers(f) == {p \in Peer : f.announces[p] # {}}

Continue(r) == s' = r.f /\ calls' = r.calls /\ panics' = r.panics
Quietly(f) == s' = f /\ UNCHANGED <<calls, panics>>

-----------------------------------------------------------------------------
Announce(p, hashes) ==
  /\ p \in online /\ Len(queue) < MaxQueue
  /\ queue' = Append(queue, [origin |-> p, hashes |-> hashes])
  /\ UNCHANGED <<s, answers, calls, online, joins, pooled, panics>>

\* A hash joins the alternates, the announced hashes or the waiting ones.
AddHash(f, p, h) ==
  CASE IsSet(f.alternates[h]) -> [f EXCEPT !.alternates[h] = @ \cup {p}, !.announces[p] = @ \cup {h}]
    [] ~IsSet(f.alternates[h]) /\ IsSet(f.announced[h]) ->
         [f EXCEPT !.announced[h] = @ \cup {p}, !.announces[p] = @ \cup {h}]
    [] OTHER -> [f EXCEPT !.waiting[h] = @ \cup {p}]

\* newPooledTransactionLoop.
TakeAnnouncement ==
  /\ queue # <<>>
  /\ queue' = Tail(queue)
  /\ LET p == Head(queue).origin
         used == Cardinality(Slots(s, p)) + Cardinality(s.announces[p])
         hs == Head(queue).hashes
         hashes == SubSeq(hs, 1, Min({Len(hs), MaxTxAnnounces - used}))
         f == FoldLeft(LAMBDA g, h : AddHash(g, p, h), s, hashes)
     IN  IF used > MaxTxAnnounces THEN Quietly(s)
         ELSE IF s.announces[p] = {} /\ f.announces[p] # {} THEN Continue(ScheduleFetches(f, {p}))
         ELSE Quietly(f)
  /\ UNCHANGED <<answers, online, joins, pooled>>

\* The timer of rescheduleWait: the hashes that have waited long enough are announced.
WaitEnds(H) ==
  LET peers == UNION {s.waiting[h] : h \in H}
      f == [s EXCEPT !.waiting = [h \in Hash |-> IF h \in H THEN {} ELSE @[h]],
                     !.announced = [h \in Hash |-> IF h \in H THEN s.waiting[h] ELSE @[h]],
                     !.announces = [p \in Peer |-> @[p] \cup {h \in H : p \in s.waiting[h]}]]
      r == ScheduleFetches(f, peers)
  IN  /\ H # {} /\ H \subseteq {h \in Hash : s.waiting[h] # {}}
      /\ s' = r.f /\ calls' = r.calls
      /\ panics' = r.panics \cup {"rescheduleWait" : h \in {k \in H : s.announced[k] # Absent}}
      /\ UNCHANGED <<queue, answers, online, joins, pooled>>

\* The peer answers with some of the transactions it was asked for, or of others.
Answer(p, txs) ==
  /\ p \in calls /\ Len(answers) < MaxAnswers
  /\ calls' = calls \ {p}
  /\ answers' = Append(answers, [origin |-> p, txs |-> txs])
  /\ UNCHANGED <<s, queue, online, joins, pooled, panics>>

\* What the pool took is forgotten everywhere; another peer that is being asked for it
\* has it stolen.
Added(f, p, h) ==
  LET q == f.fetching[h]
  IN  IF f.waiting[h] # {} THEN [f EXCEPT !.waiting[h] = {}]
      ELSE [f EXCEPT !.announces = [r \in Peer |-> @[r] \ {h}],
                     !.announced[h] = Absent, !.alternates[h] = Absent, !.fetching[h] = Absent,
                     !.requests = IF q \in Peer \ {p} /\ f.requests[q].open
                                  THEN [@ EXCEPT ![q].stolen = @ \cup {h}] ELSE @]

\* One hash of the request that was answered.  The delivered hashes are looked up by the
\* identity of their buffers, so none is ever found among those the request asked for.
Settle(r, p, h) ==
  LET f == r.f
      alters == IF IsSet(f.alternates[h]) THEN f.alternates[h] \ {p} ELSE Undefined
      others == \E k \in Hash : f.alternates[k] # Absent
  IN  [f |-> [f EXCEPT !.announces[p] = @ \ {h},
                       !.announced[h] = IF others THEN alters ELSE @,
                       !.alternates[h] = Absent, !.fetching[h] = Absent],
       panics |-> IF others /\ f.announced[h] # Absent
                  THEN r.panics \cup {"enqueueTransactionLoop"} ELSE r.panics]

\* enqueueTransactionLoop; the pool takes some of the transactions it does not know.
TakeAnswer(added) ==
  /\ answers # <<>>
  /\ LET p == Head(answers).origin
         f == FoldLeft(LAMBDA g, h : Added(g, p, h), s, SetToSeq(added))
         req == f.requests[p]
         left == SelectSeq(req.hashes, LAMBDA h : h \notin req.stolen)
         r == FoldLeft(LAMBDA t, h : Settle(t, p, h),
                       [f |-> [f EXCEPT !.requests[p] = NoRequest], panics |-> panics], left)
         n == ScheduleFetches(r.f, Announcers(r.f))
     IN  /\ added \subseteq Head(answers).txs \ pooled
         /\ pooled' = pooled \cup added
         /\ IF ~req.open THEN Quietly(f)
            ELSE s' = n.f /\ calls' = n.calls /\ panics' = n.panics \cup r.panics
  /\ answers' = Tail(answers)
  /\ UNCHANGED <<queue, online, joins>>

\* Mutant of TimedOut: the hashes stay with the peer that did not answer.
TimedOut_KeepsFetching(f, p) ==
  LET H == Range(f.requests[p].hashes) \ f.requests[p].stolen
  IN  [f EXCEPT !.announces[p] = @ \ H, !.requests[p].hashes = <<>>]

\* requestTimeout: the hashes go to the alternates; the request stays, without hashes.
TimedOut(f, p) ==
  LET H == Range(f.requests[p].hashes) \ f.requests[p].stolen
  IN  [f EXCEPT
        !.announced = [h \in Hash |-> IF h \in H
             THEN AutoDelete(IF IsSet(f.alternates[h]) THEN f.alternates[h] ELSE @[h], p) ELSE @[h]],
        !.announces[p] = @ \ H,
        !.alternates = [h \in Hash |-> IF h \in H THEN Absent ELSE @[h]],
        !.fetching = [h \in Hash |-> IF h \in H THEN Absent ELSE @[h]],
        !.requests[p].hashes = <<>>]
Timeout(p) ==
  LET H == Range(s.requests[p].hashes) \ s.requests[p].stolen
      f == TimedOut(s, p)
      r == FoldLeft(Fetch, [f |-> f, calls |-> calls \ {p}, panics |-> panics], SetToSeq(Announcers(f)))
  IN  /\ p \in calls
      /\ IF ~s.requests[p].open THEN s' = s /\ calls' = calls \ {p} /\ panics' = panics
         ELSE /\ s' = r.f /\ calls' = r.calls
              /\ panics' = r.panics \cup {"requestTimeout" : h \in {k \in H : s.announced[k] # Absent}}
      /\ UNCHANGED <<queue, answers, online, joins, pooled>>

DropPeer(p) ==
  LET f == Dropped(s, p)
      r == FoldLeft(Fetch, [f |-> f, calls |-> calls \ {p}, panics |-> panics], SetToSeq(Announcers(f)))
  IN  IF s.requests[p].open THEN Continue(r)
      ELSE s' = f /\ calls' = calls \ {p} /\ UNCHANGED panics

\* The request of a peer that is still connected fails.
Fail(p) == p \in calls /\ DropPeer(p) /\ UNCHANGED <<queue, answers, online, joins, pooled>>

Join(p) ==
  /\ p \notin online /\ joins < MaxJoins
  /\ online' = online \cup {p} /\ joins' = joins + 1
  /\ UNCHANGED <<s, queue, answers, calls, pooled, panics>>
\* The peer is removed from the network first, and the fetcher drops it in the same turn.
Leave(p) ==
  /\ p \in online
  /\ online' = online \ {p}
  /\ LET f == Dropped(s, p)
         Again(r, q) == IF q = p THEN r ELSE Fetch(r, q)
         r == FoldLeft(Again, [f |-> f, calls |-> calls \ {p}, panics |-> panics], SetToSeq(Announcers(f)))
     IN  IF s.requests[p].open THEN Continue(r)
         ELSE s' = f /\ calls' = calls \ {p} /\ UNCHANGED panics
  /\ UNCHANGED <<queue, answers, joins, pooled>>

Next ==
  \/ \E p \in Peer, hs \in {<<h>> : h \in Hash} \cup {SetToSeq(Hash)} : Announce(p, hs)
  \/ TakeAnnouncement
  \/ \E H \in SUBSET Hash : WaitEnds(H)
  \/ \E p \in Peer, T \in SUBSET Hash : Answer(p, T)
  \/ \E T \in SUBSET Hash : TakeAnswer(T)
  \/ \E p \in Peer : Timeout(p) \/ Fail(p) \/ Join(p) \/ Leave(p)

Spec == Init /\ [][Next]_vars

-----------------------------------------------------------------------------
\* A hash is being fetched exactly when one peer has been asked for it and the request
\* still has to settle it; a hash whose peer left or timed out can be asked for again.
FetchedBySomeone ==
  /\ \A h \in Hash : s.fetching[h] # Absent =>
       h \in Range(s.requests[s.fetching[h]].hashes) \ s.requests[s.fetching[h]].stolen
  /\ \A p \in Peer : \A h \in Range(s.requests[p].hashes) \ s.requests[p].stolen : s.fetching[h] = p

\* dropPeer (txSync.ts): "It will clean up all the internal data of the given peer".
GonePeersAreForgotten == \A p \in Peer \ online :
  /\ s.announces[p] = {} /\ ~s.requests[p].open
  /\ \A h \in Hash : p \notin s.waiting[h] /\ s.fetching[h] # p
  /\ \A h \in Hash : /\ IsSet(s.announced[h]) => p \notin s.announced[h]
                     /\ IsSet(s.alternates[h]) => p \notin s.alternates[h]

\* panicError (txSync.ts): a hash does not reach a map that already has it.
NothingPanics == panics = {}
=============================================================================
