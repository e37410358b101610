-------------------------------- MODULE Wire --------------------------------
(***************************************************************************)
(* The wire protocol (core/src/protocols/wire/): the handlers of the       *)
(* peers, one for each installation of a version of the protocol, their    *)
(* handshake, the requests and answers they carry, the transactions they   *)
(* announce, and the pool of handlers from which a user takes an idle one. *)
(*                                                                         *)
(* Handlers are numbered as they are made.  The pool is keyed by the peer, *)
(* not by the handler.  Some users take a handler from the pool (bodies),  *)
(* others ask a handler they know (headers, pooled transactions).          *)
(***************************************************************************)
EXTENDS Integers, FiniteSetsExt, SequencesExt

CONSTANTS Peer, User,
          Good,          \* peers of the same network and genesis
          Tx,            \* transactions that enter the pool
          MaxKnown,      \* maxKnownTxs
          MaxQueued,     \* maxQueuedTxs
          MaxHandlers,   \* bound of the model: handlers made
          MaxRequests    \* bound of the model: requests sent

VARIABLES hs,       \* the handlers: their peer, version and state
          idle, busy,   \* HandlerPool: of each peer a handler, or NoHandler
          getters,  \* getterQueue
          user,     \* what each user does, with which handler and which request
          waiting,  \* waitingRequests: of each handler, what each answer resolves
          flight,   \* requests sent and not answered
          asked,    \* number of the last request
          held,     \* handlers with a message that waits for the handshake
          served,   \* handlers that acted for their peer
          pooled,   \* transactions of the pool
          queue,    \* txAnnouncesQueue of each handler
          known     \* _knowTxs of each handler, oldest first

vars == <<hs, idle, busy, getters, user, waiting, flight, asked, held, served, pooled, queue, known>>
pool == <<idle, busy, getters>>
requests == <<waiting, flight, asked>>
announcements == <<pooled, queue, known>>

Handler == 1..MaxHandlers
NoHandler == 0
Kind == {"headers", "bodies"}
Made == 1..Len(hs)
Up(h) == hs[h].st = "up"
InPool(p) == IF idle[p] # NoHandler THEN idle[p] ELSE busy[p]
Free == [st |-> "free", h |-> NoHandler, req |-> 0, got |-> 0]

Init ==
  /\ hs = <<>> /\ idle = [p \in Peer |-> NoHandler] /\ busy = [p \in Peer |-> NoHandler]
  /\ getters = <<>> /\ user = [u \in User |-> Free]
  /\ waiting = [h \in Handler |-> [k \in Kind |-> 0]] /\ flight = {} /\ asked = 0
  /\ held = {} /\ served = {} /\ pooled = {}
  /\ queue = [h \in Handler |-> <<>>] /\ known = [h \in Handler |-> <<>>]

-----------------------------------------------------------------------------
(* The pool. *)
\* addIdleHandler: the first getter in the queue has the handler, or it is idle.
AddIdle_PastGetters(h, b) ==
  /\ idle' = [idle EXCEPT ![hs[h].peer] = h] /\ busy' = b
  /\ UNCHANGED getters
AddIdle(h, b) ==
  IF getters # <<>>
  THEN /\ busy' = [b EXCEPT ![hs[h].peer] = h] /\ getters' = Tail(getters) /\ UNCHANGED idle
  ELSE /\ idle' = [idle EXCEPT ![hs[h].peer] = h] /\ busy' = b /\ UNCHANGED getters
\* The user whose getter the handler h resolves.
Resolved(h) == IF getters # <<>> THEN [user EXCEPT ![Head(getters)] = [Free EXCEPT !.st = "holding", !.h = h]]
               ELSE user
\* remove: whatever handler the pool has of the peer.
Removes(p) == IF idle[p] # NoHandler
             THEN idle' = [idle EXCEPT ![p] = NoHandler] /\ UNCHANGED busy
             ELSE busy' = [busy EXCEPT ![p] = NoHandler] /\ UNCHANGED idle

Get(u) ==
  /\ user[u].st = "free"
  /\ \/ \E p \in Peer :
          /\ idle[p] # NoHandler
          /\ idle' = [idle EXCEPT ![p] = NoHandler] /\ busy' = [busy EXCEPT ![p] = idle[p]]
          /\ user' = [user EXCEPT ![u] = [@ EXCEPT !.st = "holding", !.h = idle[p]]]
          /\ UNCHANGED getters
     \/ /\ \A p \in Peer : idle[p] = NoHandler
        /\ getters' = Append(getters, u) /\ user' = [user EXCEPT ![u].st = "queued"]
        /\ UNCHANGED <<idle, busy>>
  /\ UNCHANGED <<hs, requests, held, served, announcements>>
GetTimeout(u) ==
  /\ user[u].st = "queued"
  /\ \E i \in DOMAIN getters : getters[i] = u /\ getters' = RemoveAt(getters, i)
  /\ user' = [user EXCEPT ![u] = Free]
  /\ UNCHANGED <<hs, idle, busy, requests, held, served, announcements>>
\* put: only if the pool has a busy handler of the peer.
Put(u) ==
  LET h == user[u].h
      p == hs[h].peer
  IN  /\ user[u].st = "answered"
      /\ IF busy[p] # NoHandler
         THEN /\ AddIdle(h, [busy EXCEPT ![p] = NoHandler])
              /\ user' = [Resolved(h) EXCEPT ![u] = Free]
         ELSE UNCHANGED pool /\ user' = [user EXCEPT ![u] = Free]
      /\ UNCHANGED <<hs, requests, held, served, announcements>>

-----------------------------------------------------------------------------
(* A handler is made, shakes hands and is aborted. *)
\* abort: who waits for an answer of a handler in H is told so.
Rejected(H) ==
  [u \in User |-> IF user[u].h \notin H THEN user[u]
                  ELSE IF user[u].st = "asking" THEN [user[u] EXCEPT !.st = "answered", !.req = 0]
                  ELSE IF user[u].st = "direct" THEN Free ELSE user[u]]
Ends(H) == [h \in Made |-> IF h \in H THEN [hs[h] EXCEPT !.st = "down"] ELSE hs[h]]
Aborts(H) ==
  /\ user' = Rejected(H)
  /\ waiting' = [h \in Handler |-> IF h \in H THEN [k \in Kind |-> 0] ELSE waiting[h]]
  /\ flight' = {f \in flight : f.h \notin H}
  /\ held' = held \ H
  /\ queue' = [h \in Handler |-> IF h \in H THEN <<>> ELSE queue[h]]
  /\ UNCHANGED <<asked, served, pooled, known, getters>>
Lives(h) == hs[h].st \in {"shaking", "up"}

\* makeHandler: no v1 beside a v2; a v2, or the same version, takes the place of what was there.
\* The network installs one protocol at a time, and waits for its handshake.
Make(p, v) ==
  LET old == {h \in Made : /\ hs[h].peer = p /\ Lives(h)
                           /\ hs[h].version = v \/ (v = 2 /\ hs[h].version = 1 /\ InPool(p) = h)}
      n == Len(hs) + 1
  IN  /\ n <= MaxHandlers /\ \A h \in Made : hs[h].st # "shaking"
      /\ v = 1 => InPool(p) \notin {h \in Made : hs[h].version = 2}
      /\ hs' = Append(Ends(old), [peer |-> p, version |-> v, st |-> "shaking"])
      /\ Aborts(old)
      /\ IF old # {} THEN Removes(p) ELSE UNCHANGED <<idle, busy>>
\* The status arrives: the handler enters the pool and all pooled transactions are announced.
Limited(q) == SubSeq(q, Max({1, Len(q) - MaxQueued + 1}), Len(q))
\* What is shaken hands with: the same genesis and network.
Accepts(h) == hs[h].peer \in Good
HandshakeResponse(h) ==
  /\ hs[h].st = "shaking"
  /\ IF Accepts(h)
     THEN /\ hs' = [hs EXCEPT ![h].st = "up"]
          /\ AddIdle(h, busy) /\ user' = Resolved(h)
          /\ served' = served \cup (held \cap {h})
          /\ queue' = [queue EXCEPT ![h] = Limited(SetToSeq(pooled))]
     ELSE /\ hs' = [hs EXCEPT ![h].st = "down"]
          /\ UNCHANGED <<pool, user, served, queue>>
  /\ held' = held \ {h}
  /\ UNCHANGED <<requests, pooled, known>>
HandshakeTimeout(h) ==
  /\ hs[h].st = "shaking"
  /\ hs' = [hs EXCEPT ![h].st = "down"]
  /\ held' = held \ {h}
  /\ UNCHANGED <<pool, user, requests, served, announcements>>
\* The peer is disconnected, or banned (it asked for more than the limits), or the stream breaks.
Abort(h) ==
  /\ Lives(h)
  /\ hs' = Ends({h}) /\ Aborts({h}) /\ Removes(hs[h].peer)

-----------------------------------------------------------------------------
(* Requests and messages. *)
\* request: refused while another of the same kind waits; an aborted stream takes it in silence.
Request(u, h, k, st) ==
  IF waiting[h][k] # 0 THEN UNCHANGED requests /\ user' = [user EXCEPT ![u] = IF st = "direct" THEN Free ELSE [@ EXCEPT !.st = "answered"]]
  ELSE /\ asked < MaxRequests /\ asked' = asked + 1
       /\ waiting' = [waiting EXCEPT ![h][k] = asked + 1]
       /\ flight' = flight \cup (IF Up(h) THEN {[h |-> h, kind |-> k, req |-> asked + 1]} ELSE {})
       /\ user' = [user EXCEPT ![u] = [st |-> st, h |-> h, req |-> asked + 1, got |-> 0]]
Ask(u) ==
  /\ user[u].st = "holding"
  /\ Request(u, user[u].h, "bodies", "asking")
  /\ UNCHANGED <<hs, pool, held, served, announcements>>
AskDirectly(u, h) ==
  /\ user[u].st = "free" /\ Up(h)
  /\ Request(u, h, "headers", "direct")
  /\ UNCHANGED <<hs, pool, held, served, announcements>>
\* handle, of an answer: it resolves the request of its kind that waits, if there is one.
Answer(f) ==
  LET n == waiting[f.h][f.kind]
  IN  /\ f \in flight
      /\ flight' = flight \ {f}
      /\ waiting' = [waiting EXCEPT ![f.h][f.kind] = 0]
      /\ user' = [u \in User |-> IF n = 0 \/ user[u].req # n THEN user[u]
                                 ELSE IF user[u].st = "direct" THEN [Free EXCEPT !.got = f.req, !.req = n]
                                 ELSE [user[u] EXCEPT !.st = "answered", !.got = f.req]]
      /\ UNCHANGED <<hs, pool, asked, held, served, announcements>>
\* No answer in 8 seconds.  A user of the pool bans the peer for it; findAncient does not.
Forgets(h, n) == [waiting EXCEPT ![h] = [k \in Kind |-> IF @[k] = n THEN 0 ELSE @[k]]]
RequestTimeout(u) ==
  LET h == user[u].h
  IN  /\ user[u].st \in {"asking", "direct"} /\ user[u].req \in Range(waiting[h])
      /\ IF user[u].st = "direct"
         THEN /\ user' = [user EXCEPT ![u] = Free] /\ waiting' = Forgets(h, user[u].req)
              /\ UNCHANGED <<hs, pool, flight, asked, held, served, announcements>>
         ELSE IF Lives(h)
         THEN hs' = Ends({h}) /\ Aborts({h}) /\ Removes(hs[h].peer)
         ELSE /\ user' = [user EXCEPT ![u] = [@ EXCEPT !.st = "answered", !.req = 0]]
              /\ waiting' = Forgets(h, user[u].req)
              /\ UNCHANGED <<hs, pool, flight, asked, held, served, announcements>>
\* handle, of anything else: it waits for the handshake, and is dropped if that fails.
Message(h) ==
  /\ Lives(h)
  /\ IF Up(h) THEN served' = served \cup {h} /\ UNCHANGED held
     ELSE held' = held \cup {h} /\ UNCHANGED served
  /\ UNCHANGED <<hs, pool, user, requests, announcements>>

-----------------------------------------------------------------------------
(* Announcements. *)
\* knowHash: the oldest are forgotten to make room.
Knows(k, S) ==
  LET fresh == SelectSeq(k, LAMBDA t : t \notin S)
      room == MaxKnown - 1 - Cardinality(S)
  IN  SubSeq(k, Max({1, Len(k) - room + 1}), Len(k)) \o SetToSeq(S \ Range(SubSeq(k, Max({1, Len(k) - room + 1}), Len(k))))
\* A transaction enters the pool and is announced by every handler of the pool.
AddTx(t) ==
  /\ t \notin pooled
  /\ pooled' = pooled \cup {t}
  /\ queue' = [h \in Handler |-> IF h \in Range(idle) \cup Range(busy) /\ Up(h)
                                 THEN Limited(Append(queue[h], t)) ELSE queue[h]]
  /\ UNCHANGED <<hs, pool, user, requests, held, served, known>>
\* txAnnouncesLoop: what the peer does not know of the queue is sent.
Announce(h) ==
  /\ h \in Made /\ Up(h) /\ queue[h] # <<>>
  /\ queue' = [queue EXCEPT ![h] = <<>>]
  /\ known' = [known EXCEPT ![h] = Knows(@, Range(queue[h]) \ Range(@))]
  /\ UNCHANGED <<hs, pool, user, requests, held, served, pooled>>
\* The peer announces a transaction.
PeerAnnounces(h, t) ==
  /\ h \in Made /\ Up(h)
  /\ known' = [known EXCEPT ![h] = Knows(@, {t})]
  /\ served' = served \cup {h}
  /\ UNCHANGED <<hs, pool, user, requests, held, pooled, queue>>

-----------------------------------------------------------------------------
\* What the network, the node's loops and the remote node do.
Environment ==
  \/ \E p \in Peer, v \in {1, 2} : Make(p, v)
  \/ \E u \in User : Get(u) \/ \E h \in Made : AskDirectly(u, h)
  \/ \E h \in Made : Abort(h) \/ Message(h) \/ \E t \in Tx : PeerAnnounces(h, t)
  \/ \E t \in Tx : AddTx(t)
Next ==
  \/ Environment
  \/ \E u \in User : GetTimeout(u) \/ RequestTimeout(u) \/ Put(u) \/ Ask(u)
  \/ \E f \in flight : Answer(f)
  \/ \E h \in Made : HandshakeResponse(h) \/ HandshakeTimeout(h) \/ Announce(h)
\* The timers run out.
Spec == /\ Init /\ [][Next]_vars
        /\ \A u \in User : WF_vars(GetTimeout(u)) /\ WF_vars(RequestTimeout(u))

-----------------------------------------------------------------------------
\* Type of the state.
TypeOK == /\ Range(idle) \cup Range(busy) \subseteq Made \cup {NoHandler}
          /\ \A u \in User : user[u].st \in {"free", "queued", "holding", "asking", "answered", "direct"}

\* No user waits in line while a handler is idle (HandlerPool.get, addIdleHandler), whichever
\* handlers come, go, or come back from a user that held them too long.
GettersServed == getters # <<>> => \A p \in Peer : idle[p] = NoHandler

\* A handler the pool counts as busy is held by a user that will put it back: no handler leaks
\* to a getter that has given up (HandlerPool.get, put).
BusyIsHeld == \A p \in Peer : busy[p] # NoHandler =>
                \E u \in User : user[u].h = busy[p] /\ user[u].st \in {"holding", "asking", "answered"}

\* The node acts for a peer only if it is of the same network and genesis
\* (WireProtocolHandler.handle, handshakeResponse), even for what came before its status.
ServesItsNetwork == \A h \in served : hs[h].peer \in Good

\* Everyone who waits for a handler or an answer is told something in the end
\* (HandlerPool.get, WireProtocolHandler.request, abort).
NobodyHangs == \A u \in User : user[u].st \in {"queued", "asking", "direct"} ~> user[u].st \in {"free", "answered", "holding"}

\* Claim of WireProtocolHandler.request, "Send message to the peer and wait for the response":
\* an answer that comes after the timeout of its request is given to the next one.
AnswersMatch == \A u \in User : user[u].got # 0 => user[u].got = user[u].req

\* Claim of Wire.broadcastNewBlock, "Broadcast new block to all connected peers": the pool it
\* goes through has every handler that is up.
ConnectedAreInPool == \A h \in Made : Up(h) => InPool(hs[h].peer) = h
=============================================================================
