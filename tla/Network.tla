------------------------------ MODULE Network ------------------------------
(***************************************************************************)
(* The network manager and its peers (network/src/network.ts, peer.ts).    *)
(* Connections come and go by themselves; every change of the table of     *)
(* peers is a message in one queue, and one loop handles the messages,     *)
(* waiting in the middle of them for streams, handshakes and the end of    *)
(* old streams.  A loop dials peers, another removes those without a       *)
(* protocol, and a stream ends when its other side or its connection does. *)
(*                                                                         *)
(* Code that waits for nothing external runs before anything else happens, *)
(* as JavaScript does: the continuations have precedence (Ready).          *)
(***************************************************************************)
EXTENDS Integers, FiniteSetsExt, SequencesExt

CONSTANTS Peer,
          Groups,         \* protocols: sequences of alternatives
          Static,         \* the static peers at the start
          Book,           \* peers of libp2p's address book
          Announced,      \* peers discv5 finds
          MaxConnections, \* libp2p.maxConnections
          MaxConns,       \* bound of the model: connections of one peer, ever
          MaxStreams,     \* bound of the model: protocols piped, ever
          MaxMessages,    \* bound of the model: messages waiting
          Overflows,      \* send queues may overflow
          None

VARIABLES up,         \* the open connections: pairs of a peer and a number
          opened,     \* connections each peer has had
          peers,      \* _peers
          entry,      \* the protocols of each Peer: the stream installed
          streams,    \* every ProtocolStream piped so far, with its handler
          dropping,   \* streams whose queue overflowed and whose end is awaited
          queue,      \* channel
          cur,        \* the message being handled and where its handler waits
          banned, static, discovered,
          outbound,   \* outboundHistory, by expiry
          dialing,    \* the peer the dial loop waits for
          reaper,     \* the peer the removal loop waits for
          phase       \* "running", "aborting", "stopping", "stopped"

vars == <<up, opened, peers, entry, streams, dropping, queue, cur, banned, static,
          discovered, outbound, dialing, reaper, phase>>
table == <<peers, entry>>
loops == <<static, discovered, outbound, dialing, reaper>>

Protocol == UNION {Range(Groups[g]) : g \in DOMAIN Groups}
Idle == [kind |-> "idle", peer |-> None]
NoEntry == [q \in Protocol |-> 0]
Conns(p) == {c \in up : c[1] = p}

Init ==
  /\ up = {} /\ opened = [p \in Peer |-> 0] /\ peers = {}
  /\ entry = [p \in Peer |-> NoEntry] /\ streams = <<>> /\ dropping = {} /\ queue = <<>>
  /\ cur = Idle /\ banned = {} /\ static = Static /\ discovered = <<>>
  /\ outbound = <<>> /\ dialing = None /\ reaper = None /\ phase = "running"

-----------------------------------------------------------------------------
(* Messages. *)
Removal(p, who) == [kind |-> "remove", peer |-> p, who |-> who]
Install(p, q, c, stream, alt) ==
  [kind |-> "install", peer |-> p, proto |-> q, conn |-> c, stream |-> stream, alt |-> alt]
Event(kind, p, c) == [kind |-> kind, peer |-> p, conn |-> c]

Listening == phase = "running"
Aborted == phase \in {"stopping", "stopped"}   \* the channel is aborted
\* Channel.push: an aborted channel drops the message.
Pushed(msgs) == IF Aborted THEN queue ELSE queue \o msgs
Emitted(msgs) == IF Listening THEN queue \o msgs ELSE queue
Room(n) == Len(queue) + n <= MaxMessages

\* What the installation of a group is tried with next, when one of its protocols failed.
NextAlternative(m) ==
  IF m.alt = <<0, 0>> \/ m.alt[2] >= Len(Groups[m.alt[1]]) THEN <<>>
  ELSE <<Install(m.peer, Groups[m.alt[1]][m.alt[2] + 1], m.conn, FALSE, <<m.alt[1], m.alt[2] + 1>>)>>

-----------------------------------------------------------------------------
(* Streams.  A stream's promise is kept once its pipe has ended and the    *)
(* uninstalling that follows is done.                                      *)
Kept(i) == streams[i].st = "done"
Abort(ss, i) == [ss EXCEPT ![i].aborted = TRUE, ![i].live = FALSE]
Without(p, q) == [entry EXCEPT ![p][q] = 0]

\* The pipe of a stream ends: both directions after it was aborted, or with an error when it
\* is reset or its connection is gone.  Only in the first case is the protocol uninstalled.
PipeFails(i) ==
  /\ streams[i].st = "piped"
  /\ streams' = [streams EXCEPT ![i].st = "done"]
  /\ UNCHANGED <<up, opened, peers, entry, dropping, queue, cur, banned, phase, loops>>
PipeEnds(i) ==
  LET p == streams[i].peer
      q == streams[i].proto
      t == entry[p][q]
      found == streams[i].owned /\ t # 0
  IN  /\ streams[i].st = "piped" /\ streams[i].aborted
      /\ streams' = IF found /\ ~streams[t].aborted
                    THEN [Abort(streams, t) EXCEPT ![i].st = "uninstalling", ![i].waits = t]
                    ELSE [streams EXCEPT ![i].st = "done"]
      /\ entry' = IF found /\ streams[t].aborted THEN Without(p, q) ELSE entry
      /\ UNCHANGED <<up, opened, peers, dropping, queue, cur, banned, phase, loops>>
\* uninstallProtocol, called at the end of a pipe, waited for a stream installed meanwhile.
UninstallEnds(i) ==
  /\ streams[i].st = "uninstalling" /\ Kept(streams[i].waits)
  /\ streams' = [streams EXCEPT ![i].st = "done"]
  /\ entry' = IF streams[i].owned THEN Without(streams[i].peer, streams[i].proto) ELSE entry
  /\ UNCHANGED <<up, opened, peers, dropping, queue, cur, banned, phase, loops>>

\* More than 50 messages wait to be sent: the drop callback uninstalls the protocol.
Overflow(i) ==
  /\ Overflows /\ entry[streams[i].peer][streams[i].proto] = i /\ streams[i].owned /\ ~streams[i].aborted
  /\ streams' = Abort(streams, i)
  /\ dropping' = dropping \cup {i}
  /\ UNCHANGED <<up, opened, peers, entry, queue, cur, banned, phase, loops>>
OverflowEnds(i) ==
  /\ i \in dropping /\ Kept(i)
  /\ dropping' = dropping \ {i}
  /\ entry' = IF streams[i].owned THEN Without(streams[i].peer, streams[i].proto) ELSE entry
  /\ UNCHANGED <<up, opened, peers, streams, queue, cur, banned, phase, loops>>

-----------------------------------------------------------------------------
(* The handler of the message at the head of the queue. *)
Wait(m, step) == cur' = m @@ [step |-> step]
\* The message is done; an installation that failed tries the next alternative.
Finish == cur' = Idle
FinishInstall(m, ok) == Finish /\ queue' = IF ok THEN queue ELSE Pushed(NextAlternative(m))

Installs_OfBanned(m) == m.kind = "install" /\ Conns(m.peer) # {}
Installs(m) == m.kind = "install" /\ Conns(m.peer) # {} /\ m.peer \notin banned
\* The stream is there or is opened, makeHandler is called, the old protocol is closed first.
StartStream(m) ==
  LET t == entry'[m.peer][m.proto]
  IN  IF t # 0 THEN streams' = Abort(streams, t) /\ cur' = m @@ [step |-> "replace", old |-> t]
      ELSE UNCHANGED streams /\ cur' = m @@ [step |-> "pipe", old |-> 0]

TakeInstall ==
  LET m == Head(queue)
  IN  /\ cur = Idle /\ queue # <<>> /\ m.kind = "install"
      /\ IF ~Installs(m)
         THEN /\ queue' = Tail(queue) \o NextAlternative(m)
              /\ UNCHANGED <<table, streams, cur>>
         ELSE /\ queue' = Tail(queue)
              /\ peers' = peers \cup {m.peer}
              /\ UNCHANGED entry
              /\ IF m.stream THEN StartStream(m) ELSE Wait(m, "stream") /\ UNCHANGED streams
      /\ UNCHANGED <<up, opened, dropping, banned, phase, loops>>

NewStream(ok) ==
  /\ cur.kind = "install" /\ cur.step = "stream"
  /\ ok => cur.conn \in up
  /\ LET m == [cur EXCEPT !.step = "open"]
     IN  IF ok THEN UNCHANGED <<entry, queue>> /\ StartStream([k \in DOMAIN m \ {"step"} |-> m[k]])
         ELSE UNCHANGED <<entry, streams>> /\ FinishInstall(cur, FALSE)
  /\ UNCHANGED <<up, opened, peers, dropping, banned, phase, loops>>

\* The old stream has ended; its connection is closed if it has no stream left.
Replaced ==
  LET c == streams[cur.old].conn
      closes == c # cur.conn /\ c \in up /\ \A i \in DOMAIN streams : streams[i].conn = c => streams[i].st # "piped"
  IN  /\ cur.kind = "install" /\ cur.step = "replace"
      /\ Kept(cur.old) \/ cur.old \in dropping
      /\ entry' = Without(cur.peer, cur.proto)
      /\ cur' = [cur EXCEPT !.step = "pipe"]
      /\ up' = IF closes THEN up \ {c} ELSE up
      /\ queue' = IF closes THEN Emitted(<<Event("disconnected", cur.peer, c)>>) ELSE queue
      /\ UNCHANGED <<opened, peers, streams, dropping, banned, phase, loops>>

Pipe ==
  /\ cur.kind = "install" /\ cur.step = "pipe"
  /\ streams' = Append(streams, [peer |-> cur.peer, proto |-> cur.proto, conn |-> cur.conn, live |-> FALSE,
                                 aborted |-> FALSE, owned |-> TRUE, waits |-> 0,
                                 st |-> IF cur.conn \in up THEN "piped" ELSE "done"])
  /\ cur' = [cur EXCEPT !.step = "handshake"]
  /\ UNCHANGED <<up, opened, peers, entry, dropping, queue, banned, phase, loops>>

Mine == Len(streams)   \* the stream the handler has just piped
HandshakeSucceeds ==
  /\ cur.kind = "install" /\ cur.step = "handshake" /\ streams[Mine].st = "piped"
  /\ streams' = [streams EXCEPT ![Mine].live = TRUE]
  /\ entry' = [entry EXCEPT ![cur.peer][cur.proto] = Mine]
  /\ FinishInstall(cur, TRUE)
  /\ UNCHANGED <<up, opened, peers, dropping, banned, phase, loops>>
HandshakeFails ==
  /\ cur.kind = "install" /\ cur.step = "handshake"
  /\ streams' = Abort(streams, Mine)
  /\ cur' = [cur EXCEPT !.step = "failed"]
  /\ UNCHANGED <<up, opened, peers, entry, dropping, queue, banned, phase, loops>>
InstallFailed ==
  /\ cur.kind = "install" /\ cur.step = "failed" /\ Kept(Mine)
  /\ FinishInstall(cur, FALSE)
  /\ UNCHANGED <<up, opened, peers, entry, streams, dropping, banned, phase, loops>>

\* Connections of banned peers are closed, as are those beyond the inbound throttle.
TakeConnected(throttled) ==
  LET m == Head(queue)
      closes == (m.peer \in banned \/ throttled) /\ m.conn \in up
  IN  /\ cur = Idle /\ queue # <<>> /\ m.kind = "connected"
      /\ up' = IF closes THEN up \ {m.conn} ELSE up
      /\ queue' = Tail(queue) \o (IF closes /\ Listening THEN <<Event("disconnected", m.peer, m.conn)>> ELSE <<>>)
      /\ UNCHANGED <<opened, peers, entry, streams, dropping, cur, banned, phase, loops>>

\* doRemovePeer: the peer leaves the table, its protocols are aborted and their ends awaited.
StartRemoval(m) ==
  LET p == m.peer
      mine == {i \in DOMAIN streams : streams[i].owned /\ streams[i].peer = p /\ entry[p][streams[i].proto] = i}
      awaited == {i \in mine : ~streams[i].aborted}
  IN  /\ peers' = peers \ {p}
      /\ streams' = [i \in DOMAIN streams |->
                       IF i \in mine THEN [streams[i] EXCEPT !.aborted = TRUE, !.live = FALSE] ELSE streams[i]]
      /\ cur' = m @@ [step |-> "removing", awaits |-> awaited]
Resolves(m, who) == m.kind = "remove" /\ m.who = who
Skip(m) ==
  /\ UNCHANGED <<peers, streams, cur>>
  /\ reaper' = IF Resolves(m, "loop") THEN None ELSE reaper
TakeRemoval ==
  LET m == Head(queue)
      applies == m.peer \in peers /\ (m.kind = "disconnected" => Conns(m.peer) = {})
  IN  /\ cur = Idle /\ queue # <<>> /\ m.kind \in {"remove", "disconnected"}
      /\ queue' = Tail(queue)
      /\ IF applies THEN StartRemoval(m) /\ UNCHANGED reaper ELSE Skip(m)
      /\ UNCHANGED <<up, opened, entry, dropping, banned, phase, static, discovered, outbound, dialing>>

\* The protocols are cleared and the peer is hung up on.
Removed ==
  LET p == cur.peer
  IN  /\ cur.kind \in {"remove", "disconnected"} /\ \A i \in cur.awaits : Kept(i)
      /\ entry' = [entry EXCEPT ![p] = NoEntry]
      /\ streams' = [i \in DOMAIN streams |->
                       IF streams[i].peer # p THEN streams[i]
                       ELSE [streams[i] EXCEPT !.owned = FALSE, !.st = IF @ = "piped" THEN "done" ELSE @]]
      /\ up' = up \ Conns(p)
      /\ queue' = Emitted(SetToSeq({Event("disconnected", p, c) : c \in Conns(p)}))
      /\ reaper' = IF Resolves(cur, "loop") THEN None ELSE reaper
      /\ Finish
      /\ UNCHANGED <<opened, peers, dropping, banned, phase, static, discovered, outbound, dialing>>

\* discovered keeps at most twice as many peers as there may be connections.
TakeDiscovered ==
  LET m == Head(queue)
      ds == Append(discovered, m.peer)
      pushes == ~Contains(discovered, m.peer) \/ m.peer \notin peers
  IN  /\ cur = Idle /\ queue # <<>> /\ m.kind = "discovered"
      /\ queue' = Tail(queue)
      /\ discovered' = IF ~pushes THEN discovered ELSE IF Len(ds) > 2 * MaxConnections THEN Tail(ds) ELSE ds
      /\ UNCHANGED <<up, opened, table, streams, dropping, cur, banned, phase, static, outbound, dialing, reaper>>

-----------------------------------------------------------------------------
(* The dial loop. *)
Invalid(p) == p \in banned \/ p \in peers
\* Removing from the list while iterating it skips the element after each one removed.
Sifted(ds) ==
  LET upTo[i \in 0..Len(ds)] ==
        IF i = 0 THEN ds
        ELSE LET l == upTo[i - 1]
             IN  IF i <= Len(l) /\ Invalid(l[i]) THEN RemoveFirst(l, l[i]) ELSE l
  IN  upTo[Len(ds)]
Throttled(p) == Contains(outbound, p)
Dialable(ds) ==
  LET usable(S) == SetToSeq({p \in S : ~Invalid(p)})
  IN  SelectSeq(usable(static) \o ds \o usable(Book), LAMBDA p : ~Throttled(p))

DialLoop ==
  LET ds == Sifted(discovered)
      p == Head(Dialable(ds))
  IN  /\ Listening /\ dialing = None /\ Cardinality(peers) < MaxConnections /\ Dialable(ds) # <<>>
      /\ Len(streams) < MaxStreams
      /\ discovered' = RemoveFirst(ds, p)
      /\ outbound' = Append(outbound, p)
      /\ dialing' = p
      /\ UNCHANGED <<up, opened, table, streams, dropping, queue, cur, banned, phase, static, reaper>>

NewConn(p) == <<p, opened[p] + 1>>
\* libp2p.dial gives an open connection or a new one, or fails.
DialSucceeds ==
  LET p == dialing
      fresh == Conns(p) = {}
      c == IF fresh THEN NewConn(p) ELSE CHOOSE k \in Conns(p) : TRUE
      first(g) == Install(p, Groups[g][1], c, FALSE, IF Len(Groups[g]) > 1 THEN <<g, 1>> ELSE <<0, 0>>)
  IN  /\ p # None /\ ~Aborted /\ (fresh => opened[p] < MaxConns) /\ Room(1)
      /\ up' = up \cup {c}
      /\ opened' = IF fresh THEN [opened EXCEPT ![p] = @ + 1] ELSE opened
      /\ queue' = Pushed((IF fresh /\ Listening THEN <<Event("connected", p, c)>> ELSE <<>>)
                         \o [g \in DOMAIN Groups |-> first(g)])
      /\ dialing' = None
      /\ UNCHANGED <<table, streams, dropping, cur, banned, phase, static, discovered, outbound, reaper>>
DialFails ==
  /\ dialing # None /\ dialing' = None
  /\ UNCHANGED <<up, opened, table, streams, dropping, queue, cur, banned, phase, static, discovered, outbound, reaper>>
\* The timer of the history is set for the first entry to expire, and removes every one that has:
\* all entries last equally long, so those are the oldest.
Expired(history, k) == SubSeq(history, k + 1, Len(history))
OutboundTimer ==
  /\ Listening
  /\ \E k \in 1..Len(outbound) : outbound' = Expired(outbound, k)
  /\ UNCHANGED <<up, opened, table, streams, dropping, queue, cur, banned, phase, static, discovered, dialing, reaper>>

-----------------------------------------------------------------------------
(* The removal loop, bans, and what happens outside. *)
\* How long a peer without a protocol has been there is left open (removePeerThrottle).
RemovePeerLoop(p) ==
  /\ Listening /\ reaper = None /\ p \in peers /\ entry[p] = NoEntry /\ Room(1)
  /\ reaper' = p /\ queue' = Pushed(<<Removal(p, "loop")>>)
  /\ UNCHANGED <<up, opened, table, streams, dropping, cur, banned, phase, static, discovered, outbound, dialing>>
Ban(p) ==
  /\ Listening /\ p \notin banned /\ Room(1)
  /\ banned' = banned \cup {p} /\ static' = static \ {p}
  /\ queue' = Pushed(<<Removal(p, "user")>>)
  /\ UNCHANGED <<up, opened, table, streams, dropping, cur, phase, discovered, outbound, dialing, reaper>>
BanExpires(p) ==
  /\ p \in banned /\ banned' = banned \ {p}
  /\ UNCHANGED <<up, opened, table, streams, dropping, queue, cur, phase, loops>>
Connects(p) ==
  /\ Listening /\ opened[p] < MaxConns /\ Room(1)
  /\ up' = up \cup {NewConn(p)} /\ opened' = [opened EXCEPT ![p] = @ + 1]
  /\ queue' = Emitted(<<Event("connected", p, NewConn(p))>>)
  /\ UNCHANGED <<table, streams, dropping, cur, banned, phase, loops>>
\* The streams of a connection fail with it.
Disconnects(c) ==
  /\ c \in up /\ Room(1)
  /\ up' = up \ {c}
  /\ streams' = [i \in DOMAIN streams |-> IF streams[i].conn = c /\ streams[i].st = "piped"
                                          THEN [streams[i] EXCEPT !.st = "done"] ELSE streams[i]]
  /\ queue' = Emitted(<<Event("disconnected", c[1], c)>>)
  /\ UNCHANGED <<opened, table, dropping, cur, banned, phase, loops>>
\* The remote node opens a stream of one of the protocols.
Opens(c, q) ==
  /\ Listening /\ c \in up /\ Room(1) /\ Len(streams) < MaxStreams
  /\ queue' = Pushed(<<Install(c[1], q, c, TRUE, <<0, 0>>)>>)
  /\ UNCHANGED <<up, opened, table, streams, dropping, cur, banned, phase, loops>>
Discovers(p) ==
  /\ Listening /\ Room(1) /\ \A m \in Range(queue) : m.kind # "discovered"   \* a bound of the model
  /\ queue' = Pushed(<<Event("discovered", p, None)>>)
  /\ UNCHANGED <<up, opened, table, streams, dropping, cur, banned, phase, loops>>

-----------------------------------------------------------------------------
(* abort: every peer is removed through the queue, libp2p is stopped, the  *)
(* channel aborted and the loops awaited.                                  *)
StartAbort ==
  /\ Listening
  /\ phase' = "aborting"
  /\ queue' = queue \o SetToSeq({Removal(p, "abort") : p \in peers})
  /\ UNCHANGED <<up, opened, table, streams, dropping, cur, banned, static, discovered, outbound, dialing, reaper>>
\* What the drop callback of the channel resolves.
DropAll == /\ queue' = <<>>
           /\ reaper' = IF \E k \in DOMAIN queue : Resolves(queue[k], "loop") THEN None ELSE reaper
PeersRemoved ==
  /\ phase = "aborting"
  /\ ~Resolves(cur, "abort") /\ \A k \in DOMAIN queue : ~Resolves(queue[k], "abort")
  /\ phase' = "stopping"
  /\ peers' = {} /\ up' = {}
  /\ streams' = [i \in DOMAIN streams |-> IF streams[i].st = "piped" THEN [streams[i] EXCEPT !.st = "done"] ELSE streams[i]]
  /\ DropAll
  /\ UNCHANGED <<opened, entry, dropping, cur, banned, static, discovered, outbound, dialing>>
LoopsEnded ==
  /\ phase = "stopping" /\ cur = Idle /\ dialing = None /\ reaper = None
  /\ phase' = "stopped"
  /\ UNCHANGED <<up, opened, table, streams, dropping, queue, cur, banned, loops>>

-----------------------------------------------------------------------------
Continuations ==
  \/ \E i \in DOMAIN streams : UninstallEnds(i) \/ OverflowEnds(i)
  \/ Replaced \/ Pipe \/ InstallFailed \/ Removed
Ready == \/ \E i \in DOMAIN streams : streams[i].st = "uninstalling" /\ Kept(streams[i].waits)
         \/ \E i \in dropping : Kept(i)
         \/ /\ cur.kind = "install"
            /\ \/ cur.step = "replace" /\ (Kept(cur.old) \/ cur.old \in dropping)
               \/ cur.step = "pipe"
               \/ cur.step = "failed" /\ Kept(Mine)
         \/ cur.kind \in {"remove", "disconnected"} /\ \A i \in cur.awaits : Kept(i)

\* What the manager waits for and gets: the next message, the end of an aborted pipe,
\* a stream, a handshake, a dialled connection or its failure.
Progress ==
  \/ Continuations
  \/ ~Ready /\ \/ TakeInstall \/ TakeConnected(FALSE) \/ TakeRemoval \/ TakeDiscovered
               \/ \E ok \in BOOLEAN : NewStream(ok)
               \/ HandshakeSucceeds \/ HandshakeFails \/ DialSucceeds \/ DialFails
               \/ \E i \in DOMAIN streams : streams[i].aborted /\ (PipeEnds(i) \/ PipeFails(i))
               \/ PeersRemoved \/ LoopsEnded

Environment ==
  /\ ~Ready
  /\ \/ \E i \in DOMAIN streams : (~streams[i].aborted /\ PipeFails(i)) \/ Overflow(i)
     \/ TakeConnected(TRUE) \/ DialLoop \/ StartAbort
     \/ OutboundTimer
     \/ \E p \in Peer : RemovePeerLoop(p) \/ Ban(p) \/ BanExpires(p) \/ Connects(p)
     \/ \E p \in Announced : Discovers(p)
     \/ \E c \in up : Disconnects(c) \/ \E q \in Protocol : Opens(c, q)

Next == Progress \/ Environment
Spec == Init /\ [][Next]_vars /\ WF_vars(Progress)

-----------------------------------------------------------------------------
\* Type of the state.
TypeOK ==
  /\ up \subseteq Peer \X (1..MaxConns) /\ peers \subseteq Peer
  /\ \A p \in Peer, q \in Protocol : entry[p][q] \in 0..Len(streams)
  /\ banned \subseteq Peer /\ Len(discovered) <= 2 * MaxConnections

Pending(kinds, p) == \E m \in Range(queue) \cup {cur} : m.kind \in kinds /\ m.peer = p

\* A banned peer does not stay (ban, install): as long as it is in the table of peers its
\* removal is waiting in the queue.
BannedPeersGo == \A p \in peers \cap banned : Pending({"remove", "disconnected"}, p)

\* No ghosts (disconnected): a peer without a connection is about to be removed.
NoGhosts == phase = "running" => \A p \in peers : Conns(p) = {} => Pending({"disconnected", "remove"}, p)

\* A protocol handler that is installed and not aborted is the one its peer's entry names,
\* whatever installations, overflows, ends of pipes and removals raced (installProtocol,
\* uninstallProtocol): nobody else would ever abort it.
LiveAreEntered == phase \in {"running", "aborting"} =>
  \A i \in DOMAIN streams : streams[i].live =>
    streams[i].owned /\ streams[i].peer \in peers /\ entry[streams[i].peer][streams[i].proto] = i

\* abort ends (network.ts): nothing it waits for is dropped unresolved.
AbortEnds == phase \in {"aborting", "stopping"} ~> phase = "stopped"

\* Claim "remove all invalid peers from discovered peer list": a banned peer is not dialled.
DialsNobodyBanned == [][dialing = None /\ dialing' # None => dialing' \notin banned]_vars

\* Claim of abort, "remove all peers": no handler survives it.
AbortAbortsHandlers == phase = "stopped" => \A i \in DOMAIN streams : ~streams[i].live

\* A protocol is uninstalled at the end of its own stream only.
NewStreamsSurvive == \A i \in DOMAIN streams : streams[i].st # "uninstalling"
=============================================================================
