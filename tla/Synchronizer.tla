---------------------------- MODULE Synchronizer ----------------------------
(***************************************************************************)
(* The synchronizer (core/src/sync/sync.ts), with the scheduler of a snap  *)
(* synchronization and the download of the headers before its block        *)
(* (core/src/sync/snap/).  One loop takes announcements from a channel and *)
(* starts a full synchronization with the announcer, or, when the node is  *)
(* far behind, a snap synchronization to a block that other peers confirm. *)
(*                                                                         *)
(* A block is its height and whether it is of the honest chain; a total    *)
(* difficulty is a height.  The full synchronization is in module          *)
(* BlockSync: here it ends with some honest blocks more, or none.          *)
(***************************************************************************)
EXTENDS Integers, FiniteSetsExt, SequencesExt

CONSTANTS Peer, Honest,
          V2,             \* peers of wire v2: the others have no receipts to give
          SnapPeer,       \* peers of the snap protocol
          Mode,           \* the modes a node may be started in: "full", "snap"
          Trusted,        \* trustedHeight; its hash is of the honest chain
          MaxHeight,      \* bound of the model: height of the honest chain
          SnapSyncMinTD,
          StaleNumber, TrustedStaleNumber,
          RetryLimit,     \* of the download of headers
          MaxAnnounced,   \* bound of the model: announcements in the channel
          None

VARIABLES mode,
          top,       \* height of the honest chain
          head,      \* height of the node's latest block
          chan,      \* the channel of announcements
          loop,      \* syncLoop: "wait", or what it awaits for an announcement
          full,      \* FullSyncScheduler: the height it goes for, or 0
          snap,      \* SnapSyncScheduler and SnapSync
          header,    \* HeaderSync
          saved,     \* heights whose header is in the database
          shutdown   \* Synchronizer.abort: "no", "called" (waits for what works), "loops", "done"

vars == <<mode, top, head, chan, loop, full, snap, header, saved, shutdown>>

MinConfirmed == 2
Window == 2   \* 256 headers, 128 at a time: here two, one at a time
Waits == [st |-> "wait", ann |-> None, why |-> "none", good |-> FALSE, left |-> {}, confirmed |-> 0]
Ended == [Waits EXCEPT !.st = "ended"]
NoSnap == [st |-> "idle", height |-> 0, good |-> TRUE, snapped |-> FALSE, preRoot |-> FALSE,
           healed |-> FALSE, finished |-> FALSE, stop |-> FALSE]
NoHeader == [st |-> "idle", todo |-> {}, got |-> {}, tries |-> 0, astray |-> FALSE]
Aborted == shutdown # "no"
SnapIdle == snap.st = "idle"

Init ==
  /\ mode \in Mode /\ top = 1 /\ head = 0 /\ chan = <<>> /\ loop = Waits /\ full = 0
  /\ snap = NoSnap /\ header = NoHeader /\ saved = {} /\ shutdown = "no"

-----------------------------------------------------------------------------
(* Announcements. *)
Grow == /\ top < MaxHeight /\ top' = top + 1
        /\ UNCHANGED <<mode, head, chan, loop, full, snap, header, saved, shutdown>>
\* The status of a peer: an honest one has a block of the honest chain.
Claims(p) == IF p \in Honest THEN 1..top ELSE 1..MaxHeight
Pushes(p, n) == chan' = Append(chan, [peer |-> p, height |-> n])
Announce(p, n) ==
  /\ n \in Claims(p) /\ Len(chan) < MaxAnnounced /\ ~Aborted
  /\ Pushes(p, n)
  /\ UNCHANGED <<mode, top, head, loop, full, snap, header, saved, shutdown>>
\* announceNewPeer of a snap handler: no height.
AnnounceSnap(p) ==
  /\ Len(chan) < MaxAnnounced /\ ~Aborted
  /\ Pushes(p, 0)
  /\ UNCHANGED <<mode, top, head, loop, full, snap, header, saved, shutdown>>
\* randomPickLoop: each second, when nothing is going on, a peer that is ahead.
RandomPick_Behind ==
  /\ ~Aborted /\ full = 0 /\ SnapIdle /\ chan = <<>>
  /\ \E p \in Peer : LET n == IF p \in Honest THEN top ELSE MaxHeight
                     IN  n < head /\ Pushes(p, n)
  /\ UNCHANGED <<mode, top, head, loop, full, snap, header, saved, shutdown>>
RandomPick ==
  /\ ~Aborted /\ full = 0 /\ SnapIdle /\ chan = <<>>
  /\ \E p \in Peer : LET n == IF p \in Honest THEN top ELSE MaxHeight
                     IN  n > head /\ Pushes(p, n)
  /\ UNCHANGED <<mode, top, head, loop, full, snap, header, saved, shutdown>>

-----------------------------------------------------------------------------
(* syncLoop. *)
Confirms(a, why) == [Waits EXCEPT !.st = "data", !.ann = a, !.why = why]
IsTrusted == Trusted > 0 /\ head < Trusted
\* A new synchronization, if the announcer is ahead.
Starts(a) ==
  /\ UNCHANGED <<snap, header>>
  /\ IF head >= a.height THEN full' = full /\ loop' = Waits
     ELSE IF mode = "snap" /\ a.height - head >= SnapSyncMinTD
     THEN /\ full' = full
          /\ loop' = IF a.peer \notin V2 THEN Waits
                     ELSE IF IsTrusted THEN [Confirms(a, "start") EXCEPT !.st = "trusted"]
                     ELSE Confirms(a, "start")
     ELSE full' = a.height /\ loop' = Waits
\* The block a running snap synchronization goes for is too old.
Stale(n) == n - snap.height >= (IF Trusted > 0 /\ Trusted = snap.height THEN TrustedStaleNumber ELSE StaleNumber)
TakeAnnouncement ==
  LET a == Head(chan)
  IN  /\ loop.st = "wait" /\ chan # <<>>
      /\ chan' = Tail(chan)
      \* a snap peer makes a running snap synchronization look for work again
      /\ IF full # 0 \/ a.height = 0 THEN UNCHANGED <<loop, full, snap, header>>
         ELSE IF ~SnapIdle
         THEN /\ loop' = IF ~snap.snapped /\ Stale(a.height) THEN Confirms(a, "reset") ELSE Waits
              /\ UNCHANGED <<full, snap, header>>
         ELSE Starts(a)
      /\ UNCHANGED <<mode, top, head, saved, shutdown>>

\* downloadBlockData: a block, its body and its receipts, all of which fit together.  An honest
\* peer gives the block of the honest chain, unless the download fails.
Gives(p, n, good) == /\ p \in V2
                     /\ p \in Honest => good /\ n <= top
                     /\ good => n <= top
Fails == /\ loop' = Waits
         /\ UNCHANGED <<mode, top, head, chan, full, snap, header, saved, shutdown>>
\* confirmAnn: the announcer's block, then (200 ms later, unless aborted) those of the others.
Others_All(p) == V2
Others(p) == V2 \ {p}
DataArrives ==
  /\ loop.st = "data" /\ ~Aborted
  /\ \E good \in BOOLEAN :
       /\ Gives(loop.ann.peer, loop.ann.height, good)
       /\ loop' = [loop EXCEPT !.st = "others", !.good = good, !.left = Others(loop.ann.peer)]
  /\ UNCHANGED <<mode, top, head, chan, full, snap, header, saved, shutdown>>
DataFails == loop.st \in {"data", "trusted"} /\ Fails
OtherAnswers(p) ==
  /\ loop.st = "others" /\ p \in loop.left /\ loop.confirmed < MinConfirmed
  /\ \E same \in BOOLEAN :
       /\ same => Gives(p, loop.ann.height, loop.good)
       /\ loop' = [loop EXCEPT !.left = @ \ {p}, !.confirmed = IF same THEN @ + 1 ELSE @]
  /\ UNCHANGED <<mode, top, head, chan, full, snap, header, saved, shutdown>>

\* SnapSyncScheduler.snapSync: the state and the headers are downloaded side by side.  The
\* download of headers goes from the highest missing one down to the lowest; what it checks them
\* against is the block, so the answers are refused when the highest missing is not its parent.
\* A parent that is in the database tells its root at once.
SnapTo(n, good) ==
  LET missing == {h \in Max({1, n - Window})..n - 1 : h \notin saved}
      todo == IF missing = {} THEN {} ELSE Min(missing)..Max(missing)
  IN  /\ snap' = [NoSnap EXCEPT !.st = "running", !.height = n, !.good = good, !.preRoot = n - 1 \in saved]
      /\ header' = [NoHeader EXCEPT !.st = IF todo = {} THEN "done" ELSE "running", !.todo = todo,
                                    !.astray = n - 1 \notin todo]
TrustedArrives ==
  /\ loop.st = "trusted" /\ Gives(loop.ann.peer, Trusted, TRUE)
  /\ SnapTo(Trusted, TRUE) /\ loop' = Waits
  /\ UNCHANGED <<mode, top, head, chan, full, saved, shutdown>>
\* SnapSync.abort: its loop ends, and waits for the requests.
SnapAborted == IF SnapIdle THEN snap ELSE [snap EXCEPT !.st = "ended", !.stop = TRUE]
\* The block is confirmed, or not, by enough others.
Enough == loop.confirmed >= MinConfirmed
Asked == loop.st = "others" /\ (Enough \/ loop.left = {})
StartConfirmed ==
  /\ Asked /\ loop.why = "start"
  /\ IF Enough THEN SnapTo(loop.ann.height, loop.good) ELSE UNCHANGED <<snap, header>>
  /\ loop' = Waits
  /\ UNCHANGED <<mode, top, head, chan, full, saved, shutdown>>
\* resetRoot, unless the synchronization has ended meanwhile; if the block is not confirmed, a
\* new synchronization when none is working.
ResetConfirmed ==
  /\ Asked /\ loop.why = "reset"
  /\ IF Enough
     THEN /\ IF SnapIdle
             THEN loop' = Waits /\ UNCHANGED <<snap, header>>
             ELSE /\ loop' = [loop EXCEPT !.st = "resetting"]
                  /\ snap' = SnapAborted
                  /\ UNCHANGED header
          /\ UNCHANGED full
     ELSE IF SnapIdle THEN Starts(loop.ann)
     ELSE loop' = Waits /\ UNCHANGED <<full, snap, header>>
  /\ UNCHANGED <<mode, top, head, chan, saved, shutdown>>
ResetStarts ==
  /\ loop.st = "resetting" /\ SnapIdle
  /\ SnapTo(loop.ann.height, loop.good) /\ loop' = Waits
  /\ UNCHANGED <<mode, top, head, chan, full, saved, shutdown>>

-----------------------------------------------------------------------------
(* The synchronizations. *)
FullEnds ==
  /\ full # 0
  /\ head' \in head..Max({head, Min({full, top})})
  /\ saved' = saved \cup head + 1..head'
  /\ full' = 0
  /\ UNCHANGED <<mode, top, chan, loop, snap, header, shutdown>>
\* All account tasks are done; what is left is to heal, first the root, then, once it is known,
\* the root of the parent (module SnapSync).
Snapped ==
  /\ snap.st = "running" /\ ~snap.snapped
  /\ snap' = [snap EXCEPT !.snapped = TRUE]
  /\ UNCHANGED <<mode, top, head, chan, loop, full, header, saved, shutdown>>
RootHealed ==
  /\ snap.st = "running" /\ snap.snapped /\ snap.preRoot /\ ~snap.healed
  /\ snap' = [snap EXCEPT !.healed = TRUE]
  /\ UNCHANGED <<mode, top, head, chan, loop, full, header, saved, shutdown>>
Healed ==
  /\ snap.st = "running" /\ snap.healed
  /\ snap' = [snap EXCEPT !.st = "ended", !.finished = TRUE]
  /\ UNCHANGED <<mode, top, head, chan, loop, full, header, saved, shutdown>>
\* SnapSync.announcePreRoot.
Told == IF snap.st = "running" THEN [snap EXCEPT !.preRoot = TRUE] ELSE snap
\* HeaderSync: a batch of headers; the one before the block has the root the healing waits for.
\* Telling it to a synchronizer that is not working ends the download, without any header.
GivenUp == [NoHeader EXCEPT !.st = "done"]
HeadersArrive ==
  LET h == Max(header.todo)
      parent == h = snap.height - 1
      left == header.todo \ {h}
  IN  /\ header.st = "running" /\ ~header.astray
      /\ snap' = IF parent THEN Told ELSE snap
      /\ header' = IF parent /\ snap.st # "running" THEN GivenUp
                   ELSE [header EXCEPT !.todo = left, !.got = @ \cup {h}, !.tries = 0,
                                       !.st = IF left = {} THEN "done" ELSE "running"]
      /\ UNCHANGED <<mode, top, head, chan, loop, full, saved, shutdown>>
\* No handler, or one that does not answer right: again, until the limit.  An answer that is only
\* too short is dropped, but the next ones are checked against its first header (child).
HeadersFail ==
  /\ header.st = "running"
  /\ \E short \in BOOLEAN :
       header' = IF header.tries > RetryLimit THEN GivenUp
                 ELSE [header EXCEPT !.tries = @ + 1, !.astray = @ \/ short]
  /\ UNCHANGED <<mode, top, head, chan, loop, full, snap, saved, shutdown>>
\* headerSyncer.abort, once the state's synchronizer has been aborted: what has arrived is kept.
HeadersAborted ==
  /\ header.st = "running" /\ snap.stop
  /\ header' = [header EXCEPT !.st = "done"]
  /\ UNCHANGED <<mode, top, head, chan, loop, full, snap, saved, shutdown>>
\* Both have ended.  If the state is there the headers and the block are saved, the latter
\* unless that fails.
SnapEnds ==
  /\ snap.st = "ended" /\ header.st = "done"
  /\ IF snap.finished
     THEN \E committed \in BOOLEAN :
            /\ head' = IF committed THEN Max({head, snap.height}) ELSE head
            /\ saved' = saved \cup header.got \cup (IF committed THEN {snap.height} ELSE {})
     ELSE UNCHANGED <<head, saved>>
  /\ snap' = NoSnap /\ header' = NoHeader
  /\ UNCHANGED <<mode, top, chan, loop, full, shutdown>>

-----------------------------------------------------------------------------
(* Synchronizer.abort: what is working is aborted and waited for, then the loops are. *)
Shutdown ==
  /\ shutdown = "no"
  /\ shutdown' = IF full = 0 /\ SnapIdle THEN "loops" ELSE "called"
  /\ chan' = <<>>
  /\ snap' = SnapAborted
  /\ loop' = IF loop.st = "wait" THEN Ended ELSE loop
  /\ UNCHANGED <<mode, top, head, full, header, saved>>
SyncsEnded ==
  /\ shutdown = "called" /\ full = 0 /\ SnapIdle /\ shutdown' = "loops"
  /\ UNCHANGED <<mode, top, head, chan, loop, full, snap, header, saved>>
\* The loop ends when it next looks at the channel.
LoopEnds ==
  /\ Aborted /\ loop.st = "wait" /\ loop' = Ended
  /\ UNCHANGED <<mode, top, head, chan, full, snap, header, saved, shutdown>>
ShutdownEnds ==
  /\ shutdown = "loops" /\ loop.st = "ended" /\ shutdown' = "done"
  /\ UNCHANGED <<mode, top, head, chan, loop, full, snap, header, saved>>

Works ==
  \/ TakeAnnouncement \/ DataArrives \/ DataFails \/ TrustedArrives \/ StartConfirmed
  \/ ResetConfirmed \/ ResetStarts \/ LoopEnds \/ \E p \in Peer : OtherAnswers(p)
Syncs == Snapped \/ RootHealed \/ Healed \/ HeadersArrive \/ HeadersFail \/ HeadersAborted \/ SnapEnds \/ FullEnds \/ SyncsEnded \/ ShutdownEnds
Next ==
  \/ Works \/ Syncs \/ Grow \/ RandomPick \/ Shutdown
  \/ \E p \in Peer, n \in 1..MaxHeight : Announce(p, n)
  \/ \E p \in SnapPeer : AnnounceSnap(p)
\* The loop goes on, synchronizations end, and the timer of randomPickLoop finds the channel
\* empty, which the loop drains between two of its ticks, again and again.
Spec == Init /\ [][Next]_vars /\ WF_vars(Works) /\ WF_vars(Syncs) /\ SF_vars(RandomPick)

-----------------------------------------------------------------------------
\* Type of the state.
TypeOK == /\ head \in 0..MaxHeight /\ full \in 0..MaxHeight /\ loop.left \subseteq Peer
          /\ snap.st \in {"idle", "running", "ended"} /\ header.st \in {"idle", "running", "done"}
          /\ saved \subseteq 1..MaxHeight

\* The state that a snap synchronization downloads is of the honest chain as long as no more
\* than MinConfirmed peers lie together (Synchronizer.confirmAnn, confirmTrusted), also when the
\* root is replaced on the way.
RootIsHonest == snap.good

\* A node in full mode that is behind starts to synchronize, even if every announcement came
\* while it was busy (Synchronizer.randomPickLoop).
BehindSyncs == mode = "full" /\ head < top ~> full # 0 \/ head = top \/ Aborted

\* Claim of SnapSyncScheduler.snapSync, "wait until finished": a snap synchronization ends.  It
\* does not when the headers are given up before the parent's root is known.
SnapFinishes == ~SnapIdle ~> SnapIdle

\* Claim of Synchronizer.abort, "Abort": nothing works once it has returned.
AbortEndsAll == shutdown = "done" => full = 0 /\ SnapIdle

\* Claim of SnapSyncScheduler.snapSync, "save recent 256 headers": the headers before the latest
\* block are there.  They are not when their download was given up or aborted.
HeadersAreSaved == \A h \in Max({1, head - Window})..head - 1 : h \in saved
=============================================================================
