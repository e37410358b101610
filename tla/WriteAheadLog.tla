--------------------------- MODULE WriteAheadLog ---------------------------
(***************************************************************************)
(* The write-ahead log of the consensus state machine (wal.ts), as msgLoop *)
(* writes it, a crash truncates it and replay reads it: what a restarted   *)
(* validator still knows of the votes it made public.                      *)
(*                                                                         *)
(* The state machine is reduced to the slots it votes in at one height     *)
(* (prevote and precommit of round 0, of round 1, ...).  Which block it    *)
(* votes for is free; replaying the same messages gives the same votes.    *)
(* The file group is one sequence of records: its reader goes through the  *)
(* files as if they were one.                                              *)
(***************************************************************************)
EXTENDS Integers, Sequences, SequencesExt

CONSTANTS
    VoteHashes, \* what a vote may be for
    Slots,      \* bound: the votes of one height
    MaxHeight,  \* bound: heights of the chain
    MaxLog,     \* bound: records of the log
    MaxCrashes  \* bound: crashes of the process

ASSUME LogAssumption ==
    Slots \in Nat /\ MaxHeight \in Nat /\ MaxLog \in Nat /\ MaxCrashes \in Nat

VARIABLES
    log,        \* the records written to the files
    flushed,    \* how many of them are known to be on disk
    chain,      \* the height of the latest block in the database
    height,     \* StateMachine.height
    stage,      \* "loop", "ended" (EndHeight written), "down"
    lastSlot,   \* the last slot of this height signed in
    signed,     \* the own vote in the queue, or NoVote
    votes,      \* own votes of this height that were handled
    published,  \* history: every own vote ever broadcast
    skipped,    \* history: heights of which a replay was skipped or cut short
    crashes

logVars == <<log, flushed, chain, height, stage, lastSlot, signed, votes,
          published, skipped, crashes>>

Vote(h, s, b) == [kind |-> "vote", height |-> h, slot |-> s, hash |-> b]
PeerMsg(h, ok) == [kind |-> IF ok THEN "handled" ELSE "throws", height |-> h]
EndHeight(h) == [kind |-> "end", height |-> h]
Torn == [kind |-> "torn", height |-> 0]
NoVote == [kind |-> "none", height |-> 0]

LogInit ==
    /\ log = <<>> /\ flushed = 0
    /\ chain = 0 /\ height = 1 /\ stage = "loop"
    /\ lastSlot = 0 /\ signed = NoVote /\ votes = {}
    /\ published = {} /\ skipped = {} /\ crashes = 0

-----------------------------------------------------------------------------
Write_NotFlushed(record, flush) ==
    /\ Len(log) < MaxLog
    /\ log' = Append(log, record)
    /\ UNCHANGED flushed

(* WAL.write of one record; with flush the whole file is synced.           *)
Write(record, flush) ==
    /\ Len(log) < MaxLog
    /\ log' = Append(log, record)
    /\ flushed' = IF flush THEN Len(log') ELSE flushed

(* msgLoop, a message of a peer: written, not flushed, handled; a handler  *)
(* that throws (a proposal whose signature is wrong, a block of another    *)
(* hash) is logged and the loop goes on.                                   *)
PeerMessage(ok) ==
    /\ stage = "loop"
    /\ Write(PeerMsg(height, ok), FALSE)
    /\ UNCHANGED <<chain, height, stage, lastSlot, signed, votes, published, skipped, crashes>>

(* signVote: at most one vote per slot, slots in ascending order.          *)
Sign(s, b) ==
    /\ stage = "loop"
    /\ signed = NoVote
    /\ s > lastSlot
    /\ lastSlot' = s
    /\ signed' = Vote(height, s, b)
    /\ UNCHANGED <<log, flushed, chain, height, stage, votes, published, skipped, crashes>>

(* msgLoop, the own vote: written and flushed before it is handled, added  *)
(* to the votes and broadcast.  A failed write drops it; so does a         *)
(* conflict with an own vote that a peer has sent back.                    *)
HandleOwnVote ==
    /\ stage = "loop"
    /\ signed # NoVote
    /\ signed' = NoVote
    /\ \/ /\ Write(signed, TRUE)
          /\ IF \E v \in votes : v.slot = signed.slot
             THEN UNCHANGED <<votes, published>>
             ELSE votes' = votes \cup {signed} /\ published' = published \cup {signed}
       \/ UNCHANGED <<log, flushed, votes, published>>
    /\ UNCHANGED <<chain, height, stage, lastSlot, skipped, crashes>>

(* Peers gossip the votes they have, the node's own among them.            *)
OwnVoteReturned(v) ==
    /\ stage = "loop"
    /\ v.height = height
    /\ Write(v, FALSE)
    /\ votes' = IF \E w \in votes : w.slot = v.slot THEN votes ELSE votes \cup {v}
    /\ UNCHANGED <<chain, height, stage, lastSlot, signed, published, skipped, crashes>>

(* The flush interval.                                                     *)
PeriodicFlush ==
    /\ stage # "down"
    /\ flushed' = Len(log)
    /\ UNCHANGED <<log, chain, height, stage, lastSlot, signed, votes, published, skipped, crashes>>

(* finalizeCommit writes and flushes EndHeight ...                         *)
WriteEndHeight ==
    /\ stage = "loop"
    /\ Write(EndHeight(height), TRUE)
    /\ stage' = "ended"
    /\ UNCHANGED <<chain, height, lastSlot, signed, votes, published, skipped, crashes>>

(* newBlockHeader: everything of the old height is forgotten.              *)
NextHeight ==
    /\ chain < MaxHeight
    /\ chain' = height
    /\ height' = height + 1
    /\ stage' = "loop"
    /\ lastSlot' = 0 /\ signed' = NoVote /\ votes' = {}
    /\ UNCHANGED <<log, flushed, published, skipped, crashes>>

(* ... and then commits the block.                                         *)
CommitBlock == stage = "ended" /\ NextHeight

(* commitBlock throws; the loop goes on with the height already ended.     *)
CommitFails ==
    /\ stage = "ended"
    /\ stage' = "loop"
    /\ UNCHANGED <<log, flushed, chain, height, lastSlot, signed, votes,
                   published, skipped, crashes>>

(* The block of this height comes from another node: no EndHeight.         *)
SyncBlock == stage = "loop" /\ NextHeight

(* The process or the machine stops: what was not flushed may be lost, and *)
(* the record after what is left may be half written.                      *)
Crash ==
    /\ stage # "down"
    /\ crashes < MaxCrashes
    /\ \E k \in flushed .. Len(log) :
          LET kept == SubSeq(log, 1, k) IN log' \in {kept, Append(kept, Torn)}
    /\ flushed' = Len(log')
    /\ stage' = "down"
    /\ lastSlot' = 0 /\ signed' = NoVote /\ votes' = {}
    /\ crashes' = crashes + 1
    /\ UNCHANGED <<chain, height, published, skipped>>

-----------------------------------------------------------------------------
Undefined == -1

(* searchForLatestEndHeight: the height of the last EndHeight and the      *)
(* place after it; a record that cannot be read anywhere in the log makes  *)
(* it undefined.                                                           *)
SearchForLatestEndHeight(l) ==
    LET last == SelectLastInSeq(l, LAMBDA r : r.kind = "end")
    IN  IF Contains(l, Torn) THEN [height |-> Undefined, from |-> 1]
        ELSE [height |-> IF last = 0 THEN 0 ELSE l[last].height, from |-> last + 1]

NothingToReplay_PreviousEnd(l, h) ==
    LET e == SearchForLatestEndHeight(l).height IN e = Undefined \/ e >= h - 1

(* replay reads nothing: there is nothing to read, or the end of this very *)
(* height is already written ("future message").                           *)
NothingToReplay(l, h) ==
    LET e == SearchForLatestEndHeight(l).height IN e = Undefined \/ e >= h

(* Where the records of height h are that replay gets to: up to the first  *)
(* that throws.                                                            *)
Replayed(l, h) ==
    LET from == SearchForLatestEndHeight(l).from
    IN  {i \in from .. Len(l) : /\ l[i].height = h
                                /\ \A j \in from .. i : l[j] # PeerMsg(h, FALSE)}

(* A message of height h that throws while it is replayed.                 *)
ReplayFails(l, h) ==
    \E i \in SearchForLatestEndHeight(l).from .. Len(l) : l[i] = PeerMsg(h, FALSE)

(* The votes the records at these places leave in the vote sets: of two    *)
(* that conflict the first.                                                *)
OwnVotes(l, places) ==
    {l[i] : i \in {k \in places :
        /\ l[k].kind = "vote"
        /\ \A j \in places : j < k =>
              ~ (l[j].kind = "vote" /\ l[j].slot = l[k].slot)}}
LastSlot(V) == IF V = {} THEN 0 ELSE CHOOSE s \in 1 .. Slots :
                  /\ \E v \in V : v.slot = s
                  /\ \A v \in V : v.slot <= s

(* init: the engine enters the height after the latest block, then replay  *)
(* handles the log's messages of that height again.  One that throws again *)
(* ends the replay and clears the log.                                     *)
Restart ==
    LET h == chain + 1
        nothing == NothingToReplay(log, h)
        fails   == ~ nothing /\ ReplayFails(log, h)
        known   == IF nothing THEN {} ELSE OwnVotes(log, Replayed(log, h))
    IN  /\ stage = "down"
        /\ stage' = "loop"
        /\ height' = h
        /\ votes' = known
        /\ lastSlot' = LastSlot(known)
        /\ skipped' = IF nothing \/ fails THEN skipped \cup {h} ELSE skipped
        /\ IF fails THEN log' = <<>> /\ flushed' = 0 ELSE UNCHANGED <<log, flushed>>
        /\ UNCHANGED <<chain, signed, published, crashes>>

LogNext ==
    \/ \E ok \in BOOLEAN : PeerMessage(ok)
    \/ \E s \in 1 .. Slots, b \in VoteHashes : Sign(s, b)
    \/ HandleOwnVote
    \/ \E v \in published : OwnVoteReturned(v)
    \/ PeriodicFlush
    \/ WriteEndHeight
    \/ CommitBlock
    \/ CommitFails
    \/ SyncBlock
    \/ Crash
    \/ Restart

LogSpec == LogInit /\ [][LogNext]_logVars

-----------------------------------------------------------------------------
(* The counters stay in their ranges and the votes are of this height.     *)
LogTypeOK ==
    /\ flushed \in 0 .. Len(log)
    /\ chain \in 0 .. MaxHeight /\ height \in 1 .. MaxHeight + 1
    /\ stage \in {"loop", "ended", "down"}
    /\ lastSlot \in 0 .. Slots
    /\ \A v \in votes : v.height = height /\ v.slot \in 1 .. Slots

(* After any crash a replay gives the node back every vote it made public  *)
(* at its height: nothing is broadcast before it is on disk, and a flush   *)
(* takes the records before it along.  Only a height whose replay was      *)
(* skipped or cut short is an exception.                                   *)
ReplayGivesBack ==
    (stage # "down" /\ height \notin skipped) =>
        {v \in published : v.height = height} = votes

(* So a node contradicts its own public votes only at a height whose       *)
(* replay was skipped or cut short.                                        *)
DoubleSignNeedsLostReplay ==
    \A v, w \in published :
        (v.height = w.height /\ v.slot = w.slot /\ v # w) => v.height \in skipped

(* No crash makes a validator forget what the network knows it has signed: *)
(* both of the above (msgLoop, replay).                                    *)
PublishedRemembered == ReplayGivesBack /\ DoubleSignNeedsLostReplay

(* A replay is skipped or cut short only for a reason the log shows: a     *)
(* record that was cut off by a crash, one that throws, or the end of a    *)
(* height whose block did not reach the database.                          *)
StepSkipsForAReason ==
    \A h \in skipped' \ skipped :
        \/ Contains(log, Torn)
        \/ Contains(log, PeerMsg(h, FALSE))
        \/ Contains(log, EndHeight(h)) /\ chain < h
SkippedForAReason == [][StepSkipsForAReason]_logVars

(* searchForLatestEndHeight is documented to "search for latest height     *)
(* EndHeightMessage from the beginning" and to return a reader if found:   *)
(* an EndHeight in the log is found.                                       *)
EndHeightFound ==
    (\E i \in 1 .. Len(log) : log[i].kind = "end") =>
        SearchForLatestEndHeight(log).height # Undefined
=============================================================================
