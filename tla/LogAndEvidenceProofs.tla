------------------------ MODULE LogAndEvidenceProofs ------------------------
(***************************************************************************)
(* Proofs about the two records a validator keeps across restarts.         *)
(*                                                                         *)
(* The write-ahead log, for any number of heights, slots, records and      *)
(* crashes: a restarted validator knows every vote it made public, except  *)
(* at a height whose replay was skipped or cut short, and that happens     *)
(* only for a reason the log shows.                                        *)
(*                                                                         *)
(* The evidence pool, for any evidence, heights and limits: what is picked *)
(* passes the pool's own check, what is cached is pending, what is         *)
(* committed is not unless a crash tore an update, and evidence only       *)
(* leaves the database when it is committed or has expired.                *)
(***************************************************************************)
EXTENDS WriteAheadLog, EvidencePool, SequenceTheorems, FiniteSetTheorems, WellFoundedInduction, TLAPS

-----------------------------------------------------------------------------
(* The least-number principle, and the greatest of a bounded set.          *)
LEMMA LeastNatural ==
  ASSUME NEW T \in SUBSET Nat, T # {}
  PROVE  \E x \in T : \A y \in T : x <= y
<1>1. \A R : IsWellFoundedOn(R, Nat) => \E x \in T : \A y \in T : ~ (<<y, x>> \in R)
  BY WFMin
<1>2. PICK Less : /\ IsWellFoundedOn(Less, Nat)
                  /\ \A x, y \in Nat : y < x => <<y, x>> \in Less
  <2>1. \A x, y \in Nat : y < x => <<y, x>> \in OpToRel(<, Nat)
    BY DEF OpToRel
  <2> QED
    BY <2>1, NatLessThanWellFounded, Zenon
<1>3. PICK x \in T : \A y \in T : ~ (<<y, x>> \in Less)
  BY <1>1, <1>2
<1>4. \A y \in T : x <= y
  <2> SUFFICES ASSUME NEW y \in T, ~ (x <= y) PROVE FALSE
    OBVIOUS
  <2>1. x \in Nat /\ y \in Nat /\ y < x
    OBVIOUS
  <2>2. <<y, x>> \in Less
    BY <1>2, <2>1, Zenon
  <2> QED
    BY <1>3, <2>2, Zenon
<1> QED
  BY <1>4

LEMMA GreatestBelow ==
  ASSUME NEW n \in Nat, NEW T \in SUBSET (0 .. n), T # {}
  PROVE  \E x \in T : \A y \in T : y <= x
<1> DEFINE Bounds == {b \in Nat : \A y \in T : y <= b}
<1>1. n \in Bounds
  OBVIOUS
<1>2. PICK b \in Bounds : \A c \in Bounds : b <= c
  BY <1>1, LeastNatural
<1>3. b \in T
  <2> SUFFICES ASSUME b \notin T PROVE FALSE
    OBVIOUS
  <2>1. PICK t : t \in T
    OBVIOUS
  <2>2. t \in Nat /\ t <= b /\ t # b
    BY <2>1
  <2>3. b - 1 \in Nat
    BY <2>2
  <2>4. \A y \in T : y <= b - 1
    OBVIOUS
  <2>5. b - 1 \in Bounds
    BY <2>3, <2>4
  <2> QED
    BY <1>2, <2>5
<1> QED
  BY <1>3

-----------------------------------------------------------------------------
(* The write-ahead log.                                                    *)

OwnVoteRecords == [kind : {"vote"}, height : Nat, slot : 1 .. Slots, hash : VoteHashes]
OtherRecords == [kind : {"handled", "throws", "end"}, height : Nat]
Records == OwnVoteRecords \cup OtherRecords \cup {Torn}

(* The votes this node made public at its height.                          *)
Current == {v \in published : v.height = height}

VariablesOK ==
    /\ log \in Seq(Records) /\ flushed \in 0 .. Len(log)
    /\ chain \in 0 .. MaxHeight /\ height = chain + 1
    /\ stage \in {"loop", "ended", "down"}
    /\ lastSlot \in 0 .. Slots
    /\ signed \in OwnVoteRecords \cup {NoVote}
    /\ votes \subseteq OwnVoteRecords /\ \A v \in votes : v.height = height
    /\ published \subseteq OwnVoteRecords /\ \A v \in published : v.height <= height

(* What can be read of the log is in the order of the heights.             *)
Ordered(l, h) ==
    /\ \A i \in 1 .. Len(l) : l[i].height <= h
    /\ \A i, j \in 1 .. Len(l) :
         i <= j /\ l[j] # Torn => l[i].height <= l[j].height

(* The votes made public at this height are on disk ...                    *)
PublicOnDisk == \A v \in Current : \E i \in 1 .. flushed : log[i] = v

(* ... the log has no other vote of this height ...                        *)
LoggedIsPublic ==
    \A i \in 1 .. Len(log) :
        log[i].kind = "vote" /\ log[i].height = height => log[i] \in published

(* ... and the node signs in a later slot than those.                      *)
SlotsAscend ==
    stage # "down" =>
        \A v \in votes : v.slot <= lastSlot /\ (signed # NoVote => v.slot < signed.slot)

SignedIsCurrent ==
    signed # NoVote => stage # "down" /\ signed.height = height /\ signed.slot <= lastSlot

LogIInv ==
    /\ VariablesOK
    /\ SignedIsCurrent
    /\ Ordered(log, height)
    /\ height \notin skipped => PublicOnDisk /\ LoggedIsPublic /\ SlotsAscend
    /\ PublishedRemembered

-----------------------------------------------------------------------------
LEMMA InitLogIInv == LogInit => LogIInv
<1> SUFFICES ASSUME LogInit PROVE LogIInv
  OBVIOUS
<1>1. VariablesOK
  BY LogAssumption DEF LogInit, VariablesOK, Records
<1>2. Ordered(log, height) /\ SignedIsCurrent
  BY DEF LogInit, Ordered, SignedIsCurrent
<1>3. PublicOnDisk /\ LoggedIsPublic /\ SlotsAscend
  BY DEF LogInit, PublicOnDisk, LoggedIsPublic, SlotsAscend, Current
<1>4. PublishedRemembered
  BY DEF LogInit, PublishedRemembered, ReplayGivesBack, DoubleSignNeedsLostReplay
<1> QED
  BY <1>1, <1>2, <1>3, <1>4 DEF LogIInv

(* A record of the current height is written at the end.                   *)
LEMMA WriteKeeps ==
  ASSUME VariablesOK, Ordered(log, height),
         NEW record \in OwnVoteRecords \cup OtherRecords, record.height = height,
         NEW flush \in BOOLEAN, Write(record, flush)
  PROVE  /\ log' \in Seq(Records) /\ Len(log') = Len(log) + 1
         /\ flushed' \in 0 .. Len(log') /\ flushed <= flushed'
         /\ flush => flushed' = Len(log')
         /\ \A i \in 1 .. Len(log) : log'[i] = log[i]
         /\ log'[Len(log')] = record
         /\ Ordered(log', height)
<1>1. log \in Seq(Records) /\ record \in Records /\ flushed \in 0 .. Len(log) /\ Len(log) \in Nat
  BY DEF VariablesOK, Records
<1>2. log' = Append(log, record)
  BY DEF Write
<1>3. /\ log' \in Seq(Records) /\ Len(log') = Len(log) + 1
      /\ \A i \in 1 .. Len(log) : log'[i] = log[i]
      /\ log'[Len(log) + 1] = record
  BY <1>1, <1>2, AppendProperties
<1>4. flushed' = IF flush THEN Len(log') ELSE flushed
  BY DEF Write
<1>5. Ordered(log', height)
  <2>1. height \in Nat /\ \A i \in 1 .. Len(log) : log[i].height \in Nat
    <3>1. \A r \in Records : r.height \in Nat
      BY DEF Records, OwnVoteRecords, OtherRecords, Torn
    <3> QED
      BY <1>1, <3>1, LogAssumption DEF VariablesOK
  <2>2. \A i \in 1 .. Len(log') : log'[i].height <= height
    BY <1>1, <1>3, <2>1 DEF Ordered
  <2>3. ASSUME NEW i \in 1 .. Len(log'), NEW j \in 1 .. Len(log'), i <= j, log'[j] # Torn
        PROVE  log'[i].height <= log'[j].height
    <3>1. CASE j \in 1 .. Len(log)
      <4>1. i \in 1 .. Len(log) /\ log'[i] = log[i] /\ log'[j] = log[j]
        BY <1>1, <1>3, <2>3, <3>1
      <4> QED
        BY <2>3, <3>1, <4>1 DEF Ordered
    <3>2. CASE j = Len(log) + 1
      BY <1>3, <2>2, <3>2
    <3> QED
      BY <1>1, <1>3, <3>1, <3>2
  <2> QED
    BY <2>2, <2>3 DEF Ordered
<1> QED
  BY <1>1, <1>3, <1>4, <1>5

(* searchForLatestEndHeight on a log that can be read: nothing has ended   *)
(* after the place it returns, and the height it returns ended just before.*)
LEMMA SearchFinds ==
  ASSUME NEW l \in Seq(Records)
  PROVE  LET e == SearchForLatestEndHeight(l)
         IN  /\ e.from \in 1 .. Len(l) + 1
             /\ e.height = Undefined <=> Contains(l, Torn)
             /\ \/ e.height \in {0, Undefined} /\ e.from = 1
                \/ /\ e.from - 1 \in 1 .. Len(l)
                   /\ l[e.from - 1] = EndHeight(e.height) /\ e.height \in Nat
<1> DEFINE e == SearchForLatestEndHeight(l)
           ends == {i \in 1 .. Len(l) : l[i].kind = "end"}
           last == SelectLastInSeq(l, LAMBDA r : r.kind = "end")
<1>1. last = IF ends = {} THEN 0 ELSE CHOOSE x \in ends : \A y \in ends : x >= y
  BY DEF SelectLastInSeq, Max
<1>2. e = IF Contains(l, Torn) THEN [height |-> Undefined, from |-> 1]
          ELSE [height |-> IF last = 0 THEN 0 ELSE l[last].height, from |-> last + 1]
  BY DEF SearchForLatestEndHeight
<1>3. ends # {} => last \in ends
  <2>1. Len(l) \in Nat /\ ends \in SUBSET (0 .. Len(l))
    OBVIOUS
  <2>2. ends # {} => \E x \in ends : \A y \in ends : y <= x
    BY <2>1, GreatestBelow
  <2> QED
    BY <1>1, <2>1, <2>2
<1>4. \A i \in ends : l[i] = EndHeight(l[i].height) /\ l[i].height \in Nat
  <2>1. \A i \in ends : l[i] \in Records /\ l[i].kind = "end"
    OBVIOUS
  <2>2. \A r \in Records : r.kind = "end" => r = EndHeight(r.height) /\ r.height \in Nat
    BY DEF Records, OwnVoteRecords, OtherRecords, Torn, EndHeight
  <2> QED
    BY <2>1, <2>2
<1> HIDE DEF last, e
<1>5. Len(l) \in Nat
  OBVIOUS
<1>6. CASE Contains(l, Torn)
  BY <1>2, <1>5, <1>6 DEF e, Undefined
<1>7. CASE ~ Contains(l, Torn) /\ ends = {}
  BY <1>1, <1>2, <1>5, <1>7 DEF e, Undefined
<1>8. CASE ~ Contains(l, Torn) /\ ends # {}
  <2>1. last \in 1 .. Len(l) /\ last \in ends
    BY <1>3, <1>8
  <2>2. e.height = l[last].height /\ e.from = last + 1
    BY <1>2, <1>8, <2>1
  <2> QED
    BY <1>4, <1>5, <1>8, <2>1, <2>2 DEF e, Undefined
<1> QED
  BY <1>6, <1>7, <1>8

(* The votes replay puts back are own votes of the height.                 *)
LEMMA OwnVotesType ==
  ASSUME NEW l \in Seq(Records), NEW h \in Nat
  PROVE  /\ OwnVotes(l, Replayed(l, h)) \subseteq OwnVoteRecords
         /\ \A v \in OwnVotes(l, Replayed(l, h)) : v.height = h
<1>1. \A r \in Records : r.kind = "vote" => r \in OwnVoteRecords
  BY DEF Records, OwnVoteRecords, OtherRecords, Torn
<1>2. SearchForLatestEndHeight(l).from \in 1 .. Len(l) + 1 /\ Len(l) \in Nat
  BY SearchFinds
<1>3. \A i \in Replayed(l, h) : l[i] \in Records /\ l[i].height = h
  BY <1>2 DEF Replayed
<1> QED
  BY <1>1, <1>3 DEF OwnVotes

LEMMA LastSlotIsLast ==
  ASSUME NEW V, V \subseteq OwnVoteRecords
  PROVE  LastSlot(V) \in 0 .. Slots /\ \A v \in V : v.slot <= LastSlot(V)
<1>1. CASE V = {}
  BY <1>1, LogAssumption DEF LastSlot
<1>2. CASE V # {}
  <2> DEFINE slots == {v.slot : v \in V}
             LastPlace(x) == x \in slots /\ \A y \in slots : y <= x
  <2>1. slots # {} /\ slots \in SUBSET (0 .. Slots) /\ slots \subseteq 1 .. Slots
    BY <1>2 DEF OwnVoteRecords
  <2> HIDE DEF slots
  <2>2. PICK m \in slots : \A y \in slots : y <= m
    BY <2>1, LogAssumption, GreatestBelow
  <2>3. \E x \in 1 .. Slots : (\E v \in V : v.slot = x) /\ \A v \in V : v.slot <= x
    BY <2>1, <2>2 DEF slots
  <2> QED
    BY <1>2, <2>3 DEF LastSlot
<1> QED
  BY <1>1, <1>2

(* A replay that gets through gives back every vote made public at this    *)
(* height: each is behind the last EndHeight, as the log is in the order   *)
(* of the heights, and of its slot there is no other.                      *)
LEMMA ReplayFindsCurrent ==
  ASSUME VariablesOK, Ordered(log, height), PublishedRemembered, height \notin skipped,
         PublicOnDisk, LoggedIsPublic,
         ~ NothingToReplay(log, height), ~ ReplayFails(log, height)
  PROVE  OwnVotes(log, Replayed(log, height)) = Current
<1> DEFINE e == SearchForLatestEndHeight(log)
           R == Replayed(log, height)
<1>1. /\ log \in Seq(Records) /\ Len(log) \in Nat /\ flushed \in 0 .. Len(log)
      /\ height \in Nat \ {0}
  BY LogAssumption DEF VariablesOK
<1>2. /\ e.height # Undefined /\ ~ (e.height >= height)
      /\ e.from \in 1 .. Len(log) + 1
      /\ \/ e.from = 1
         \/ /\ e.from - 1 \in 1 .. Len(log)
            /\ log[e.from - 1] = EndHeight(e.height) /\ e.height \in Nat
  BY <1>1, SearchFinds DEF NothingToReplay
<1>3. R = {i \in e.from .. Len(log) : log[i].height = height}
  <2>1. \A i \in e.from .. Len(log) : log[i] # PeerMsg(height, FALSE)
    BY Zenon DEF ReplayFails
  <2>2. R = {i \in e.from .. Len(log) :
               /\ log[i].height = height
               /\ \A j \in e.from .. i : log[j] # PeerMsg(height, FALSE)}
    BY Zenon DEF Replayed
  <2> HIDE DEF e, R
  <2>3. \A i \in e.from .. Len(log) : \A j \in e.from .. i : j \in e.from .. Len(log)
    BY <1>1, <1>2
  <2> QED
    BY <2>1, <2>2, <2>3, Zenon
<1> HIDE DEF e, R
<1>4. R \subseteq 1 .. Len(log) /\ R \subseteq Nat
  BY <1>1, <1>2, <1>3
<1>5. ASSUME NEW v \in Current
      PROVE  \E i \in R : log[i] = v
  <2>1. PICK i \in 1 .. flushed : log[i] = v
    BY DEF PublicOnDisk
  <2>2. i \in 1 .. Len(log) /\ log[i].height = height
    BY <1>1, <2>1 DEF Current
  <2>3. i >= e.from
    <3> SUFFICES ASSUME i < e.from PROVE FALSE
      BY <1>2, <2>2
    <3>1. /\ e.from - 1 \in 1 .. Len(log) /\ i <= e.from - 1
          /\ log[e.from - 1] = EndHeight(e.height) /\ e.height \in Nat
      BY <1>2, <2>2
    <3>2. log[e.from - 1] # Torn /\ log[e.from - 1].height = e.height
      BY <3>1 DEF EndHeight, Torn
    <3>3. log[i].height <= log[e.from - 1].height
      BY <2>2, <3>1, <3>2 DEF Ordered
    <3> QED
      BY <1>1, <1>2, <2>2, <3>1, <3>2, <3>3
  <2> QED
    BY <1>1, <1>2, <1>3, <2>1, <2>2, <2>3
<1>6. \A i \in R : log[i].kind = "vote" => log[i] \in Current
  BY <1>3, <1>4 DEF LoggedIsPublic, Current
<1>7. \A v, w \in Current : v.slot = w.slot => v = w
  BY DEF Current, PublishedRemembered, DoubleSignNeedsLostReplay
<1>8. OwnVotes(log, R) \subseteq Current
  BY <1>6 DEF OwnVotes
<1>9. ASSUME NEW v \in Current
      PROVE  v \in OwnVotes(log, R)
  <2> DEFINE T == {i \in R : log[i].kind = "vote" /\ log[i].slot = v.slot}
  <2>1. v.kind = "vote"
    BY DEF Current, VariablesOK, OwnVoteRecords
  <2>2. T # {} /\ T \in SUBSET Nat
    BY <1>4, <1>5, <2>1
  <2>3. PICK k \in T : \A j \in T : k <= j
    <3> HIDE DEF T
    <3> QED
      BY <2>2, LeastNatural
  <2>4. k \in R /\ log[k].kind = "vote" /\ log[k].slot = v.slot /\ log[k] = v
    BY <1>6, <1>7, <2>3
  <2>5. \A j \in R : j < k => ~ (log[j].kind = "vote" /\ log[j].slot = log[k].slot)
    BY <1>4, <2>3, <2>4
  <2> QED
    BY <2>4, <2>5 DEF OwnVotes
<1> QED
  BY <1>8, <1>9 DEF R

-----------------------------------------------------------------------------
(* A record that is no vote is written: a peer's message or EndHeight.     *)
LEMMA WriteOtherInv ==
  ASSUME LogIInv, NEW record \in OtherRecords, record.height = height,
         NEW flush \in BOOLEAN, Write(record, flush),
         stage # "down", stage' \in {"loop", "ended"},
         UNCHANGED <<chain, height, lastSlot, signed, votes, published, skipped>>
  PROVE  LogIInv'
<1>1. /\ VariablesOK /\ SignedIsCurrent /\ Ordered(log, height) /\ PublishedRemembered
      /\ log \in Seq(Records) /\ Len(log) \in Nat /\ flushed \in 0 .. Len(log)
  BY DEF LogIInv, VariablesOK
<1>2. /\ log' \in Seq(Records) /\ Len(log') = Len(log) + 1
      /\ flushed' \in 0 .. Len(log') /\ flushed <= flushed'
      /\ \A i \in 1 .. Len(log) : log'[i] = log[i]
      /\ log'[Len(log')] = record
      /\ Ordered(log', height)
  BY <1>1, WriteKeeps
<1>3. VariablesOK' /\ SignedIsCurrent' /\ Ordered(log, height)'
  BY <1>1, <1>2 DEF VariablesOK, SignedIsCurrent
<1>4. PublishedRemembered'
  BY <1>1 DEF PublishedRemembered, ReplayGivesBack, DoubleSignNeedsLostReplay
<1>5. ASSUME height \notin skipped
      PROVE  PublicOnDisk' /\ LoggedIsPublic' /\ SlotsAscend'
  <2>1. PublicOnDisk /\ LoggedIsPublic /\ SlotsAscend
    BY <1>5 DEF LogIInv
  <2>2. PublicOnDisk'
    BY <1>1, <1>2, <2>1 DEF PublicOnDisk, Current
  <2>3. LoggedIsPublic'
    <3>1. record.kind # "vote"
      BY DEF OtherRecords
    <3> QED
      BY <1>1, <1>2, <2>1, <3>1 DEF LoggedIsPublic
  <2>4. SlotsAscend'
    BY <2>1 DEF SlotsAscend
  <2> QED
    BY <2>2, <2>3, <2>4
<1> QED
  BY <1>3, <1>4, <1>5 DEF LogIInv

LEMMA SignInv ==
  ASSUME LogIInv, NEW s \in 1 .. Slots, NEW b \in VoteHashes, Sign(s, b)
  PROVE  LogIInv'
<1>1. /\ VariablesOK /\ Ordered(log, height) /\ PublishedRemembered
      /\ height \in Nat /\ lastSlot \in 0 .. Slots /\ Slots \in Nat
  BY LogAssumption DEF LogIInv, VariablesOK
<1>2. /\ stage = "loop" /\ signed' = Vote(height, s, b) /\ s > lastSlot /\ lastSlot' = s
      /\ UNCHANGED <<log, flushed, chain, height, stage, votes, published, skipped>>
  BY DEF Sign
<1>3. signed' \in OwnVoteRecords /\ signed'.height = height /\ signed'.slot = s
  BY <1>1, <1>2 DEF Vote, OwnVoteRecords
<1>4. VariablesOK' /\ SignedIsCurrent' /\ Ordered(log, height)'
  BY <1>1, <1>2, <1>3 DEF VariablesOK, SignedIsCurrent
<1>5. PublishedRemembered'
  BY <1>1, <1>2 DEF PublishedRemembered, ReplayGivesBack, DoubleSignNeedsLostReplay
<1>6. ASSUME height \notin skipped
      PROVE  PublicOnDisk' /\ LoggedIsPublic' /\ SlotsAscend'
  <2>1. PublicOnDisk /\ LoggedIsPublic /\ SlotsAscend
    BY <1>6 DEF LogIInv
  <2>2. PublicOnDisk' /\ LoggedIsPublic'
    BY <1>2, <2>1 DEF PublicOnDisk, Current, LoggedIsPublic
  <2>3. SlotsAscend'
    <3>1. \A v \in votes : v.slot \in Nat /\ v.slot <= lastSlot
      BY <1>1, <1>2, <2>1 DEF SlotsAscend, VariablesOK, OwnVoteRecords
    <3> QED
      BY <1>1, <1>2, <1>3, <3>1 DEF SlotsAscend
  <2> QED
    BY <2>2, <2>3
<1> QED
  BY <1>2, <1>4, <1>5, <1>6 DEF LogIInv

(* The own vote: nothing of its slot is known yet, so it is not dropped    *)
(* after it was written, and it is on disk before it is public.            *)
LEMMA HandleOwnVoteInv ==
  ASSUME LogIInv, HandleOwnVote
  PROVE  LogIInv'
<1>1. /\ VariablesOK /\ SignedIsCurrent /\ Ordered(log, height) /\ PublishedRemembered
      /\ log \in Seq(Records) /\ Len(log) \in Nat /\ flushed \in 0 .. Len(log)
      /\ height \in Nat /\ lastSlot \in 0 .. Slots
  BY LogAssumption DEF LogIInv, VariablesOK
<1>2. /\ stage = "loop" /\ signed # NoVote /\ signed' = NoVote
      /\ UNCHANGED <<chain, height, stage, lastSlot, skipped>>
  BY DEF HandleOwnVote
<1>3. signed \in OwnVoteRecords /\ signed.height = height /\ signed.slot <= lastSlot
      /\ signed.kind = "vote"
  BY <1>1, <1>2 DEF VariablesOK, SignedIsCurrent, OwnVoteRecords
<1>4. CASE UNCHANGED <<log, flushed, votes, published>>
  <2>1. VariablesOK' /\ SignedIsCurrent' /\ Ordered(log, height)' /\ PublishedRemembered'
    BY <1>1, <1>2, <1>4
       DEF VariablesOK, SignedIsCurrent, PublishedRemembered, ReplayGivesBack,
           DoubleSignNeedsLostReplay
  <2>2. height \notin skipped => PublicOnDisk' /\ LoggedIsPublic' /\ SlotsAscend'
    BY <1>2, <1>4 DEF LogIInv, PublicOnDisk, Current, LoggedIsPublic, SlotsAscend
  <2> QED
    BY <1>2, <2>1, <2>2 DEF LogIInv
<1>5. CASE /\ Write(signed, TRUE)
           /\ IF \E v \in votes : v.slot = signed.slot
              THEN UNCHANGED <<votes, published>>
              ELSE votes' = votes \cup {signed} /\ published' = published \cup {signed}
  <2>1. /\ log' \in Seq(Records) /\ Len(log') = Len(log) + 1
        /\ flushed' \in 0 .. Len(log') /\ flushed' = Len(log')
        /\ \A i \in 1 .. Len(log) : log'[i] = log[i]
        /\ log'[Len(log')] = signed
        /\ Ordered(log', height)
    BY <1>1, <1>3, <1>5, WriteKeeps
  <2>2. \/ votes' = votes /\ published' = published
        \/ votes' = votes \cup {signed} /\ published' = published \cup {signed}
    BY <1>5
  <2>3. VariablesOK' /\ SignedIsCurrent' /\ Ordered(log, height)'
    <3>1. VariablesOK'
      BY <1>1, <1>2, <1>3, <2>1, <2>2 DEF VariablesOK
    <3> QED
      BY <1>2, <2>1, <3>1 DEF SignedIsCurrent
  <2>4. ASSUME height \notin skipped
        PROVE  /\ PublicOnDisk' /\ LoggedIsPublic' /\ SlotsAscend'
               /\ PublishedRemembered'
    <3>1. /\ PublicOnDisk /\ LoggedIsPublic /\ SlotsAscend
          /\ Current = votes
      BY <1>1, <1>2, <2>4 DEF LogIInv, PublishedRemembered, ReplayGivesBack, Current
    <3>2. \A v \in votes : v.slot # signed.slot
      BY <1>2, <1>3, <3>1 DEF SlotsAscend, VariablesOK, OwnVoteRecords
    <3>3. votes' = votes \cup {signed} /\ published' = published \cup {signed}
      BY <1>5, <3>2
    <3>4. PublicOnDisk'
      BY <1>1, <1>2, <2>1, <3>1, <3>3 DEF PublicOnDisk, Current
    <3>5. LoggedIsPublic'
      BY <1>1, <1>2, <2>1, <3>1, <3>3 DEF LoggedIsPublic
    <3>6. SlotsAscend'
      BY <1>2, <1>3, <3>1, <3>3 DEF SlotsAscend
    <3>7. ReplayGivesBack'
      BY <1>2, <1>3, <3>1, <3>3 DEF ReplayGivesBack, Current
    <3>8. DoubleSignNeedsLostReplay'
      BY <1>1, <1>2, <1>3, <3>1, <3>2, <3>3
         DEF PublishedRemembered, DoubleSignNeedsLostReplay, Current
    <3> QED
      BY <3>4, <3>5, <3>6, <3>7, <3>8 DEF PublishedRemembered
  <2>5. ASSUME height \in skipped
        PROVE  PublishedRemembered'
    <3>1. ReplayGivesBack'
      BY <1>2, <2>5 DEF ReplayGivesBack
    <3>2. DoubleSignNeedsLostReplay'
      BY <1>1, <1>2, <1>3, <2>2, <2>5 DEF PublishedRemembered, DoubleSignNeedsLostReplay
    <3> QED
      BY <3>1, <3>2 DEF PublishedRemembered
  <2> QED
    BY <1>2, <2>3, <2>4, <2>5 DEF LogIInv
<1> QED
  BY <1>4, <1>5 DEF HandleOwnVote

(* An own vote that comes back is one the node knows, unless the replay of *)
(* the height was skipped.                                                 *)
LEMMA OwnVoteReturnedInv ==
  ASSUME LogIInv, NEW v \in published, OwnVoteReturned(v)
  PROVE  LogIInv'
<1>1. /\ VariablesOK /\ SignedIsCurrent /\ Ordered(log, height) /\ PublishedRemembered
      /\ log \in Seq(Records) /\ Len(log) \in Nat /\ flushed \in 0 .. Len(log)
  BY DEF LogIInv, VariablesOK
<1>2. /\ stage = "loop" /\ v.height = height /\ Write(v, FALSE)
      /\ votes' = IF \E w \in votes : w.slot = v.slot THEN votes ELSE votes \cup {v}
      /\ UNCHANGED <<chain, height, stage, lastSlot, signed, published, skipped>>
  BY DEF OwnVoteReturned
<1>3. v \in OwnVoteRecords
  BY <1>1 DEF VariablesOK
<1>4. /\ log' \in Seq(Records) /\ Len(log') = Len(log) + 1
      /\ flushed' \in 0 .. Len(log') /\ flushed <= flushed'
      /\ \A i \in 1 .. Len(log) : log'[i] = log[i]
      /\ log'[Len(log')] = v
      /\ Ordered(log', height)
  BY <1>1, <1>2, <1>3, WriteKeeps
<1>5. VariablesOK'
  BY <1>1, <1>2, <1>3, <1>4 DEF VariablesOK
<1>6. SignedIsCurrent' /\ Ordered(log, height)'
  BY <1>1, <1>2, <1>4 DEF SignedIsCurrent
<1>7. DoubleSignNeedsLostReplay'
  BY <1>1, <1>2 DEF PublishedRemembered, DoubleSignNeedsLostReplay
<1>8. ASSUME height \notin skipped
      PROVE  PublicOnDisk' /\ LoggedIsPublic' /\ SlotsAscend' /\ ReplayGivesBack'
  <2>1. PublicOnDisk /\ LoggedIsPublic /\ SlotsAscend /\ Current = votes
    BY <1>1, <1>2, <1>8 DEF LogIInv, PublishedRemembered, ReplayGivesBack, Current
  <2>2. votes' = votes
    BY <1>2, <2>1 DEF Current
  <2>3. PublicOnDisk'
    BY <1>1, <1>2, <1>4, <2>1 DEF PublicOnDisk, Current
  <2>4. LoggedIsPublic'
    BY <1>1, <1>2, <1>4, <2>1 DEF LoggedIsPublic
  <2>5. SlotsAscend' /\ ReplayGivesBack'
    BY <1>2, <2>1, <2>2 DEF SlotsAscend, ReplayGivesBack, Current
  <2> QED
    BY <2>3, <2>4, <2>5
<1>9. height \in skipped => ReplayGivesBack'
  BY <1>2 DEF ReplayGivesBack
<1> QED
  BY <1>2, <1>5, <1>6, <1>7, <1>8, <1>9 DEF LogIInv, PublishedRemembered

(* The next height: no vote of it is public yet.                           *)
LEMMA NextHeightInv ==
  ASSUME LogIInv, NextHeight, stage \in {"loop", "ended"}
  PROVE  LogIInv'
<1>1. /\ VariablesOK /\ Ordered(log, height) /\ PublishedRemembered
      /\ log \in Seq(Records) /\ chain \in 0 .. MaxHeight /\ MaxHeight \in Nat
      /\ height = chain + 1
  BY LogAssumption DEF LogIInv, VariablesOK
<1>2. /\ chain < MaxHeight /\ chain' = height /\ height' = height + 1 /\ stage' = "loop"
      /\ lastSlot' = 0 /\ signed' = NoVote /\ votes' = {}
      /\ UNCHANGED <<log, flushed, published, skipped>>
  BY DEF NextHeight
<1>3. /\ \A v \in published : v.height \in Nat /\ v.height <= height
      /\ \A i \in 1 .. Len(log) : log[i].height \in Nat /\ log[i].height <= height
  <2>1. \A r \in Records : r.height \in Nat
    BY DEF Records, OwnVoteRecords, OtherRecords, Torn
  <2> QED
    BY <1>1, <2>1 DEF VariablesOK, Ordered, OwnVoteRecords
<1>4. VariablesOK'
  BY <1>1, <1>2, <1>3, LogAssumption DEF VariablesOK
<1>5. SignedIsCurrent' /\ Ordered(log, height)'
  BY <1>1, <1>2, <1>3 DEF SignedIsCurrent, Ordered
<1>6. \A v \in published : v.height # height'
  BY <1>1, <1>2, <1>3
<1>7. \A i \in 1 .. Len(log) : log[i].height # height'
  BY <1>1, <1>2, <1>3
<1>8. PublicOnDisk' /\ LoggedIsPublic' /\ SlotsAscend'
  BY <1>2, <1>6, <1>7 DEF PublicOnDisk, Current, LoggedIsPublic, SlotsAscend
<1>9. PublishedRemembered'
  BY <1>1, <1>2, <1>6 DEF PublishedRemembered, ReplayGivesBack, DoubleSignNeedsLostReplay
<1> QED
  BY <1>4, <1>5, <1>8, <1>9 DEF LogIInv

(* A crash takes only what was not flushed.                                *)
LEMMA CrashInv ==
  ASSUME LogIInv, Crash
  PROVE  LogIInv'
<1>1. /\ VariablesOK /\ Ordered(log, height) /\ PublishedRemembered
      /\ log \in Seq(Records) /\ Len(log) \in Nat /\ flushed \in 0 .. Len(log)
      /\ height \in Nat
  BY LogAssumption DEF LogIInv, VariablesOK
<1>2. /\ flushed' = Len(log') /\ stage' = "down"
      /\ lastSlot' = 0 /\ signed' = NoVote /\ votes' = {}
      /\ UNCHANGED <<chain, height, published, skipped>>
  BY DEF Crash
<1>3. PICK k \in flushed .. Len(log) :
        log' \in {SubSeq(log, 1, k), Append(SubSeq(log, 1, k), Torn)}
  BY DEF Crash
<1> DEFINE kept == SubSeq(log, 1, k)
<1>4. /\ kept \in Seq(Records) /\ Len(kept) = k /\ k \in Nat
      /\ \A i \in 1 .. k : kept[i] = log[i]
  BY <1>1
<1>5. /\ log' \in Seq(Records) /\ Len(log') \in Nat /\ k <= Len(log')
      /\ \A i \in 1 .. k : log'[i] = log[i]
      /\ \A i \in 1 .. Len(log') : i > k => log'[i] = Torn
  <2> HIDE DEF kept
  <2>1. CASE log' = kept
    BY <1>4, <2>1
  <2>2. CASE log' = Append(kept, Torn)
    <3>1. Torn \in Records
      BY DEF Records
    <3>2. /\ log' \in Seq(Records) /\ Len(log') = Len(kept) + 1
          /\ \A i \in 1 .. Len(kept) : log'[i] = kept[i]
          /\ log'[Len(kept) + 1] = Torn
      BY <1>4, <2>2, <3>1, AppendProperties
    <3> QED
      BY <1>4, <3>2
  <2> QED
    BY <1>3, <2>1, <2>2 DEF kept
<1> HIDE DEF kept
<1>6. Ordered(log', height)
  <2>1. ASSUME NEW i \in 1 .. Len(log')
        PROVE  log'[i].height <= height
    <3>1. CASE i > k
      BY <1>1, <1>5, <3>1 DEF Torn
    <3>2. CASE i <= k
      BY <1>1, <1>4, <1>5, <3>2 DEF Ordered
    <3> QED
      BY <1>4, <3>1, <3>2
  <2>2. ASSUME NEW i \in 1 .. Len(log'), NEW j \in 1 .. Len(log'), i <= j, log'[j] # Torn
        PROVE  log'[i].height <= log'[j].height
    <3>1. i \in 1 .. k /\ j \in 1 .. k /\ log'[i] = log[i] /\ log'[j] = log[j]
      BY <1>4, <1>5, <2>2
    <3>2. i \in 1 .. Len(log) /\ j \in 1 .. Len(log)
      BY <1>1, <3>1
    <3> QED
      BY <1>1, <2>2, <3>1, <3>2 DEF Ordered
  <2> QED
    BY <2>1, <2>2 DEF Ordered
<1>7. VariablesOK' /\ SignedIsCurrent' /\ Ordered(log, height)'
  BY <1>1, <1>2, <1>5, <1>6, LogAssumption DEF VariablesOK, SignedIsCurrent
<1>8. PublishedRemembered'
  BY <1>1, <1>2 DEF PublishedRemembered, ReplayGivesBack, DoubleSignNeedsLostReplay
<1>9. ASSUME height \notin skipped
      PROVE  PublicOnDisk' /\ LoggedIsPublic' /\ SlotsAscend'
  <2>1. PublicOnDisk /\ LoggedIsPublic
    BY <1>9 DEF LogIInv
  <2>2. PublicOnDisk'
    <3>1. ASSUME NEW v \in Current
          PROVE  \E i \in 1 .. Len(log') : log'[i] = v
      <4>1. PICK i \in 1 .. flushed : log[i] = v
        BY <2>1 DEF PublicOnDisk
      <4>2. i \in 1 .. k /\ i \in 1 .. Len(log')
        BY <1>1, <1>5
      <4> QED
        BY <1>5, <4>1, <4>2
    <3> QED
      BY <1>2, <3>1 DEF PublicOnDisk, Current
  <2>3. LoggedIsPublic'
    <3>1. ASSUME NEW i \in 1 .. Len(log'), log'[i].kind = "vote", log'[i].height = height
          PROVE  log'[i] \in published
      <4>1. i <= k
        BY <1>4, <1>5, <3>1 DEF Torn
      <4>2. i \in 1 .. k /\ i \in 1 .. Len(log)
        BY <1>1, <1>4, <4>1
      <4> QED
        BY <1>5, <2>1, <3>1, <4>2 DEF LoggedIsPublic
    <3> QED
      BY <1>2, <3>1 DEF LoggedIsPublic
  <2>4. SlotsAscend'
    BY <1>2 DEF SlotsAscend
  <2> QED
    BY <2>2, <2>3, <2>4
<1> QED
  BY <1>2, <1>7, <1>8, <1>9 DEF LogIInv

(* The restart: what replay reads of the log is what is public.            *)
LEMMA RestartInv ==
  ASSUME LogIInv, Restart
  PROVE  LogIInv'
<1>1. /\ VariablesOK /\ SignedIsCurrent /\ Ordered(log, height) /\ PublishedRemembered
      /\ log \in Seq(Records) /\ Len(log) \in Nat /\ flushed \in 0 .. Len(log)
      /\ height \in Nat /\ height = chain + 1
  BY LogAssumption DEF LogIInv, VariablesOK
<1> DEFINE nothing == NothingToReplay(log, height)
           fails   == ~ nothing /\ ReplayFails(log, height)
           known   == IF nothing THEN {} ELSE OwnVotes(log, Replayed(log, height))
<1>2. /\ stage = "down" /\ stage' = "loop" /\ height' = height
      /\ votes' = known /\ lastSlot' = LastSlot(known)
      /\ skipped' = IF nothing \/ fails THEN skipped \cup {height} ELSE skipped
      /\ IF fails THEN log' = <<>> /\ flushed' = 0 ELSE UNCHANGED <<log, flushed>>
      /\ UNCHANGED <<chain, signed, published>>
  BY <1>1, Zenon DEF Restart
<1>3. known \subseteq OwnVoteRecords /\ \A v \in known : v.height = height
  <2>1. /\ OwnVotes(log, Replayed(log, height)) \subseteq OwnVoteRecords
        /\ \A v \in OwnVotes(log, Replayed(log, height)) : v.height = height
    BY <1>1, OwnVotesType
  <2> QED
    BY <2>1
<1>4. height \notin skipped /\ ~ nothing /\ ~ fails => known = Current
  BY <1>1, ReplayFindsCurrent DEF LogIInv
<1> HIDE DEF nothing, fails, known
<1>5. signed = NoVote
  BY <1>1, <1>2 DEF SignedIsCurrent
<1>6. lastSlot' \in 0 .. Slots /\ \A v \in known : v.slot <= lastSlot'
  BY <1>2, <1>3, LastSlotIsLast
<1>7. VariablesOK'
  <2>1. log' \in Seq(Records) /\ flushed' \in 0 .. Len(log')
    <3>1. CASE fails
      <4>1. <<>> \in Seq(Records) /\ 0 \in 0 .. Len(<<>>)
        OBVIOUS
      <4> QED
        BY <1>2, <3>1, <4>1
    <3>2. CASE ~ fails
      BY <1>1, <1>2, <3>2
    <3> QED
      BY <3>1, <3>2
  <2> QED
    BY <1>1, <1>2, <1>3, <1>6, <2>1 DEF VariablesOK
<1>8. SignedIsCurrent' /\ SlotsAscend'
  BY <1>2, <1>5, <1>6 DEF SignedIsCurrent, SlotsAscend
<1>9. Ordered(log', height)
  BY <1>1, <1>2 DEF Ordered
<1>10. DoubleSignNeedsLostReplay'
  BY <1>1, <1>2 DEF PublishedRemembered, DoubleSignNeedsLostReplay
<1>11. ASSUME height \notin skipped'
       PROVE  PublicOnDisk' /\ LoggedIsPublic' /\ ReplayGivesBack'
  <2>1. height \notin skipped /\ ~ nothing /\ ~ fails
    BY <1>2, <1>11
  <2>2. UNCHANGED <<log, flushed, published, height>> /\ votes' = Current
    BY <1>2, <1>4, <2>1
  <2>3. PublicOnDisk' /\ LoggedIsPublic'
    BY <2>1, <2>2 DEF LogIInv, PublicOnDisk, LoggedIsPublic, Current
  <2>4. ReplayGivesBack'
    BY <2>2 DEF ReplayGivesBack, Current
  <2> QED
    BY <2>3, <2>4
<1>12. height \in skipped' => ReplayGivesBack'
  BY <1>2 DEF ReplayGivesBack
<1> QED
  BY <1>2, <1>7, <1>8, <1>9, <1>10, <1>11, <1>12 DEF LogIInv, PublishedRemembered

(* Steps that change neither the log nor the votes.                        *)
LEMMA OtherStepInv ==
  ASSUME LogIInv, stage' = stage \/ (stage = "ended" /\ stage' = "loop"),
         flushed' = flushed \/ flushed' = Len(log),
         UNCHANGED <<log, chain, height, lastSlot, signed, votes, published, skipped>>
  PROVE  LogIInv'
<1>1. log \in Seq(Records) /\ Len(log) \in Nat /\ flushed \in 0 .. Len(log)
  BY DEF LogIInv, VariablesOK
<1>2. VariablesOK' /\ SignedIsCurrent' /\ Ordered(log, height)'
  BY <1>1 DEF LogIInv, VariablesOK, SignedIsCurrent
<1>3. PublishedRemembered'
  BY DEF LogIInv, PublishedRemembered, ReplayGivesBack, DoubleSignNeedsLostReplay
<1>4. height \notin skipped => PublicOnDisk'
  BY <1>1 DEF LogIInv, PublicOnDisk, Current
<1>5. height \notin skipped => LoggedIsPublic' /\ SlotsAscend'
  BY DEF LogIInv, LoggedIsPublic, SlotsAscend
<1> QED
  BY <1>2, <1>3, <1>4, <1>5 DEF LogIInv

LEMMA LogNextInv == LogIInv /\ [LogNext]_logVars => LogIInv'
<1> SUFFICES ASSUME LogIInv, [LogNext]_logVars PROVE LogIInv'
  OBVIOUS
<1>1. ASSUME NEW ok \in BOOLEAN, PeerMessage(ok) PROVE LogIInv'
  <2>1. PeerMsg(height, ok) \in OtherRecords /\ PeerMsg(height, ok).height = height
    BY LogAssumption DEF LogIInv, VariablesOK, PeerMsg, OtherRecords
  <2> QED
    BY <1>1, <2>1, WriteOtherInv DEF PeerMessage
<1>2. ASSUME WriteEndHeight PROVE LogIInv'
  <2>1. EndHeight(height) \in OtherRecords /\ EndHeight(height).height = height
    BY LogAssumption DEF LogIInv, VariablesOK, EndHeight, OtherRecords
  <2> QED
    BY <1>2, <2>1, WriteOtherInv DEF WriteEndHeight
<1>3. ASSUME PeriodicFlush \/ CommitFails \/ UNCHANGED logVars PROVE LogIInv'
  BY <1>3, OtherStepInv DEF PeriodicFlush, CommitFails, logVars
<1>4. ASSUME CommitBlock \/ SyncBlock PROVE LogIInv'
  BY <1>4, NextHeightInv DEF CommitBlock, SyncBlock
<1> QED
  BY <1>1, <1>2, <1>3, <1>4, SignInv, HandleOwnVoteInv, OwnVoteReturnedInv, CrashInv,
     RestartInv DEF LogNext

LEMMA LogInvariance == LogSpec => []LogIInv
  BY InitLogIInv, LogNextInv, PTL DEF LogSpec

(* The counters stay in their ranges and the votes are of this height      *)
(* (StateMachine, WAL).                                                    *)
THEOREM LogTypeCorrect == LogSpec => []LogTypeOK
<1>1. LogIInv => LogTypeOK
  BY LogAssumption DEF LogIInv, VariablesOK, LogTypeOK, OwnVoteRecords
<1> QED
  BY <1>1, LogInvariance, PTL

(* After any crash a replay gives the node back every vote it made public  *)
(* at its height, and two public votes of one slot need a height whose     *)
(* replay was skipped or cut short (msgLoop, replay).                      *)
THEOREM PublishedIsRemembered == LogSpec => []PublishedRemembered
<1>1. LogIInv => PublishedRemembered
  BY DEF LogIInv
<1> QED
  BY <1>1, LogInvariance, PTL

(* A replay is skipped or cut short only for a record a crash cut off, one *)
(* that throws, or the end of a height that is not in the database         *)
(* (searchForLatestEndHeight, replay).                                     *)
THEOREM SkipsHaveReasons == LogSpec => SkippedForAReason
<1>1. LogIInv /\ [LogNext]_logVars => [StepSkipsForAReason]_logVars
  <2> SUFFICES ASSUME LogIInv, LogNext, NEW h \in skipped' \ skipped
               PROVE  \/ Contains(log, Torn)
                      \/ Contains(log, PeerMsg(h, FALSE))
                      \/ Contains(log, EndHeight(h)) /\ chain < h
    BY DEF StepSkipsForAReason
  <2>1. Restart
    BY DEF LogNext, PeerMessage, Sign, HandleOwnVote, OwnVoteReturned, PeriodicFlush,
           WriteEndHeight, CommitBlock, CommitFails, SyncBlock, NextHeight, Crash
  <2>2. /\ log \in Seq(Records) /\ Len(log) \in Nat /\ Ordered(log, height)
        /\ chain \in Nat /\ height = chain + 1
    BY LogAssumption DEF LogIInv, VariablesOK
  <2>3. /\ h = chain + 1
        /\ NothingToReplay(log, h) \/ ReplayFails(log, h)
    BY <2>1 DEF Restart
  <2> DEFINE e == SearchForLatestEndHeight(log)
  <2>4. /\ e.from \in 1 .. Len(log) + 1
        /\ e.height = Undefined <=> Contains(log, Torn)
        /\ \/ e.height \in {0, Undefined} /\ e.from = 1
           \/ /\ e.from - 1 \in 1 .. Len(log)
              /\ log[e.from - 1] = EndHeight(e.height) /\ e.height \in Nat
    BY <2>2, SearchFinds
  <2>5. CASE ReplayFails(log, h)
    <3>1. PICK i \in e.from .. Len(log) : log[i] = PeerMsg(h, FALSE)
      BY <2>5, Zenon DEF ReplayFails
    <3> HIDE DEF e
    <3>2. i \in 1 .. Len(log)
      BY <2>2, <2>4
    <3>3. Contains(log, PeerMsg(h, FALSE))
      BY <3>1, <3>2, Zenon DEF Contains
    <3> QED
      BY <3>3
  <2>6. CASE NothingToReplay(log, h) /\ e.height # Undefined
    <3>1. e.height >= h
      BY <2>6 DEF NothingToReplay
    <3> HIDE DEF e
    <3>2. /\ e.from - 1 \in 1 .. Len(log)
          /\ log[e.from - 1] = EndHeight(e.height) /\ e.height \in Nat
      BY <2>2, <2>3, <2>4, <2>6, <3>1
    <3>3. e.height <= height
      BY <2>2, <3>2 DEF Ordered, EndHeight
    <3>4. e.height = h
      BY <2>2, <2>3, <3>1, <3>2, <3>3
    <3>5. Contains(log, EndHeight(h))
      BY <3>2, <3>4, Zenon DEF Contains
    <3>6. chain < h
      BY <2>2, <2>3
    <3> QED
      BY <3>5, <3>6, Zenon
  <2>7. CASE NothingToReplay(log, h) /\ e.height = Undefined
    BY <2>4, <2>7
  <2> QED
    BY <2>3, <2>5, <2>6, <2>7
<1> QED
  BY <1>1, LogInvariance, PTL DEF LogSpec, SkippedForAReason

-----------------------------------------------------------------------------
(* The evidence pool.                                                      *)

Ascending(s, n, rank) ==
    \A i, j \in 1 .. n : i < j => s[i] # s[j] /\ rank[s[i]] <= rank[s[j]]

(* Every finite set can be put in order: of the smallest that could not,   *)
(* a member of the least rank goes before the others.                      *)
LEMMA OrderExists ==
  ASSUME NEW S, IsFiniteSet(S), NEW rank, \A x \in S : rank[x] \in Nat
  PROVE  \E s \in [1 .. Cardinality(S) -> S] : Ascending(s, Cardinality(S), rank)
<1> DEFINE HasOrder(T, n) == \E s \in [1 .. n -> T] : Ascending(s, n, rank)
           Bad == {n \in Nat : \E T \in SUBSET S : Cardinality(T) = n /\ ~ HasOrder(T, n)}
<1>1. Cardinality(S) \in Nat
  BY FS_CardinalityType
<1>2. SUFFICES ASSUME Bad # {} PROVE FALSE
  BY <1>1
<1>3. PICK n \in Bad : \A k \in Bad : n <= k
  <2>1. Bad \in SUBSET Nat
    OBVIOUS
  <2> HIDE DEF Bad
  <2> QED
    BY <1>2, <2>1, LeastNatural
<1>4. PICK T \in SUBSET S : Cardinality(T) = n /\ ~ HasOrder(T, n)
  BY <1>3
<1>5. IsFiniteSet(T) /\ n \in Nat
  BY <1>4, FS_Subset
<1>6. CASE T = {}
  <2>1. n = 0
    BY <1>4, <1>6, FS_EmptySet
  <2>2. [i \in 1 .. 0 |-> i] \in [1 .. 0 -> T] /\ Ascending([i \in 1 .. 0 |-> i], 0, rank)
    BY DEF Ascending
  <2> QED
    BY <1>4, <2>1, <2>2
<1>7. CASE T # {}
  <2> DEFINE ranks == {rank[x] : x \in T}
  <2>1. PICK least \in ranks : \A r \in ranks : least <= r
    <3>1. ranks \in SUBSET Nat /\ ranks # {}
      BY <1>4, <1>7
    <3> HIDE DEF ranks
    <3> QED
      BY <3>1, LeastNatural
  <2>2. PICK m \in T : \A x \in T : rank[m] <= rank[x]
    BY <2>1
  <2>3. IsFiniteSet(T \ {m}) /\ Cardinality(T \ {m}) = n - 1 /\ n - 1 \in Nat
    <3>1. IsFiniteSet(T \ {m}) /\ Cardinality(T \ {m}) = n - 1
      BY <1>4, <1>5, <2>2, FS_RemoveElement
    <3> QED
      BY <3>1, FS_CardinalityType
  <2>4. n - 1 \notin Bad
    BY <1>3, <1>5, <2>3
  <2>5. PICK t \in [1 .. n - 1 -> T \ {m}] : Ascending(t, n - 1, rank)
    BY <1>4, <2>3, <2>4
  <2> DEFINE s == [i \in 1 .. n |-> IF i = 1 THEN m ELSE t[i - 1]]
  <2>6. /\ s \in [1 .. n -> T]
        /\ \A i \in 1 .. n : i = 1 => s[i] = m
        /\ \A i \in 1 .. n : i # 1 => i - 1 \in 1 .. n - 1 /\ s[i] = t[i - 1]
    BY <1>5, <2>2, <2>3, <2>5
  <2> HIDE DEF s
  <2>7. Ascending(s, n, rank)
    <3> SUFFICES ASSUME NEW i \in 1 .. n, NEW j \in 1 .. n, i < j
                 PROVE  s[i] # s[j] /\ rank[s[i]] <= rank[s[j]]
      BY DEF Ascending
    <3>1. j - 1 \in 1 .. n - 1 /\ s[j] = t[j - 1] /\ t[j - 1] \in T \ {m}
      BY <1>5, <2>5, <2>6
    <3>2. CASE i = 1
      BY <2>2, <2>6, <3>1, <3>2
    <3>3. CASE i # 1
      <4>1. i - 1 \in 1 .. n - 1 /\ s[i] = t[i - 1] /\ i - 1 < j - 1
        BY <1>5, <2>6, <3>3
      <4> QED
        BY <2>5, <3>1, <4>1 DEF Ascending
    <3> QED
      BY <3>2, <3>3
  <2> QED
    BY <1>4, <2>6, <2>7
<1> QED
  BY <1>6, <1>7

LEMMA InOrderIsOrder ==
  ASSUME NEW S, IsFiniteSet(S), NEW rank, \A x \in S : rank[x] \in Nat
  PROVE  /\ Cardinality(S) \in Nat
         /\ InOrder(S, rank) \in [1 .. Cardinality(S) -> S]
         /\ InOrder(S, rank) \in Seq(S)
         /\ Len(InOrder(S, rank)) = Cardinality(S)
         /\ Ascending(InOrder(S, rank), Cardinality(S), rank)
<1> DEFINE o == InOrder(S, rank)
<1>1. Cardinality(S) \in Nat
  BY FS_CardinalityType
<1>2. o \in [1 .. Cardinality(S) -> S] /\ Ascending(o, Cardinality(S), rank)
  BY OrderExists DEF InOrder, Ascending
<1> HIDE DEF o
<1>3. o \in Seq(S) /\ Len(o) = Cardinality(S)
  BY <1>1, <1>2
<1> QED
  BY <1>1, <1>2, <1>3 DEF o

-----------------------------------------------------------------------------
(* A sequence without repetition of items of T.                            *)
Distinct(s, T) == s \in Seq(T) /\ \A i, j \in 1 .. Len(s) : i # j => s[i] # s[j]

LEMMA DistinctIsInjective ==
  ASSUME NEW s, NEW T, s \in Seq(T)
  PROVE  /\ Distinct(s, T) <=> IsInjective(s)
         /\ ToSet(s) = {s[i] : i \in 1 .. Len(s)}
<1>1. DOMAIN s = 1 .. Len(s)
  OBVIOUS
<1> QED
  BY <1>1 DEF Distinct, IsInjective, ToSet

(* deleteFromCache keeps the order and adds nothing.                       *)
LEMMA KeepKeeps ==
  ASSUME NEW T, NEW c \in Seq(T), NEW S
  PROVE  LET k == Keep(c, S)
         IN  /\ k \in Seq(T) /\ Len(k) <= Len(c)
             /\ \A n \in 1 .. Len(k) : k[n] \in S /\ \E i \in 1 .. Len(c) : k[n] = c[i]
             /\ Distinct(c, T) => Distinct(k, T)
<1> DEFINE places == {i \in 1 .. Len(c) : c[i] \in S}
           rank   == [i \in places |-> i]
           kept   == InOrder(places, rank)
           k      == Keep(c, S)
<1>1. /\ Len(c) \in Nat /\ IsFiniteSet(places)
      /\ Cardinality(places) \in Nat /\ Cardinality(places) <= Len(c)
  <2>1. Len(c) \in Nat /\ IsFiniteSet(1 .. Len(c)) /\ Cardinality(1 .. Len(c)) = Len(c)
    <3>1. Len(c) \in Nat /\ 1 \in Int /\ Len(c) \in Int /\ Len(c) - 1 + 1 = Len(c)
      OBVIOUS
    <3>2. /\ IsFiniteSet(1 .. Len(c))
          /\ Cardinality(1 .. Len(c)) = IF 1 > Len(c) THEN 0 ELSE Len(c) - 1 + 1
      BY <3>1, FS_Interval
    <3> QED
      BY <3>1, <3>2
  <2>2. IsFiniteSet(places) /\ Cardinality(places) <= Cardinality(1 .. Len(c))
    BY <2>1, FS_Subset
  <2> QED
    BY <2>1, <2>2, FS_CardinalityType
<1>2. \A i \in places : rank[i] \in Nat /\ rank[i] = i
  OBVIOUS
<1>3. /\ kept \in [1 .. Cardinality(places) -> places]
      /\ Len(kept) = Cardinality(places)
      /\ Ascending(kept, Cardinality(places), rank)
  <2> HIDE DEF places, rank
  <2> QED
    BY <1>1, <1>2, InOrderIsOrder
<1>4. k = [n \in 1 .. Len(kept) |-> c[kept[n]]]
  BY DEF Keep
<1>5. places \subseteq 1 .. Len(c) /\ \A i \in places : c[i] \in S /\ c[i] \in T
  OBVIOUS
<1>6. \A i, j \in 1 .. Len(kept) : i # j => kept[i] # kept[j]
  <2> HIDE DEF kept, places, rank
  <2> SUFFICES ASSUME NEW i \in 1 .. Len(kept), NEW j \in 1 .. Len(kept), i # j
               PROVE  kept[i] # kept[j]
    OBVIOUS
  <2>1. i < j \/ j < i
    BY <1>1, <1>3
  <2> QED
    BY <1>3, <2>1 DEF Ascending
<1> HIDE DEF kept, places, rank, k
<1>7. /\ Len(kept) \in Nat
      /\ \A n \in 1 .. Len(kept) : kept[n] \in places /\ k[n] = c[kept[n]]
  BY <1>1, <1>3, <1>4
<1>8. k \in Seq(T) /\ Len(k) = Len(kept)
  <2>1. k \in [1 .. Len(kept) -> T]
    BY <1>4, <1>5, <1>7
  <2> QED
    BY <1>7, <2>1
<1>9. ASSUME Distinct(c, T)
      PROVE  Distinct(k, T)
  <2> SUFFICES ASSUME NEW i \in 1 .. Len(k), NEW j \in 1 .. Len(k), i # j
               PROVE  k[i] # k[j]
    BY <1>8 DEF Distinct
  <2>1. /\ k[i] = c[kept[i]] /\ k[j] = c[kept[j]] /\ kept[i] # kept[j]
        /\ kept[i] \in 1 .. Len(c) /\ kept[j] \in 1 .. Len(c)
    BY <1>5, <1>6, <1>7, <1>8
  <2> QED
    BY <1>9, <2>1 DEF Distinct
<1>10. \A n \in 1 .. Len(k) : k[n] \in S /\ \E i \in 1 .. Len(c) : k[n] = c[i]
  BY <1>5, <1>7, <1>8
<1> QED
  BY <1>1, <1>3, <1>8, <1>9, <1>10 DEF k

(* addToCache never caches an item twice nor more than its limit.          *)
LEMMA AddToCacheAdds ==
  ASSUME NEW c, Distinct(c, Evidence), NEW evs, Distinct(evs, Evidence)
  PROVE  LET k == AddToCache(c, evs)
         IN  /\ Distinct(k, Evidence) /\ Len(k) <= MaxCacheSize
             /\ ToSet(k) \subseteq ToSet(c) \cup ToSet(evs)
<1> DEFINE new    == Keep(evs, Evidence \ ToSet(c))
           longer == c \o new
           first  == IF Len(longer) > MaxCacheSize THEN Len(longer) - MaxCacheSize + 1 ELSE 1
           k      == AddToCache(c, evs)
<1>1. /\ c \in Seq(Evidence) /\ evs \in Seq(Evidence)
      /\ ToSet(c) = {c[i] : i \in 1 .. Len(c)} /\ ToSet(evs) = {evs[i] : i \in 1 .. Len(evs)}
  <2>1. c \in Seq(Evidence) /\ evs \in Seq(Evidence)
    BY DEF Distinct
  <2> QED
    BY <2>1, DistinctIsInjective
<1>2. /\ new \in Seq(Evidence) /\ Distinct(new, Evidence)
      /\ \A n \in 1 .. Len(new) : new[n] \in ToSet(evs) /\ new[n] \notin ToSet(c)
  <2>1. /\ new \in Seq(Evidence) /\ Len(new) <= Len(evs)
        /\ \A n \in 1 .. Len(new) : /\ new[n] \in Evidence \ ToSet(c)
                                    /\ \E i \in 1 .. Len(evs) : new[n] = evs[i]
        /\ Distinct(evs, Evidence) => Distinct(new, Evidence)
    <3>1. evs \in Seq(Evidence)
      BY <1>1
    <3> QED
      BY <3>1, KeepKeeps
  <2> HIDE DEF new
  <2> QED
    BY <1>1, <2>1
<1>3. k = SubSeq(longer, first, Len(longer))
  BY DEF AddToCache
<1> HIDE DEF new, k
<1>4. /\ longer \in Seq(Evidence) /\ Len(longer) = Len(c) + Len(new)
      /\ Len(c) \in Nat /\ Len(new) \in Nat
      /\ \A i \in 1 .. Len(c) : longer[i] = c[i]
      /\ \A i \in Len(c) + 1 .. Len(c) + Len(new) :
            i - Len(c) \in 1 .. Len(new) /\ longer[i] = new[i - Len(c)]
  BY <1>1, <1>2, ConcatProperties
<1> HIDE DEF longer
<1>5. /\ Distinct(longer, Evidence)
      /\ \A i \in 1 .. Len(longer) : longer[i] \in ToSet(c) \cup ToSet(evs)
  <2>1. \A i \in 1 .. Len(longer) :
          \/ i \in 1 .. Len(c)
          \/ i \in Len(c) + 1 .. Len(c) + Len(new)
    BY <1>4
  <2>2. \A i \in 1 .. Len(c) : c[i] \in ToSet(c)
    BY <1>1
  <2>3. ASSUME NEW i \in 1 .. Len(longer), NEW j \in 1 .. Len(longer), i < j
        PROVE  longer[i] # longer[j]
    <3>1. CASE i \in 1 .. Len(c) /\ j \in 1 .. Len(c)
      BY <1>4, <2>3, <3>1 DEF Distinct
    <3>2. CASE i \in 1 .. Len(c) /\ j \in Len(c) + 1 .. Len(c) + Len(new)
      BY <1>2, <1>4, <2>2, <3>2
    <3>3. CASE i \in Len(c) + 1 .. Len(c) + Len(new) /\ j \in Len(c) + 1 .. Len(c) + Len(new)
      <4>1. /\ i - Len(c) # j - Len(c)
            /\ i - Len(c) \in 1 .. Len(new) /\ j - Len(c) \in 1 .. Len(new)
            /\ longer[i] = new[i - Len(c)] /\ longer[j] = new[j - Len(c)]
        BY <1>4, <2>3, <3>3
      <4>2. \A x, y \in 1 .. Len(new) : x # y => new[x] # new[y]
        BY <1>2 DEF Distinct
      <4> QED
        BY <4>1, <4>2, Zenon
    <3> QED
      BY <1>4, <2>1, <2>3, <3>1, <3>2, <3>3
  <2>4. \A i, j \in 1 .. Len(longer) : i # j => i < j \/ j < i
    OBVIOUS
  <2> QED
    BY <1>2, <1>4, <2>1, <2>2, <2>3, <2>4 DEF Distinct
<1>6. MaxCacheSize \in Nat \ {0}
  BY PoolAssumption
<1>7. first \in 1 .. Len(longer) + 1 /\ Len(longer) - first + 1 <= MaxCacheSize
  BY <1>4, <1>6
<1> HIDE DEF first
<1>8. /\ k \in Seq(Evidence) /\ Len(k) = Len(longer) - first + 1
      /\ \A i \in 1 .. Len(k) : i + first - 1 \in 1 .. Len(longer) /\ k[i] = longer[i + first - 1]
  <2>1. k = SubSeq(longer, first, Len(longer)) /\ Len(longer) \in Nat
    BY <1>3, <1>4
  <2>2. first \in Int /\ 1 <= first /\ first <= Len(longer) + 1
    BY <1>7, <2>1
  <2>3. first - 1 \in Nat /\ Len(longer) - first + 1 \in Nat
    BY <2>1, <2>2
  <2> QED
    BY <1>4, <2>1, <2>2, <2>3
<1>9. Distinct(k, Evidence)
  <2> SUFFICES ASSUME NEW i \in 1 .. Len(k), NEW j \in 1 .. Len(k), i # j
               PROVE  k[i] # k[j]
    BY <1>8 DEF Distinct
  <2>1. /\ k[i] = longer[i + first - 1] /\ k[j] = longer[j + first - 1]
        /\ i + first - 1 \in 1 .. Len(longer) /\ j + first - 1 \in 1 .. Len(longer)
        /\ i + first - 1 # j + first - 1
    BY <1>4, <1>7, <1>8
  <2> QED
    BY <1>5, <2>1 DEF Distinct
<1>10. ToSet(k) = {k[i] : i \in 1 .. Len(k)}
  BY <1>8, DistinctIsInjective
<1> QED
  BY <1>5, <1>7, <1>8, <1>9, <1>10 DEF k

(* The database read between two heights: pending items of those heights.  *)
LEMMA LoadPendingLoads ==
  ASSUME NEW P \in SUBSET Evidence, IsFiniteSet(P), NEW from \in Int, NEW to \in Int
  PROVE  LET l == LoadPending(P, from, to)
         IN  /\ Distinct(l, Evidence)
             /\ \A i \in 1 .. Len(l) : l[i] \in P /\ HeightOf[l[i]] \in from .. to
<1> DEFINE S == {ev \in P : HeightOf[ev] \in from .. to}
           l == LoadPending(P, from, to)
<1>1. IsFiniteSet(S) /\ \A x \in S : HeightOf[x] \in Nat
  BY FS_Subset, PoolAssumption
<1>2. l = InOrder(S, HeightOf)
  BY DEF LoadPending
<1>3. S \subseteq P /\ S \subseteq Evidence /\ \A x \in S : HeightOf[x] \in from .. to
  OBVIOUS
<1> HIDE DEF S, l
<1>4. /\ Cardinality(S) \in Nat /\ l \in [1 .. Cardinality(S) -> S]
      /\ l \in Seq(S) /\ Len(l) = Cardinality(S) /\ Ascending(l, Cardinality(S), HeightOf)
  BY <1>1, <1>2, InOrderIsOrder
<1>5. l \in Seq(Evidence) /\ \A i \in 1 .. Len(l) : l[i] \in S
  BY <1>3, <1>4
<1>6. \A i, j \in 1 .. Len(l) : i # j => l[i] # l[j]
  <2> SUFFICES ASSUME NEW i \in 1 .. Len(l), NEW j \in 1 .. Len(l), i # j
               PROVE  l[i] # l[j]
    OBVIOUS
  <2>1. i < j \/ j < i
    BY <1>4
  <2> QED
    BY <1>4, <2>1 DEF Ascending
<1> QED
  BY <1>3, <1>5, <1>6 DEF Distinct, l

LEMMA AtMostTakes ==
  ASSUME NEW s, Distinct(s, Evidence), NEW k \in Nat
  PROVE  /\ Distinct(AtMost(s, k), Evidence) /\ Len(AtMost(s, k)) <= k
         /\ \A i \in 1 .. Len(AtMost(s, k)) : i \in 1 .. Len(s) /\ AtMost(s, k)[i] = s[i]
<1> DEFINE n == IF Len(s) < k THEN Len(s) ELSE k
           t == AtMost(s, k)
<1>1. s \in Seq(Evidence) /\ n \in 0 .. Len(s) /\ n <= k /\ Len(s) \in Nat
  BY DEF Distinct
<1>2. t = SubSeq(s, 1, n)
  BY DEF AtMost
<1> HIDE DEF n, t
<1>3. t \in Seq(Evidence) /\ Len(t) = n /\ \A i \in 1 .. n : t[i] = s[i]
  BY <1>1, <1>2
<1> QED
  BY <1>1, <1>3 DEF Distinct, t

LEMMA PruningHeightIsHeight ==
  ASSUME NEW h \in Nat, NEW P \in SUBSET Evidence
  PROVE  PruningHeight(h, P) \in Nat
<1> DEFINE left == Prune(h, P)
           heights == {HeightOf[e] : e \in left}
<1>1. MaxAge \in Nat /\ left \subseteq Evidence /\ HeightOf \in [Evidence -> Nat]
  BY PoolAssumption DEF Prune
<1>2. CASE left = {}
  BY <1>2 DEF PruningHeight
<1>3. CASE left # {}
  <2>1. heights \in SUBSET Nat /\ heights # {}
    BY <1>1, <1>3
  <2>2. PICK x \in heights : \A y \in heights : x <= y
    <3> HIDE DEF heights
    <3> QED
      BY <2>1, LeastNatural
  <2>3. \E ev \in left : \A e \in left : HeightOf[ev] <= HeightOf[e]
    BY <2>2
  <2> DEFINE oldest == CHOOSE ev \in left : \A e \in left : HeightOf[ev] <= HeightOf[e]
  <2>4. oldest \in left
    BY <2>3
  <2>5. PruningHeight(h, P) = MaxAge + HeightOf[oldest]
    BY <1>3 DEF PruningHeight
  <2> HIDE DEF oldest, left
  <2> QED
    BY <1>1, <2>4, <2>5
<1> QED
  BY <1>2, <1>3

-----------------------------------------------------------------------------
PoolIInv ==
    /\ blocks \in Seq(SUBSET Evidence) /\ chainHeight <= MaxBlocks
    /\ poolHeight \in 0 .. chainHeight /\ pruningHeight \in Nat
    /\ pending \subseteq Evidence /\ IsFiniteSet(pending) /\ committed \subseteq Evidence
    /\ Distinct(cache, Evidence) /\ Len(cache) <= MaxCacheSize
    /\ ToSet(cache) \subseteq pending
    /\ CommittedNotPending

LEMMA InitPoolIInv == PoolInit => PoolIInv
<1> SUFFICES ASSUME PoolInit PROVE PoolIInv
  OBVIOUS
<1>1. /\ blocks = <<>> /\ cache = <<>> /\ pending = {} /\ committed = {}
      /\ poolHeight = 0 /\ pruningHeight = 0
  BY DEF PoolInit
<1>2. Distinct(cache, Evidence) /\ ToSet(cache) = {} /\ Len(cache) = 0
  BY <1>1 DEF Distinct, ToSet
<1>3. IsFiniteSet(pending)
  BY <1>1, FS_EmptySet
<1> QED
  BY <1>1, <1>2, <1>3, PoolAssumption DEF PoolIInv, CommittedNotPending, chainHeight

LEMMA ToSetIsFinite ==
  ASSUME NEW s \in Seq(Evidence)
  PROVE  IsFiniteSet(ToSet(s)) /\ ToSet(s) \subseteq Evidence
<1>1. ToSet(s) = {s[i] : i \in 1 .. Len(s)} /\ Len(s) \in Nat
  BY DistinctIsInjective
<1>2. IsFiniteSet(1 .. Len(s))
  <2>1. 1 \in Int /\ Len(s) \in Int
    BY <1>1
  <2> QED
    BY <2>1, FS_Interval
<1> DEFINE f == [i \in 1 .. Len(s) |-> s[i]]
<1>3. f \in Surjection(1 .. Len(s), {s[i] : i \in 1 .. Len(s)})
  BY DEF Surjection
<1> HIDE DEF f
<1>4. IsFiniteSet({s[i] : i \in 1 .. Len(s)})
  BY <1>2, <1>3, FS_Surjection
<1> QED
  BY <1>1, <1>4

(* Items that are not committed become pending, and some of them cached.   *)
LEMMA AddingInv ==
  ASSUME PoolIInv, NEW new \in SUBSET Evidence, IsFiniteSet(new), new \cap committed = {},
         NEW evs, Distinct(evs, Evidence), ToSet(evs) \subseteq new,
         pending' = pending \cup new, cache' = AddToCache(cache, evs),
         UNCHANGED <<poolHeight, pruningHeight, committed, blocks, torn>>
  PROVE  PoolIInv'
<1>1. IsFiniteSet(pending') /\ pending' \subseteq Evidence
  BY FS_Union DEF PoolIInv
<1>2. /\ Distinct(cache', Evidence) /\ Len(cache') <= MaxCacheSize
      /\ ToSet(cache') \subseteq pending'
  <2>1. Distinct(cache, Evidence) /\ ToSet(cache) \subseteq pending
    BY DEF PoolIInv
  <2> QED
    BY <2>1, AddToCacheAdds
<1>3. CommittedNotPending'
  BY DEF PoolIInv, CommittedNotPending
<1> QED
  BY <1>1, <1>2, <1>3 DEF PoolIInv, chainHeight

LEMMA AddEvidenceInv ==
  ASSUME PoolIInv, NEW ev \in Evidence, AddEvidence(ev)
  PROVE  PoolIInv'
<1> DEFINE evs == <<ev>>
<1>1. evs \in Seq(Evidence) /\ Len(evs) = 1 /\ evs[1] = ev
  OBVIOUS
<1> HIDE DEF evs
<1>2. Distinct(evs, Evidence) /\ ToSet(evs) = {ev}
  <2>1. ToSet(evs) = {evs[i] : i \in 1 .. Len(evs)}
    BY <1>1, DistinctIsInjective
  <2> QED
    BY <1>1, <2>1 DEF Distinct
<1>3. /\ ev \notin committed /\ pending' = pending \cup {ev}
      /\ cache' = AddToCache(cache, evs)
      /\ UNCHANGED <<poolHeight, pruningHeight, committed, blocks, torn>>
  BY DEF AddEvidence, evs
<1>4. IsFiniteSet({ev}) /\ {ev} \cap committed = {}
  BY <1>3, FS_Singleton
<1> QED
  BY <1>2, <1>3, <1>4, AddingInv

(* What passes checkEvidence before the first item that throws is neither  *)
(* committed nor repeated.                                                 *)
LEMMA PassedPasses ==
  ASSUME NEW s \in Seq(Evidence)
  PROVE  /\ Distinct(PassedBefore(s), Evidence)
         /\ \A i \in 1 .. Len(PassedBefore(s)) : ~ IsRefused(PassedBefore(s)[i])
<1> DEFINE IsBad(i) == IsRefused(s[i]) \/ \E j \in 1 .. i - 1 : s[j] = s[i]
           bad == {i \in 1 .. Len(s) : IsBad(i)}
           n   == IF bad = {} THEN Len(s) ELSE Min(bad) - 1
           t   == PassedBefore(s)
<1>1. Len(s) \in Nat
  OBVIOUS
<1>2. /\ n \in 0 .. Len(s)
      /\ \A i \in 1 .. n : ~ IsBad(i)
  <2>1. CASE bad = {}
    BY <1>1, <2>1
  <2>2. CASE bad # {}
    <3>1. bad \in SUBSET Nat /\ bad \subseteq 1 .. Len(s)
      OBVIOUS
    <3>2. \A i \in 1 .. Len(s) : IsBad(i) => i \in bad
      OBVIOUS
    <3> HIDE DEF bad, IsBad
    <3>3. \E x \in bad : \A y \in bad : x <= y
      BY <2>2, <3>1, LeastNatural
    <3>4. Min(bad) \in bad /\ \A y \in bad : Min(bad) <= y
      BY <3>3 DEF Min
    <3>5. n = Min(bad) - 1 /\ Min(bad) \in 1 .. Len(s)
      BY <2>2, <3>1, <3>4
    <3>6. n \in 0 .. Len(s)
      BY <1>1, <3>5
    <3>7. ASSUME NEW i \in 1 .. n
          PROVE  ~ IsBad(i)
      <4>1. i \in 1 .. Len(s) /\ i < Min(bad)
        BY <1>1, <3>5, <3>6
      <4>2. IsBad(i) => Min(bad) <= i
        BY <3>2, <3>4, <4>1, Zenon
      <4>3. Min(bad) \in Nat /\ i \in Nat
        <5>1. Min(bad) \in Nat
          BY <3>1, <3>4
        <5>2. i \in Nat
          BY <1>1, <4>1
        <5> QED
          BY <5>1, <5>2
      <4> HIDE DEF n
      <4>4. ~ (Min(bad) <= i)
        BY <4>1, <4>3
      <4> QED
        BY <4>2, <4>4, Zenon
    <3> QED
      BY <3>6, <3>7
  <2> QED
    BY <2>1, <2>2
<1>3. t = SubSeq(s, 1, n)
  <2>1. bad = {} => t = s /\ n = Len(s)
    BY DEF PassedBefore
  <2>2. bad # {} => t = SubSeq(s, 1, n)
    BY DEF PassedBefore
  <2> HIDE DEF bad, n, t
  <2>3. SubSeq(s, 1, Len(s)) = s
    BY SubSeqFull
  <2> QED
    BY <2>1, <2>2, <2>3
<1> HIDE DEF n, t, bad
<1>4. t \in Seq(Evidence) /\ Len(t) = n /\ \A i \in 1 .. n : t[i] = s[i]
  BY <1>1, <1>2, <1>3
<1>5. \A i \in 1 .. n : ~ IsRefused(t[i])
  BY <1>2, <1>4
<1>6. \A i, j \in 1 .. n : i < j => t[i] # t[j]
  <2> SUFFICES ASSUME NEW i \in 1 .. n, NEW j \in 1 .. n, i < j
               PROVE  s[i] # s[j]
    BY <1>4
  <2>1. i \in 1 .. j - 1
    BY <1>1, <1>2
  <2> QED
    BY <1>2, <2>1
<1>7. Distinct(t, Evidence)
  <2> SUFFICES ASSUME NEW i \in 1 .. n, NEW j \in 1 .. n, i # j
               PROVE  t[i] # t[j]
    BY <1>4 DEF Distinct
  <2>1. i < j \/ j < i
    BY <1>2
  <2> QED
    BY <1>6, <2>1
<1> QED
  BY <1>4, <1>5, <1>7 DEF t

LEMMA CheckEvidenceInv ==
  ASSUME PoolIInv, NEW s \in Seq(Evidence), CheckEvidence(s)
  PROVE  PoolIInv'
<1> DEFINE passed == PassedBefore(s)
           new    == ToSet(passed) \ pending
           evs    == Keep(passed, new)
<1>1. /\ Distinct(passed, Evidence) /\ passed \in Seq(Evidence)
      /\ \A i \in 1 .. Len(passed) : passed[i] \notin committed
  <2>1. /\ Distinct(passed, Evidence)
        /\ \A i \in 1 .. Len(passed) : ~ IsRefused(passed[i])
    BY PassedPasses
  <2> HIDE DEF passed
  <2> QED
    BY <2>1 DEF Distinct, IsRefused
<1>2. /\ pending' = pending \cup new /\ cache' = AddToCache(cache, evs)
      /\ UNCHANGED <<poolHeight, pruningHeight, committed, blocks, torn>>
  BY DEF CheckEvidence
<1> HIDE DEF passed
<1>3. ToSet(passed) = {passed[i] : i \in 1 .. Len(passed)}
  BY <1>1, DistinctIsInjective
<1>4. new \subseteq Evidence /\ IsFiniteSet(new) /\ new \cap committed = {}
  <2>1. ToSet(passed) \subseteq Evidence /\ IsFiniteSet(ToSet(passed))
    BY <1>1, ToSetIsFinite
  <2> QED
    BY <1>1, <1>3, <2>1, FS_Subset
<1> HIDE DEF new
<1>5. Distinct(evs, Evidence) /\ \A i \in 1 .. Len(evs) : evs[i] \in new
  BY <1>1, KeepKeeps
<1> HIDE DEF evs
<1>6. ToSet(evs) \subseteq new
  <2>1. ToSet(evs) = {evs[i] : i \in 1 .. Len(evs)}
    BY <1>5, DistinctIsInjective DEF Distinct
  <2> QED
    BY <1>5, <2>1
<1> QED
  BY <1>2, <1>4, <1>5, <1>6, AddingInv

LEMMA PutBlockInv ==
  ASSUME PoolIInv, NEW evs \in SUBSET Evidence, PutBlock(evs)
  PROVE  PoolIInv'
<1>1. /\ blocks' = Append(blocks, evs) /\ poolHeight = chainHeight /\ chainHeight < MaxBlocks
      /\ UNCHANGED <<poolHeight, pruningHeight, cache, pending, committed, torn>>
  BY DEF PutBlock
<1>2. blocks \in Seq(SUBSET Evidence) /\ MaxBlocks \in Nat
  BY PoolAssumption DEF PoolIInv
<1>3. blocks' \in Seq(SUBSET Evidence) /\ Len(blocks') = Len(blocks) + 1 /\ Len(blocks) \in Nat
  BY <1>1, <1>2
<1>4. /\ chainHeight' <= MaxBlocks /\ poolHeight' \in 0 .. chainHeight'
  BY <1>1, <1>2, <1>3 DEF chainHeight
<1> QED
  BY <1>1, <1>3, <1>4 DEF PoolIInv, CommittedNotPending

LEMMA UpdateInv ==
  ASSUME PoolIInv, NEW h \in 0 .. chainHeight, NEW done \in SUBSET Evidence, Update(h, done)
  PROVE  PoolIInv'
<1> DEFINE left   == pending \ done
           prunes == h >= pruningHeight
           kept   == IF prunes THEN Prune(h, left) ELSE left
           gone   == done \cup (left \ kept)
<1>1. /\ poolHeight' = h /\ committed' = committed \cup done /\ pending' = kept
      /\ pruningHeight' = IF prunes THEN PruningHeight(h, left) ELSE pruningHeight
      /\ cache' = Keep(cache, Evidence \ gone)
      /\ UNCHANGED <<blocks, torn>>
  BY DEF Update
<1>2. /\ kept \subseteq left /\ left \subseteq pending /\ left \cap done = {}
      /\ pending \ gone \subseteq kept /\ left \in SUBSET Evidence
  BY DEF Prune, PoolIInv
<1>3. h \in Nat /\ pruningHeight' \in Nat
  <2>1. h \in Nat
    BY DEF PoolIInv, chainHeight
  <2>2. PruningHeight(h, left) \in Nat
    BY <1>2, <2>1, PruningHeightIsHeight
  <2> QED
    BY <1>1, <2>1, <2>2 DEF PoolIInv
<1> HIDE DEF kept, left, gone, prunes
<1>4. IsFiniteSet(kept) /\ kept \subseteq Evidence
  BY <1>2, FS_Subset DEF PoolIInv
<1>5. /\ Distinct(cache', Evidence) /\ Len(cache') <= MaxCacheSize
      /\ ToSet(cache') \subseteq kept
  <2>1. /\ cache \in Seq(Evidence) /\ Distinct(cache, Evidence)
        /\ Len(cache) <= MaxCacheSize /\ MaxCacheSize \in Nat
    BY PoolAssumption DEF PoolIInv, Distinct
  <2>2. /\ cache' \in Seq(Evidence) /\ Len(cache') <= Len(cache)
        /\ \A n \in 1 .. Len(cache') : /\ cache'[n] \in Evidence \ gone
                                       /\ \E i \in 1 .. Len(cache) : cache'[n] = cache[i]
        /\ Distinct(cache', Evidence)
    <3> DEFINE k == Keep(cache, Evidence \ gone)
    <3>1. /\ k \in Seq(Evidence) /\ Len(k) <= Len(cache)
          /\ \A n \in 1 .. Len(k) : /\ k[n] \in Evidence \ gone
                                   /\ \E i \in 1 .. Len(cache) : k[n] = cache[i]
          /\ Distinct(cache, Evidence) => Distinct(k, Evidence)
      BY <2>1, KeepKeeps
    <3> HIDE DEF k
    <3>2. cache' = k
      BY <1>1 DEF k
    <3> QED
      BY <2>1, <3>1, <3>2
  <2>3. /\ ToSet(cache) = {cache[i] : i \in 1 .. Len(cache)}
        /\ ToSet(cache') = {cache'[i] : i \in 1 .. Len(cache')}
    BY <2>1, <2>2, DistinctIsInjective
  <2>4. ToSet(cache') \subseteq kept
    BY <1>2, <2>2, <2>3 DEF PoolIInv
  <2> QED
    BY <2>1, <2>2, <2>4
<1>6. CommittedNotPending'
  BY <1>1, <1>2 DEF PoolIInv, CommittedNotPending
<1> QED
  BY <1>1, <1>3, <1>4, <1>5, <1>6 DEF PoolIInv, chainHeight

LEMMA NewBlockInv ==
  ASSUME PoolIInv, NewBlock
  PROVE  PoolIInv'
<1>1. poolHeight + 1 \in 1 .. Len(blocks) /\ blocks \in Seq(SUBSET Evidence)
  BY DEF NewBlock, PoolIInv, chainHeight
<1>2. blocks[poolHeight + 1] \in SUBSET Evidence
  BY <1>1, ElementOfSeq
<1>3. /\ poolHeight + 1 \in 0 .. chainHeight
      /\ blocks[poolHeight + 1] \ committed \in SUBSET Evidence
  BY <1>1, <1>2 DEF chainHeight
<1> QED
  BY <1>3, UpdateInv DEF NewBlock

(* A restart with what is pending in the database.                         *)
LEMMA RestartedInv ==
  ASSUME PoolIInv, NEW P \in SUBSET pending, Restarted(P),
         committed' \subseteq Evidence, P \cap committed' \subseteq torn'
  PROVE  PoolIInv'
<1> DEFINE left   == Prune(chainHeight, P)
           load   == LoadPending(left, 0, chainHeight + 1)
           newest == Reverse(load)
<1>1. /\ poolHeight' = chainHeight /\ pending' = left
      /\ pruningHeight' = PruningHeight(chainHeight, P)
      /\ cache' = AtMost(newest, MaxCacheSize) /\ blocks' = blocks
  BY DEF Restarted
<1>2. /\ left \subseteq P /\ left \subseteq Evidence /\ P \subseteq Evidence
      /\ IsFiniteSet(left) /\ chainHeight \in Nat
  BY FS_Subset DEF Prune, PoolIInv, chainHeight
<1>3. pruningHeight' \in Nat
  BY <1>1, <1>2, PruningHeightIsHeight
<1> HIDE DEF left
<1>4. Distinct(load, Evidence) /\ \A i \in 1 .. Len(load) : load[i] \in left
  <2>1. 0 \in Int /\ chainHeight + 1 \in Int
    BY <1>2
  <2>2. /\ Distinct(load, Evidence)
        /\ \A i \in 1 .. Len(load) : load[i] \in left /\ HeightOf[load[i]] \in 0 .. chainHeight + 1
    BY <1>2, <2>1, LoadPendingLoads, Zenon
  <2> QED
    BY <2>2
<1>5. Distinct(newest, Evidence) /\ \A i \in 1 .. Len(newest) : newest[i] \in left
  <2>1. newest = [i \in 1 .. Len(load) |-> load[(Len(load) - i) + 1]]
    BY DEF Reverse
  <2>2. load \in Seq(Evidence) /\ Len(load) \in Nat
    BY <1>4 DEF Distinct
  <2> HIDE DEF load, newest
  <2>3. \A i \in 1 .. Len(load) : (Len(load) - i) + 1 \in 1 .. Len(load)
    BY <2>2
  <2>4. /\ newest \in Seq(Evidence) /\ Len(newest) = Len(load)
        /\ \A i \in 1 .. Len(load) : newest[i] = load[(Len(load) - i) + 1]
    <3>1. newest \in [1 .. Len(load) -> Evidence]
      BY <2>1, <2>2, <2>3
    <3> QED
      BY <2>1, <2>2, <3>1
  <2>5. \A i, j \in 1 .. Len(newest) : i # j => newest[i] # newest[j]
    <3> SUFFICES ASSUME NEW i \in 1 .. Len(newest), NEW j \in 1 .. Len(newest), i # j
                 PROVE  newest[i] # newest[j]
      OBVIOUS
    <3>1. (Len(load) - i) + 1 # (Len(load) - j) + 1
      BY <2>2, <2>4
    <3> QED
      BY <1>4, <2>3, <2>4, <3>1 DEF Distinct
  <2>6. \A i \in 1 .. Len(newest) : newest[i] \in left
    BY <1>4, <2>3, <2>4
  <2> QED
    BY <2>4, <2>5, <2>6 DEF Distinct
<1> HIDE DEF newest, load
<1>6. /\ Distinct(cache', Evidence) /\ Len(cache') <= MaxCacheSize
      /\ \A i \in 1 .. Len(cache') : cache'[i] \in left
  <2>1. MaxCacheSize \in Nat
    BY PoolAssumption
  <2>2. /\ Distinct(cache', Evidence) /\ Len(cache') <= MaxCacheSize
        /\ \A i \in 1 .. Len(cache') : i \in 1 .. Len(newest) /\ cache'[i] = newest[i]
    BY <1>1, <1>5, <2>1, AtMostTakes
  <2> QED
    BY <1>5, <2>2
<1>7. ToSet(cache') \subseteq left
  <2>1. cache' \in Seq(Evidence)
    BY <1>6 DEF Distinct
  <2>2. ToSet(cache') = {cache'[i] : i \in 1 .. Len(cache')}
    BY <2>1, DistinctIsInjective
  <2> QED
    BY <1>6, <2>2
<1>8. CommittedNotPending'
  BY <1>1, <1>2 DEF CommittedNotPending
<1> QED
  BY <1>1, <1>2, <1>3, <1>6, <1>7, <1>8 DEF PoolIInv, chainHeight

LEMMA PoolNextInv == PoolIInv /\ [PoolNext]_poolVars => PoolIInv'
<1> SUFFICES ASSUME PoolIInv, [PoolNext]_poolVars PROVE PoolIInv'
  OBVIOUS
<1>1. ASSUME NEW s \in SeqOf(Evidence, MaxEvidenceCount), CheckEvidence(s) PROVE PoolIInv'
  <2>1. PICK m \in 0 .. MaxEvidenceCount : s \in [1 .. m -> Evidence]
    BY DEF SeqOf
  <2>2. s \in Seq(Evidence)
    BY <2>1, PoolAssumption
  <2> QED
    BY <1>1, <2>2, CheckEvidenceInv
<1>2. ASSUME CrashBetween PROVE PoolIInv'
  <2>1. /\ Restarted(pending) /\ committed' \subseteq Evidence
        /\ pending \cap committed' \subseteq torn'
    BY <1>2 DEF CrashBetween, PoolIInv, CommittedNotPending
  <2> QED
    BY <2>1, RestartedInv
<1>3. ASSUME CrashInUpdate PROVE PoolIInv'
  <2>1. PICK done \in SUBSET (blocks[chainHeight] \ committed),
             half \in blocks[chainHeight] \ committed :
               /\ half \notin done
               /\ committed' = committed \cup done \cup {half}
               /\ torn' = torn \cup {half}
               /\ Restarted(pending \ done)
    BY <1>3 DEF CrashInUpdate
  <2>2. blocks[chainHeight] \subseteq Evidence
    <3>1. chainHeight \in 1 .. Len(blocks) /\ blocks \in Seq(SUBSET Evidence)
      BY <1>3 DEF CrashInUpdate, PoolIInv, chainHeight
    <3>2. blocks[chainHeight] \in SUBSET Evidence
      BY <3>1, ElementOfSeq
    <3> QED
      BY <3>2
  <2>3. committed' \subseteq Evidence /\ (pending \ done) \cap committed' \subseteq torn'
    BY <2>1, <2>2 DEF PoolIInv, CommittedNotPending
  <2> QED
    BY <2>1, <2>3, RestartedInv
<1>4. ASSUME UNCHANGED poolVars PROVE PoolIInv'
  BY <1>4 DEF PoolIInv, poolVars, CommittedNotPending, chainHeight
<1> QED
  BY <1>1, <1>2, <1>3, <1>4, AddEvidenceInv, PutBlockInv, NewBlockInv DEF PoolNext

LEMMA PoolInvariance == PoolSpec => []PoolIInv
  BY InitPoolIInv, PoolNextInv, PTL DEF PoolSpec

(* Heights are ordered, the database holds evidence and the cache is       *)
(* within its limit (EvidencePool).                                        *)
THEOREM PoolTypeCorrect == PoolSpec => []PoolTypeOK
<1>1. PoolIInv => PoolTypeOK
  BY DEF PoolIInv, PoolTypeOK
<1> QED
  BY <1>1, PoolInvariance, PTL

(* pickEvidence's window is the one isExpired and "future evidence" leave. *)
LEMMA PickedIsPending ==
  ASSUME PoolIInv, NEW ev \in ToSet(PickEvidence(poolHeight))
  PROVE  ev \in pending /\ HeightOf[ev] <= poolHeight /\ ~ IsExpiredAt(ev, poolHeight)
<1> DEFINE from == IF poolHeight + 1 > MaxAge THEN poolHeight + 1 - MaxAge ELSE 0
           load == LoadPending(pending, from, poolHeight)
           pick == AtMost(load, MaxEvidenceCount)
<1>1. /\ poolHeight \in Nat /\ from \in Nat /\ MaxAge \in Nat \ {0}
      /\ MaxEvidenceCount \in Nat /\ \A e \in Evidence : HeightOf[e] \in Nat
      /\ pending \in SUBSET Evidence /\ IsFiniteSet(pending)
  BY PoolAssumption DEF PoolIInv, chainHeight
<1>2. poolHeight # 0 /\ ev \in ToSet(pick)
  BY DEF PickEvidence, ToSet
<1>3. \A h \in from .. poolHeight : h <= poolHeight /\ ~ (poolHeight - h >= MaxAge)
  BY <1>1
<1> HIDE DEF from
<1>4. /\ Distinct(load, Evidence)
      /\ \A i \in 1 .. Len(load) : load[i] \in pending /\ HeightOf[load[i]] \in from .. poolHeight
  BY <1>1, LoadPendingLoads
<1> HIDE DEF load
<1>5. /\ Distinct(pick, Evidence)
      /\ \A i \in 1 .. Len(pick) : i \in 1 .. Len(load) /\ pick[i] = load[i]
  BY <1>1, <1>4, AtMostTakes
<1> HIDE DEF pick
<1>6. ToSet(pick) = {pick[i] : i \in 1 .. Len(pick)}
  BY <1>5, DistinctIsInjective DEF Distinct
<1>7. ev \in pending /\ HeightOf[ev] \in from .. poolHeight
  BY <1>2, <1>4, <1>5, <1>6
<1> QED
  BY <1>3, <1>7 DEF IsExpiredAt

(* What the node proposes passes its own check, what it broadcasts is      *)
(* pending, once, and what is committed is not pending, unless a crash     *)
(* tore an update (pickEvidence, addToCache, update, init).                *)
THEOREM PickedAcceptable == PoolSpec => []PickedIsAcceptable
<1>1. PoolIInv => PickedIsAcceptable
  <2> SUFFICES ASSUME PoolIInv PROVE PickedIsAcceptable
    OBVIOUS
  <2>1. CommittedNotPending
    BY DEF PoolIInv
  <2>2. CacheIsPending
    BY DistinctIsInjective DEF PoolIInv, CacheIsPending, Distinct
  <2>3. PickedPasses
    <3> SUFFICES ASSUME NEW ev \in ToSet(PickEvidence(poolHeight)), IsRefused(ev)
                 PROVE  ev \in torn
      BY DEF PickedPasses
    <3>1. ev \in pending /\ HeightOf[ev] <= poolHeight /\ ~ IsExpiredAt(ev, poolHeight)
      BY PickedIsPending
    <3>2. ~ (HeightOf[ev] > poolHeight)
      BY <3>1, PoolAssumption DEF PoolIInv, chainHeight
    <3>3. ev \in committed
      BY <3>1, <3>2 DEF IsRefused
    <3> QED
      BY <2>1, <3>1, <3>3 DEF CommittedNotPending
  <2> QED
    BY <2>1, <2>2, <2>3 DEF PickedIsAcceptable
<1> QED
  BY <1>1, PoolInvariance, PTL

(* Evidence leaves the database only when it is committed or has expired   *)
(* (update, pruneExpiredPendingEvidence, init).                            *)
THEOREM EvidenceIsKept == PoolSpec => EvidenceKept
<1>1. [PoolNext]_poolVars => [StepKeepsEvidence]_poolVars
  <2> SUFFICES ASSUME PoolNext, NEW ev \in pending, ev \notin pending'
               PROVE  ev \in committed' \/ IsExpiredAt(ev, poolHeight')
    BY DEF StepKeepsEvidence
  <2>1. ASSUME NewBlock PROVE ev \in committed' \/ IsExpiredAt(ev, poolHeight')
    BY <2>1 DEF NewBlock, Update, Prune, Expired
  <2>2. ASSUME CrashBetween PROVE IsExpiredAt(ev, poolHeight')
    BY <2>2 DEF CrashBetween, Restarted, Prune, Expired
  <2>3. ASSUME CrashInUpdate PROVE ev \in committed' \/ IsExpiredAt(ev, poolHeight')
    <3>1. PICK done \in SUBSET (blocks[chainHeight] \ committed),
               half \in blocks[chainHeight] \ committed :
                 /\ committed' = committed \cup done \cup {half}
                 /\ Restarted(pending \ done)
      BY <2>3 DEF CrashInUpdate
    <3> QED
      BY <3>1 DEF Restarted, Prune, Expired
  <2> QED
    BY <2>1, <2>2, <2>3 DEF PoolNext, AddEvidence, CheckEvidence, PutBlock
<1> QED
  BY <1>1, PTL DEF PoolSpec, EvidenceKept
=============================================================================
