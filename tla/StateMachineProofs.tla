------------------------- MODULE StateMachineProofs -------------------------
(***************************************************************************)
(* Proofs about the consensus state machine, for any validators, voting    *)
(* powers, peers, blocks and rounds, and whatever the network sends: the   *)
(* node keeps the promises of Consensus.tla, its round and step never go   *)
(* back, and what it is locked on, keeps as valid and commits has +2/3 of  *)
(* the votes it needs.                                                     *)
(*                                                                         *)
(* A node is bound by every vote it has signed, also by one that is still  *)
(* in its queue: the inductive invariant is about the votes it has made    *)
(* public together with those in the queue.                                *)
(***************************************************************************)
EXTENDS StateMachine, VoteSetsProofs, SequenceTheorems

AllRounds == 0 .. MaxRound + 1

(* What can be in the queue.                                               *)
OwnVotes == [type : VoteTypes, round : RoundNumbers, hash : Hashes]
OwnProposals == [type : {"proposal"}, round : RoundNumbers, POLRound : RoundOrNone,
                 hash : Blocks]
OwnBlocks == [type : {"block"}, hash : Blocks]
TimedSteps == {NewHeight, Propose, PrevoteWait, PrecommitWait}
Timeouts == [type : {"timeout"}, round : RoundNumbers, step : TimedSteps]
Messages == OwnVotes \cup OwnProposals \cup OwnBlocks \cup Timeouts

Proposals == [round : RoundNumbers, POLRound : RoundOrNone, hash : Blocks]
Timers == [round : RoundNumbers, step : TimedSteps]
Creations == [round : RoundNumbers, POLRound : RoundOrNone]

(* The types of the StateMachine object's fields.                          *)
Nodes ==
    [round : RoundNumbers, step : NewHeight .. Commit,
     proposal : Proposals \cup {NoProposal}, proposalBlockHash : BlockOrNone,
     proposalBlock : BlockOrNone, executed : BOOLEAN,
     lockedRound : RoundOrNone, lockedBlock : BlockOrNone, lockedExecuted : BOOLEAN,
     validRound : RoundOrNone, validBlock : BlockOrNone,
     votes : HeightVoteSets(AllRounds, Peers \cup {Local}),
     commitRound : RoundOrNone, triggeredTimeoutPrecommit : BOOLEAN,
     timer : Timers \cup {NoTimer},
     maxRound : RoundNumbers, maxStep : NewHeight .. Commit,
     creating : SUBSET Creations, sent : Seq(Messages), committed : BlockOrNone]

-----------------------------------------------------------------------------
(* A handler works on the object m while the queue is q: what it has       *)
(* pushed comes after q.                                                   *)
Queue(m, q) == q \o m.sent

PublicOwn(m) == {u \in OwnVotes : Self \in VotersOf(m.votes, u.round, u.type, u.hash)}
QueuedOwn(m, q) == {u \in OwnVotes : \E i \in 1 .. Len(Queue(m, q)) : Queue(m, q)[i] = u}
Own(m, q) == PublicOwn(m) \cup QueuedOwn(m, q)

(* Places in the height, in the order in which they are reached.           *)
Place(r, st) == 10 * r + st
At(m) == Place(m.round, m.step)
PlaceOf(u) == Place(u.round, IF u.type = "prevotes" THEN Prevote ELSE Precommit)

Polka(m, r, h) == IsQuorum(VotersOf(m.votes, r, "prevotes", h))

(* By round r there is the polka that lets the node leave the block it     *)
(* precommitted with u.                                                    *)
MayLeave(m, u, r) ==
    \E s \in RoundNumbers, g \in Hashes :
        u.round < s /\ s <= r /\ g # u.hash /\ Polka(m, s, g)

PrecommitsOf(U) == {u \in U : u.type = "precommits" /\ u.hash # Nil}

(* A validator's votes come in ascending places, none beyond where the     *)
(* node is, the queued ones after the public ones.                         *)
VotesAscend(m, q) ==
    /\ \A u \in Own(m, q) : PlaceOf(u) <= At(m)
    /\ \A u \in PublicOwn(m), w \in QueuedOwn(m, q) : PlaceOf(u) < PlaceOf(w)
    /\ \A i, j \in 1 .. Len(Queue(m, q)) :
         (i < j /\ Queue(m, q)[i] \in OwnVotes /\ Queue(m, q)[j] \in OwnVotes)
            => PlaceOf(Queue(m, q)[i]) < PlaceOf(Queue(m, q)[j])
    /\ QueuedOwn(m, q) # {} => Self \in Validators

(* The lock has its polka ...                                              *)
LockHasPolka(m) ==
    /\ m.lockedBlock = None <=> m.lockedRound = -1
    /\ m.lockedBlock # None =>
          m.lockedRound <= m.round /\ Prevotes(m, m.lockedRound).maj23 = m.lockedBlock

(* ... and remembers every block precommitted, up to those that a later    *)
(* polka lets the node leave.                                              *)
LockRemembers(m, q) ==
    \A u \in PrecommitsOf(Own(m, q)) :
        \/ u.hash = m.lockedBlock /\ u.round <= m.lockedRound
        \/ MayLeave(m, u, m.round)

(* What is queued may be made public.                                      *)
QueuedAllowed(m, q) ==
    /\ \A w \in PrecommitsOf(QueuedOwn(m, q)) : Polka(m, w.round, w.hash)
    /\ \A u \in PrecommitsOf(Own(m, q)), w \in QueuedOwn(m, q) :
         (w.type = "prevotes" /\ u.hash # w.hash /\ u.round < w.round)
            => MayLeave(m, u, w.round)

(* No timer runs for a round the node has not reached.                     *)
TimersReached(m, q) ==
    /\ m.timer.round <= m.round
    /\ \A i \in 1 .. Len(Queue(m, q)) : Queue(m, q)[i] \in Timeouts =>
         /\ Queue(m, q)[i].round <= m.round
         /\ Queue(m, q)[i].step = PrecommitWait => Queue(m, q)[i].round < MaxRound

(* Only a valid block counts as executed, and what is committed has +2/3   *)
(* of the precommits of some round.                                        *)
ExecutedIsValid(m) ==
    /\ m.executed => m.proposalBlock \in Valid
    /\ m.lockedExecuted => m.lockedBlock \in Valid
    /\ m.committed # None =>
         /\ \E r \in RoundNumbers : Precommits(m, r).maj23 = m.committed
         /\ m.committed \in Valid

NodeInv(m, q) ==
    /\ m \in Nodes /\ VoteSetsOK(m.votes) /\ q \in Seq(Messages)
    /\ VotesAscend(m, q)
    /\ LockHasPolka(m) /\ LockRemembers(m, q)
    /\ QueuedAllowed(m, q)
    /\ TimersReached(m, q)
    /\ ExecutedIsValid(m)

(* The inductive invariant.                                                *)
IInv == NodeInv(n, msgQueue) /\ n.sent = <<>> /\ synced \in BlockOrNone /\ over \in BOOLEAN

(* From m to k the node has moved on, or stayed, and no vote was added.    *)
SameVotes(m, k) ==
    \A r \in AllRounds, y \in VoteTypes : GetVoteSet(k.votes, r, y) = GetVoteSet(m.votes, r, y)
MovesOn(m, k) == SameVotes(m, k) /\ At(m) <= At(k)
-----------------------------------------------------------------------------
(* Facts about the constants, steps and places.                            *)
LEMMA Constants ==
  /\ MaxRound \in Nat /\ MaxRound + 1 \in Nat
  /\ RoundNumbers \subseteq AllRounds /\ 0 \in RoundNumbers
  /\ Valid \subseteq Blocks /\ Blocks \subseteq Hashes
  /\ None \notin Hashes /\ Nil \notin Blocks /\ Nil \in Hashes
  /\ Blocks \subseteq BlockOrNone /\ None \in BlockOrNone
  /\ RoundNumbers \subseteq RoundOrNone /\ -1 \in RoundOrNone
  /\ "prevotes" \in VoteTypes /\ "precommits" \in VoteTypes
  BY MaxRoundAssumption, OwnBlockAssumption, HashAssumption
     DEF RoundNumbers, AllRounds, Hashes, BlockOrNone, RoundOrNone, VoteTypes

(* A +2/3 recorded by addVerifiedVote is one.                              *)
LEMMA MajorityIsPolka ==
  ASSUME NEW m, VoteSetsOK(m.votes), NEW r, Prevotes(m, r).maj23 # None
  PROVE  Polka(m, r, Prevotes(m, r).maj23) /\ Prevotes(m, r).maj23 \in Hashes
<1>1. VoteSetInv(Prevotes(m, r))
  BY GetVoteSetInv, Constants DEF Prevotes
<1> QED
  BY <1>1 DEF VoteSetInv, VoteSetType, Maj23OK, Polka, VotersOf, Prevotes

(* Polkas depend on the votes alone.                                       *)
LEMMA SamePolkas ==
  ASSUME NEW m, NEW k, SameVotes(m, k)
  PROVE  /\ \A r \in RoundNumbers : /\ Prevotes(k, r) = Prevotes(m, r)
                                    /\ Precommits(k, r) = Precommits(m, r)
         /\ \A r \in RoundNumbers : \A h : Polka(k, r, h) = Polka(m, r, h)
         /\ \A u, r : MayLeave(k, u, r) = MayLeave(m, u, r)
         /\ PublicOwn(k) = PublicOwn(m)
<1>1. \A r \in RoundNumbers, y \in VoteTypes : GetVoteSet(k.votes, r, y) = GetVoteSet(m.votes, r, y)
  BY Constants DEF SameVotes
<1>2. /\ \A r \in RoundNumbers : /\ Prevotes(k, r) = Prevotes(m, r)
                                 /\ Precommits(k, r) = Precommits(m, r)
      /\ \A r \in RoundNumbers : \A h : Polka(k, r, h) = Polka(m, r, h)
  BY <1>1, Constants DEF Prevotes, Precommits, Polka, VotersOf
<1>3. \A u, r : MayLeave(k, u, r) = MayLeave(m, u, r)
  BY <1>2 DEF MayLeave
<1>4. PublicOwn(k) = PublicOwn(m)
  BY <1>1 DEF PublicOwn, VotersOf, OwnVotes
<1> QED
  BY <1>2, <1>3, <1>4

(* With round and step in range, a later place is a later round, or a      *)
(* later step of the same round.                                           *)
LEMMA Places ==
  ASSUME NEW r \in RoundNumbers, NEW s \in RoundNumbers,
         NEW x \in NewHeight .. Commit, NEW y \in NewHeight .. Commit
  PROVE  /\ Place(r, x) <= Place(s, y) <=> (r < s \/ (r = s /\ x <= y))
         /\ Place(r, x) <= Place(s, y) => r <= s
  BY MaxRoundAssumption DEF RoundNumbers, Place, NewHeight, Commit

(* What the types say of the place of the object.                          *)
LEMMA NodeFacts ==
  ASSUME NEW m \in Nodes
  PROVE  /\ m.round \in RoundNumbers /\ m.step \in NewHeight .. Commit
         /\ m.round \in Int /\ m.step \in Int /\ At(m) \in Int
<1>1. m.round \in RoundNumbers /\ m.step \in NewHeight .. Commit
  BY DEF Nodes
<1>2. m.round \in Int /\ m.step \in Int
  BY <1>1 DEF RoundNumbers, NewHeight, Commit
<1> QED
  BY <1>1, <1>2 DEF At, Place

(* A step that leaves the lock, the votes and what is queued alone, and    *)
(* does not go back, keeps the invariant.                                  *)
LEMMA KeepsInv ==
  ASSUME NEW m, NEW q, NodeInv(m, q), NEW k \in Nodes, VoteSetsOK(k.votes), MovesOn(m, k),
         k.sent = m.sent, k.lockedRound = m.lockedRound, k.lockedBlock = m.lockedBlock,
         k.timer.round <= k.round, ExecutedIsValid(k)
  PROVE  NodeInv(k, q)
<1>1. /\ m.round \in RoundNumbers /\ m.step \in NewHeight .. Commit
      /\ k.round \in RoundNumbers /\ k.step \in NewHeight .. Commit
      /\ m.lockedRound \in RoundOrNone
      /\ At(m) \in Int /\ At(k) \in Int /\ At(m) <= At(k)
  <2>1. m \in Nodes /\ At(m) <= At(k)
    BY DEF NodeInv, MovesOn
  <2>2. m.lockedRound \in RoundOrNone
    BY <2>1 DEF Nodes
  <2> QED
    BY <2>1, <2>2, NodeFacts
<1>2. m.round <= k.round
  BY <1>1, Places DEF At
<1>3. /\ Queue(k, q) = Queue(m, q) /\ QueuedOwn(k, q) = QueuedOwn(m, q)
      /\ PublicOwn(k) = PublicOwn(m) /\ Own(k, q) = Own(m, q)
  BY SamePolkas DEF MovesOn, Queue, QueuedOwn, Own
<1>4. \A u \in Own(m, q) : PlaceOf(u) \in Int /\ u.round \in Int
  BY DEF Own, PublicOwn, QueuedOwn, OwnVotes, PlaceOf, Place, Prevote, Precommit, RoundNumbers
<1>5. VotesAscend(k, q)
  BY <1>1, <1>3, <1>4 DEF NodeInv, VotesAscend
<1>6. LockHasPolka(k)
  <2>1. m.lockedBlock # None => m.lockedRound \in RoundNumbers
    BY <1>1 DEF NodeInv, LockHasPolka, RoundOrNone, RoundNumbers
  <2>2. \A r \in RoundNumbers : Prevotes(k, r) = Prevotes(m, r)
    BY SamePolkas DEF MovesOn
  <2>3. m.lockedBlock # None => m.lockedRound <= k.round
    BY <1>1, <1>2 DEF NodeInv, LockHasPolka, RoundNumbers, RoundOrNone
  <2> QED
    BY <2>1, <2>2, <2>3 DEF NodeInv, LockHasPolka
<1>7. LockRemembers(k, q)
  <2>1. \A u, r : MayLeave(k, u, r) = MayLeave(m, u, r)
    BY SamePolkas DEF MovesOn
  <2>2. \A u : MayLeave(m, u, m.round) => MayLeave(m, u, k.round)
    BY <1>1, <1>2 DEF MayLeave, RoundNumbers
  <2> QED
    BY <1>3, <2>1, <2>2 DEF NodeInv, LockRemembers
<1>8. QueuedAllowed(k, q)
  <2>1. /\ \A u, r : MayLeave(k, u, r) = MayLeave(m, u, r)
        /\ \A r \in RoundNumbers : \A h : Polka(k, r, h) = Polka(m, r, h)
    BY SamePolkas DEF MovesOn
  <2>2. \A w \in QueuedOwn(m, q) : w.round \in RoundNumbers
    BY DEF QueuedOwn, OwnVotes
  <2> QED
    BY <1>3, <2>1, <2>2 DEF NodeInv, QueuedAllowed, PrecommitsOf
<1>9. TimersReached(k, q)
  <2>1. \A i \in 1 .. Len(Queue(m, q)) :
           Queue(m, q)[i] \in Timeouts => Queue(m, q)[i].round \in RoundNumbers
    BY DEF Timeouts
  <2> QED
    BY <1>1, <1>2, <1>3, <2>1 DEF NodeInv, TimersReached, RoundNumbers
<1> QED
  BY <1>5, <1>6, <1>7, <1>8, <1>9 DEF NodeInv
-----------------------------------------------------------------------------
(* _newMessage.                                                            *)
LEMMA Pushed ==
  ASSUME NEW m \in Nodes, NEW q \in Seq(Messages), NEW msg \in Messages
  PROVE  LET k == Push(m, msg)
         IN  /\ k \in Nodes /\ k.votes = m.votes /\ k.round = m.round /\ k.step = m.step
             /\ k.lockedRound = m.lockedRound /\ k.lockedBlock = m.lockedBlock
             /\ k.timer = m.timer
             /\ ExecutedIsValid(m) => ExecutedIsValid(k)
             /\ Queue(m, q) \in Seq(Messages) /\ Len(Queue(m, q)) \in Nat
             /\ Len(Queue(k, q)) = Len(Queue(m, q)) + 1
             /\ \A i \in 1 .. Len(Queue(m, q)) : Queue(k, q)[i] = Queue(m, q)[i]
             /\ Queue(k, q)[Len(Queue(m, q)) + 1] = msg
<1> DEFINE k == Push(m, msg)
<1>1. /\ m.sent \in Seq(Messages) /\ Append(m.sent, msg) \in Seq(Messages)
      /\ k = [m EXCEPT !.sent = Append(m.sent, msg)]
  BY DEF Nodes, Push
<1>2. /\ k \in Nodes /\ k.votes = m.votes /\ k.round = m.round /\ k.step = m.step
      /\ k.lockedRound = m.lockedRound /\ k.lockedBlock = m.lockedBlock
      /\ k.timer = m.timer /\ k.sent = Append(m.sent, msg)
      /\ k.executed = m.executed /\ k.proposalBlock = m.proposalBlock
      /\ k.lockedExecuted = m.lockedExecuted /\ k.committed = m.committed
  BY <1>1 DEF Nodes
<1> HIDE DEF k
<1>3. ExecutedIsValid(m) => ExecutedIsValid(k)
  BY <1>2 DEF ExecutedIsValid, Precommits
<1>4. /\ Queue(m, q) \in Seq(Messages) /\ Len(Queue(m, q)) \in Nat
      /\ Queue(k, q) = Append(Queue(m, q), msg)
  BY <1>1, <1>2 DEF Queue
<1>5. /\ Len(Queue(k, q)) = Len(Queue(m, q)) + 1
      /\ \A i \in 1 .. Len(Queue(m, q)) : Queue(k, q)[i] = Queue(m, q)[i]
      /\ Queue(k, q)[Len(Queue(m, q)) + 1] = msg
  BY <1>4, AppendProperties
<1> QED
  BY <1>2, <1>3, <1>4, <1>5 DEF k

(* A message that is no vote binds the node to nothing.                    *)
LEMMA PushOther ==
  ASSUME NEW m, NEW q, NodeInv(m, q), NEW msg \in Messages \ OwnVotes,
         msg \in Timeouts => /\ msg.round <= m.round
                             /\ msg.step = PrecommitWait => msg.round < MaxRound
  PROVE  NodeInv(Push(m, msg), q) /\ MovesOn(m, Push(m, msg))
<1> DEFINE k == Push(m, msg)
           N == Len(Queue(m, q))
<1>1. /\ k \in Nodes /\ k.votes = m.votes /\ k.round = m.round /\ k.step = m.step
      /\ k.lockedRound = m.lockedRound /\ k.lockedBlock = m.lockedBlock
      /\ k.timer = m.timer /\ ExecutedIsValid(k) /\ q \in Seq(Messages)
      /\ N \in Nat /\ Len(Queue(k, q)) = N + 1
      /\ \A i \in 1 .. N : Queue(k, q)[i] = Queue(m, q)[i]
      /\ Queue(k, q)[N + 1] = msg
  BY Pushed DEF NodeInv
<1>2. m.round \in Int /\ m.step \in Int
  BY DEF NodeInv, Nodes, RoundNumbers, NewHeight, Commit
<1> HIDE DEF k
<1>3. MovesOn(m, k)
  BY <1>1, <1>2 DEF MovesOn, SameVotes, At, Place
<1>4. \A i \in 1 .. N + 1 : i \in 1 .. N \/ (i = N + 1 /\ Queue(k, q)[i] \notin OwnVotes)
  BY <1>1
<1>5. QueuedOwn(k, q) = QueuedOwn(m, q) /\ PublicOwn(k) = PublicOwn(m)
  BY <1>1, <1>4 DEF QueuedOwn, PublicOwn
<1>6. VotesAscend(k, q)
  BY <1>1, <1>4, <1>5 DEF NodeInv, VotesAscend, Own, At
<1>7. LockHasPolka(k) /\ LockRemembers(k, q) /\ QueuedAllowed(k, q)
  BY <1>1, <1>5
     DEF NodeInv, LockHasPolka, LockRemembers, QueuedAllowed, Own, MayLeave, Polka, Prevotes
<1>8. TimersReached(k, q)
  <2>1. \A i \in 1 .. N + 1 : i \in 1 .. N \/ i = N + 1
    BY <1>1
  <2> QED
    BY <1>1, <2>1 DEF NodeInv, TimersReached
<1> QED
  BY <1>1, <1>3, <1>6, <1>7, <1>8 DEF NodeInv, k

(* signVote keeps the invariant for a vote in a later place than the       *)
(* node's, if a prevote does not contradict a precommit without a polka    *)
(* that allows it, and a precommit for a block has its polka and its lock. *)
(* (The node moves to that place next: k is where it will be.)             *)
LEMMA PushVote ==
  ASSUME NEW m, NEW q, NodeInv(m, q), NEW y \in VoteTypes, NEW h \in Hashes,
         NEW st \in {Prevote, Precommit}, y = "prevotes" <=> st = Prevote,
         At(m) < Place(m.round, st),
         y = "prevotes" => \A u \in PrecommitsOf(Own(m, q)) :
                              u.hash # h /\ u.round < m.round => MayLeave(m, u, m.round),
         y = "precommits" /\ h # Nil => /\ Polka(m, m.round, h)
                                        /\ m.lockedBlock = h /\ m.lockedRound = m.round
  PROVE  LET k == [SignVote(m, y, h) EXCEPT !.step = st]
         IN  NodeInv(k, q) /\ MovesOn(m, k)
<1> DEFINE w == OwnVote(y, m.round, h)
           s == SignVote(m, y, h)
           k == [s EXCEPT !.step = st]
           N == Len(Queue(m, q))
<1>1. /\ m \in Nodes /\ q \in Seq(Messages) /\ m.round \in RoundNumbers
      /\ m.step \in NewHeight .. Commit /\ st \in NewHeight .. Commit
      /\ ExecutedIsValid(m) /\ VoteSetsOK(m.votes)
  BY DEF NodeInv, Nodes, NewHeight, Commit, Prevote, Precommit
<1>2. w \in OwnVotes /\ w.type = y /\ w.round = m.round /\ w.hash = h
  BY <1>1 DEF OwnVote, OwnVotes
<1>3. At(m) <= Place(m.round, st) /\ At(m) \in Int /\ Place(m.round, st) \in Int
  <2>1. st \in Int /\ m.step \in Int /\ m.round \in Int
    BY <1>1 DEF RoundNumbers, NewHeight, Commit
  <2> QED
    BY <2>1 DEF At, Place
<1>4. CASE Self \notin Validators
  <2>1. s = m /\ k = [m EXCEPT !.step = st]
    BY <1>4 DEF SignVote
  <2>2. /\ k \in Nodes /\ k.votes = m.votes /\ k.sent = m.sent /\ k.round = m.round
        /\ k.lockedRound = m.lockedRound /\ k.lockedBlock = m.lockedBlock /\ k.step = st
        /\ k.timer = m.timer /\ k.executed = m.executed /\ k.proposalBlock = m.proposalBlock
        /\ k.lockedExecuted = m.lockedExecuted /\ k.committed = m.committed
    BY <1>1, <2>1 DEF Nodes
  <2> HIDE DEF k
  <2>3. MovesOn(m, k)
    BY <1>3, <2>2 DEF MovesOn, SameVotes, At
  <2>4. ExecutedIsValid(k) /\ k.timer.round <= k.round
    BY <1>1, <2>2 DEF ExecutedIsValid, Precommits, NodeInv, TimersReached
  <2> QED
    BY <1>1, <2>2, <2>3, <2>4, KeepsInv DEF k
<1>5. CASE Self \in Validators
  <2>1. s = Push(m, w)
    BY <1>5 DEF SignVote
  <2>2. /\ s \in Nodes /\ s.votes = m.votes /\ s.round = m.round /\ s.step = m.step
        /\ s.lockedRound = m.lockedRound /\ s.lockedBlock = m.lockedBlock
        /\ s.timer = m.timer /\ ExecutedIsValid(s)
        /\ N \in Nat /\ Len(Queue(s, q)) = N + 1
        /\ \A i \in 1 .. N : Queue(s, q)[i] = Queue(m, q)[i]
        /\ Queue(s, q)[N + 1] = w
    BY <1>1, <1>2, <2>1, Pushed DEF Messages
  <2> HIDE DEF s, w
  <2>3. /\ k \in Nodes /\ k.votes = s.votes /\ k.sent = s.sent /\ k.round = s.round
        /\ k.lockedRound = s.lockedRound /\ k.lockedBlock = s.lockedBlock /\ k.step = st
        /\ k.timer = s.timer /\ k.executed = s.executed /\ k.proposalBlock = s.proposalBlock
        /\ k.lockedExecuted = s.lockedExecuted /\ k.committed = s.committed
    BY <1>1, <2>2 DEF Nodes
  <2> HIDE DEF k
  <2>4. /\ Queue(k, q) = Queue(s, q) /\ ExecutedIsValid(k)
    BY <2>2, <2>3 DEF Queue, ExecutedIsValid, Precommits
  <2>5. MovesOn(m, k)
    BY <1>3, <2>2, <2>3 DEF MovesOn, SameVotes, At
  <2>6. \A i \in 1 .. N + 1 : i \in 1 .. N \/ i = N + 1
    BY <2>2
  <2>7. PublicOwn(k) = PublicOwn(m) /\ QueuedOwn(k, q) = QueuedOwn(m, q) \cup {w}
    <3>1. QueuedOwn(k, q) \subseteq QueuedOwn(m, q) \cup {w}
      BY <2>2, <2>4, <2>6 DEF QueuedOwn
    <3>2. w \in QueuedOwn(k, q)
      BY <1>2, <2>2, <2>4 DEF QueuedOwn
    <3>3. QueuedOwn(m, q) \subseteq QueuedOwn(k, q)
      <4>1. 1 .. N \subseteq 1 .. N + 1
        BY <2>2
      <4> QED
        BY <2>2, <2>4, <4>1 DEF QueuedOwn
    <3> QED
      BY <2>2, <2>3, <3>1, <3>2, <3>3 DEF PublicOwn
  <2>8. Own(k, q) = Own(m, q) \cup {w}
    BY <2>7 DEF Own
  <2>9. /\ PlaceOf(w) = Place(m.round, st) /\ At(k) = Place(m.round, st)
        /\ At(m) < PlaceOf(w) /\ \A u \in Own(m, q) : PlaceOf(u) \in Int
    <3>1. PlaceOf(w) = Place(m.round, st) /\ At(k) = Place(m.round, st)
      BY <1>2, <2>2, <2>3 DEF PlaceOf, At, VoteTypes
    <3>2. \A u \in OwnVotes : PlaceOf(u) \in Int
      BY DEF OwnVotes, PlaceOf, Place, RoundNumbers, Prevote, Precommit
    <3> QED
      BY <3>1, <3>2 DEF Own, PublicOwn, QueuedOwn
  <2>10. VotesAscend(k, q)
    <3>1. \A u \in Own(k, q) : PlaceOf(u) <= At(k)
      BY <1>3, <2>8, <2>9 DEF NodeInv, VotesAscend
    <3>2. \A u \in PublicOwn(k), x \in QueuedOwn(k, q) : PlaceOf(u) < PlaceOf(x)
      BY <1>3, <2>7, <2>9 DEF NodeInv, VotesAscend, Own
    <3>3. ASSUME NEW i \in 1 .. N + 1, NEW j \in 1 .. N + 1, i < j,
                 Queue(k, q)[i] \in OwnVotes, Queue(k, q)[j] \in OwnVotes
          PROVE  PlaceOf(Queue(k, q)[i]) < PlaceOf(Queue(k, q)[j])
      <4>1. i \in 1 .. N /\ Queue(k, q)[i] = Queue(m, q)[i]
        BY <2>2, <2>4, <3>3
      <4>2. CASE j \in 1 .. N
        BY <2>2, <2>4, <3>3, <4>1, <4>2 DEF NodeInv, VotesAscend
      <4>3. CASE j = N + 1
        <5>1. Queue(m, q)[i] \in Own(m, q)
          BY <3>3, <4>1 DEF Own, QueuedOwn
        <5> QED
          BY <1>3, <2>2, <2>4, <2>9, <4>1, <4>3, <5>1 DEF NodeInv, VotesAscend
      <4> QED
        BY <2>6, <4>2, <4>3
    <3> QED
      BY <1>5, <2>2, <2>4, <3>1, <3>2, <3>3 DEF VotesAscend
  <2>11. /\ \A u, r : MayLeave(k, u, r) = MayLeave(m, u, r)
         /\ \A r, g : Polka(k, r, g) = Polka(m, r, g)
         /\ \A r : Prevotes(k, r) = Prevotes(m, r)
    BY <2>2, <2>3 DEF MayLeave, Polka, Prevotes
  <2>12. LockHasPolka(k)
    BY <2>2, <2>3, <2>11 DEF NodeInv, LockHasPolka
  <2>13. LockRemembers(k, q)
    <3>1. ASSUME w \in PrecommitsOf(Own(k, q))
          PROVE  w.hash = m.lockedBlock /\ w.round <= m.lockedRound
      BY <1>1, <1>2, <3>1 DEF PrecommitsOf, RoundNumbers
    <3> QED
      BY <2>2, <2>3, <2>8, <2>11, <3>1 DEF NodeInv, LockRemembers, PrecommitsOf
  <2>14. QueuedAllowed(k, q)
    <3>1. \A x \in PrecommitsOf(QueuedOwn(k, q)) : Polka(k, x.round, x.hash)
      BY <1>2, <2>7, <2>11 DEF NodeInv, QueuedAllowed, PrecommitsOf
    <3>2. ASSUME NEW u \in PrecommitsOf(Own(k, q)), NEW x \in QueuedOwn(k, q),
                 x.type = "prevotes", u.hash # x.hash, u.round < x.round
          PROVE  MayLeave(k, u, x.round)
      <4>1. CASE u = w
        <5>1. x \in QueuedOwn(m, q) /\ w.type = "precommits"
          BY <2>7, <3>2, <4>1 DEF PrecommitsOf
        <5>2. PlaceOf(x) <= At(m) /\ x.round \in RoundNumbers
          BY <5>1 DEF NodeInv, VotesAscend, Own, QueuedOwn, OwnVotes
        <5>3. m.round < x.round
          BY <1>2, <3>2, <4>1
        <5>4. PlaceOf(x) = Place(x.round, Prevote) /\ Prevote \in NewHeight .. Commit
          BY <3>2 DEF PlaceOf, Prevote, NewHeight, Commit
        <5>5. x.round <= m.round
          BY <1>1, <5>2, <5>4, Places DEF At
        <5> QED
          BY <1>1, <5>2, <5>3, <5>5 DEF RoundNumbers
      <4>2. CASE u # w /\ x = w
        BY <1>2, <2>8, <2>11, <3>2, <4>2 DEF PrecommitsOf
      <4>3. CASE u # w /\ x # w
        BY <2>7, <2>8, <2>11, <3>2, <4>3 DEF NodeInv, QueuedAllowed, PrecommitsOf
      <4> QED
        BY <4>1, <4>2, <4>3
    <3> QED
      BY <3>1, <3>2 DEF QueuedAllowed
  <2>15. TimersReached(k, q)
    <3>1. w \notin Timeouts
      BY <1>2 DEF Timeouts, VoteTypes
    <3> QED
      BY <2>2, <2>3, <2>4, <2>6, <3>1 DEF NodeInv, TimersReached
  <2> QED
    BY <1>1, <2>2, <2>3, <2>4, <2>5, <2>10, <2>12, <2>13, <2>14, <2>15 DEF NodeInv, k, s
<1> QED
  BY <1>4, <1>5

(* A lock that has its polka and forgets no precommit it must remember.    *)
LEMMA Relocks ==
  ASSUME NEW m, NEW q, NodeInv(m, q), NEW k \in Nodes,
         k.votes = m.votes, k.round = m.round, k.step = m.step, k.timer = m.timer,
         k.sent = m.sent, ExecutedIsValid(k), LockHasPolka(k), LockRemembers(k, q)
  PROVE  NodeInv(k, q) /\ MovesOn(m, k)
<1>1. m.round \in Int /\ m.step \in Int
  BY DEF NodeInv, Nodes, RoundNumbers, NewHeight, Commit
<1>2. MovesOn(m, k) /\ At(k) = At(m)
  BY <1>1 DEF MovesOn, SameVotes, At, Place
<1>3. /\ Queue(k, q) = Queue(m, q) /\ QueuedOwn(k, q) = QueuedOwn(m, q)
      /\ PublicOwn(k) = PublicOwn(m) /\ Own(k, q) = Own(m, q)
      /\ \A u, r : MayLeave(k, u, r) = MayLeave(m, u, r)
      /\ \A r, g : Polka(k, r, g) = Polka(m, r, g)
  BY DEF Queue, QueuedOwn, PublicOwn, Own, MayLeave, Polka
<1>4. VotesAscend(k, q) /\ QueuedAllowed(k, q) /\ TimersReached(k, q)
  BY <1>2, <1>3 DEF NodeInv, VotesAscend, QueuedAllowed, TimersReached
<1> QED
  BY <1>2, <1>4 DEF NodeInv

(* The signed vote changes nothing of the object but what is sent.         *)
LEMMA SignVoteType ==
  ASSUME NEW m \in Nodes, NEW y \in VoteTypes, NEW h \in Hashes
  PROVE  SignVote(m, y, h) \in Nodes /\ SignVote(m, y, h).round = m.round
<1>1. OwnVote(y, m.round, h) \in Messages
  BY DEF OwnVote, Messages, OwnVotes, Nodes
<1>2. <<>> \in Seq(Messages)
  OBVIOUS
<1> QED
  BY <1>1, <1>2, Pushed DEF SignVote

LEMMA StepOfRound ==
  ASSUME NEW s \in Nodes, NEW st
  PROVE  [s EXCEPT !.round = s.round, !.step = st] = [s EXCEPT !.step = st]
  BY DEF Nodes

(* The places a method has passed.                                         *)
LEMMA PastPlaces ==
  ASSUME NEW m \in Nodes, NEW r \in RoundNumbers, NEW st \in NewHeight .. Commit
  PROVE  /\ IsPast(m, r, st) <=> Place(r, st) <= At(m)
         /\ ~ IsPast(m, r, st) => At(m) < Place(r, st)
         /\ ~ IsPast(m, r, st) /\ r <= m.round => r = m.round
<1>1. /\ r \in Int /\ m.round \in Int /\ st \in Int /\ m.step \in Int
      /\ m.round \in RoundNumbers /\ m.step \in NewHeight .. Commit
  BY DEF Nodes, RoundNumbers, NewHeight, Commit
<1>2. IsPast(m, r, st) <=> Place(r, st) <= At(m)
  BY <1>1, Places DEF IsPast, At
<1>3. Place(r, st) \in Int /\ At(m) \in Int
  BY <1>1 DEF Place, At
<1> QED
  BY <1>1, <1>2, <1>3 DEF IsPast

(* Transitivity of what every method does.                                 *)
LEMMA MovesOnOn ==
  ASSUME NEW m \in Nodes, NEW k \in Nodes, NEW l \in Nodes, MovesOn(m, k), MovesOn(k, l)
  PROVE  MovesOn(m, l)
<1>1. At(m) \in Int /\ At(k) \in Int /\ At(l) \in Int
  BY NodeFacts
<1> QED
  BY <1>1 DEF MovesOn, SameVotes

LEMMA MovesOnSelf ==
  ASSUME NEW m \in Nodes
  PROVE  MovesOn(m, m)
<1>1. At(m) \in Int
  BY NodeFacts
<1> QED
  BY <1>1 DEF MovesOn, SameVotes

-----------------------------------------------------------------------------
(* The methods of the class.                                               *)

(* TimeoutTicker.schedule, for a round the node is in.                     *)
LEMMA ScheduleInv ==
  ASSUME NEW m, NEW q, NodeInv(m, q), NEW r \in RoundNumbers, r <= m.round,
         NEW st \in TimedSteps
  PROVE  LET k == Schedule(m, r, st)
         IN  /\ NodeInv(k, q) /\ MovesOn(m, k)
             /\ k.round = m.round /\ k.step = m.step
<1> DEFINE k == Schedule(m, r, st)
           t == [round |-> r, step |-> st]
<1>1. /\ m \in Nodes /\ VoteSetsOK(m.votes) /\ m.timer.round <= m.round
      /\ ExecutedIsValid(m) /\ st \in NewHeight .. Commit
      /\ t \in Timers /\ t.round = r
  BY DEF NodeInv, TimersReached, TimedSteps, NewHeight, Propose, PrevoteWait, PrecommitWait,
         Commit, Timers
<1> HIDE DEF t
<1>2. \/ k = [m EXCEPT !.maxRound = r, !.maxStep = st, !.timer = t]
      \/ k = [m EXCEPT !.maxStep = st, !.timer = t]
      \/ k = m
  BY DEF Schedule, t
<1> HIDE DEF k
<1>3. /\ k \in Nodes /\ k.votes = m.votes /\ k.round = m.round /\ k.step = m.step
      /\ k.sent = m.sent /\ k.lockedRound = m.lockedRound /\ k.lockedBlock = m.lockedBlock
      /\ k.timer.round <= k.round
      /\ k.executed = m.executed /\ k.proposalBlock = m.proposalBlock
      /\ k.lockedExecuted = m.lockedExecuted /\ k.committed = m.committed
  BY <1>1, <1>2 DEF Nodes
<1>4. MovesOn(m, k)
  BY <1>1, <1>3, MovesOnSelf DEF MovesOn, SameVotes, At
<1>5. ExecutedIsValid(k)
  BY <1>1, <1>3 DEF ExecutedIsValid, Precommits
<1> QED
  BY <1>1, <1>3, <1>4, <1>5, KeepsInv DEF k

(* enterPrevote, for a round the node is in.                               *)
LEMMA EnterPrevoteInv ==
  ASSUME NEW m, NEW q, NodeInv(m, q), NEW r \in RoundNumbers, r <= m.round
  PROVE  NodeInv(EnterPrevote(m, r), q) /\ MovesOn(m, EnterPrevote(m, r))
<1> DEFINE k == EnterPrevote(m, r)
           Signed(x, h) == [SignVote(x, "prevotes", h) EXCEPT !.round = r, !.step = Prevote]
           x == [m EXCEPT !.executed = TRUE]
<1>1. m \in Nodes /\ Prevote \in NewHeight .. Commit
  BY DEF NodeInv, Prevote, NewHeight, Commit
<1>2. CASE IsPast(m, r, Prevote)
  BY <1>1, <1>2, MovesOnSelf DEF EnterPrevote
<1>3. CASE ~ IsPast(m, r, Prevote)
  <2>1. r = m.round /\ At(m) < Place(m.round, Prevote)
    BY <1>1, <1>3, PastPlaces
  <2>2. ASSUME NEW z, NodeInv(z, q), z.round = m.round, z.step = m.step,
               NEW h \in Hashes, z.lockedBlock # None => h = z.lockedBlock
        PROVE  NodeInv(Signed(z, h), q) /\ MovesOn(z, Signed(z, h))
    <3>1. z \in Nodes /\ At(z) < Place(z.round, Prevote)
      BY <2>1, <2>2 DEF NodeInv, At
    <3>2. Signed(z, h) = [SignVote(z, "prevotes", h) EXCEPT !.step = Prevote]
      <4> DEFINE s == SignVote(z, "prevotes", h)
      <4>1. s \in Nodes /\ s.round = r
        BY <2>1, <2>2, <3>1, SignVoteType, Constants
      <4> HIDE DEF s
      <4>2. [s EXCEPT !.round = r, !.step = Prevote] = [s EXCEPT !.step = Prevote]
        BY <4>1, StepOfRound
      <4> QED
        BY <4>2 DEF s
    <3>3. ASSUME NEW u \in PrecommitsOf(Own(z, q)), u.hash # h, u.round < z.round
          PROVE  MayLeave(z, u, z.round)
      <4>1. u.hash # z.lockedBlock
        BY <2>2, <3>3, Constants DEF PrecommitsOf, Own, PublicOwn, QueuedOwn, OwnVotes
      <4> QED
        BY <2>2, <4>1 DEF NodeInv, LockRemembers
    <3>4. LET l == [SignVote(z, "prevotes", h) EXCEPT !.step = Prevote]
          IN  NodeInv(l, q) /\ MovesOn(z, l)
      BY <2>2, <3>1, <3>3, PushVote, Constants DEF Prevote, Precommit
    <3> HIDE DEF Signed
    <3> QED
      BY <3>2, <3>4
  <2>3. CASE m.lockedBlock # None
    <3>1. m.lockedBlock \in Hashes
      BY <1>1, <2>3 DEF Nodes, BlockOrNone, Hashes
    <3>2. k = Signed(m, m.lockedBlock)
      BY <1>3, <2>3 DEF EnterPrevote
    <3> HIDE DEF k, Signed
    <3> QED
      BY <2>2, <3>1, <3>2 DEF k
  <2>4. CASE m.lockedBlock = None
    <3>1. \/ k = m
          \/ k = Signed(m, Nil)
          \/ k = Signed(x, m.proposalBlock) /\ m.proposalBlock \in Valid
      BY <1>3, <2>4 DEF EnterPrevote
    <3>2. CASE k = m
      BY <1>1, <3>2, MovesOnSelf
    <3>3. CASE k = Signed(m, Nil)
      <4> HIDE DEF k, Signed
      <4> QED
        BY <2>2, <2>4, <3>3, Constants DEF k
    <3>4. CASE k = Signed(x, m.proposalBlock) /\ m.proposalBlock \in Valid
      <4>1. /\ x \in Nodes /\ x.votes = m.votes /\ x.round = m.round /\ x.step = m.step
            /\ x.timer = m.timer /\ x.sent = m.sent
            /\ x.lockedRound = m.lockedRound /\ x.lockedBlock = m.lockedBlock
            /\ x.proposalBlock = m.proposalBlock
            /\ x.lockedExecuted = m.lockedExecuted /\ x.committed = m.committed
        BY <1>1 DEF Nodes
      <4> HIDE DEF x
      <4>2. ExecutedIsValid(x) /\ LockHasPolka(x) /\ VoteSetsOK(x.votes)
        BY <3>4, <4>1 DEF NodeInv, ExecutedIsValid, Precommits, LockHasPolka, Prevotes
      <4>3. MovesOn(m, x) /\ x.timer.round <= x.round
        BY <1>1, <4>1, MovesOnSelf DEF MovesOn, SameVotes, At, NodeInv, TimersReached
      <4>4. NodeInv(x, q)
        BY <4>1, <4>2, <4>3, KeepsInv
      <4>5. m.proposalBlock \in Hashes
        BY <3>4, Constants
      <4>6. NodeInv(Signed(x, m.proposalBlock), q) /\ MovesOn(x, Signed(x, m.proposalBlock))
        <5> HIDE DEF Signed
        <5> QED
          BY <2>2, <2>4, <4>1, <4>4, <4>5
      <4> HIDE DEF k, Signed
      <4>7. NodeInv(k, q) /\ MovesOn(x, k) /\ k \in Nodes
        BY <3>4, <4>6 DEF NodeInv
      <4> QED
        BY <1>1, <4>1, <4>3, <4>7, MovesOnOn DEF k
    <3> QED
      BY <3>1, <3>2, <3>3, <3>4
  <2> QED
    BY <2>3, <2>4
<1> QED
  BY <1>2, <1>3

(* A change of none of the fields the invariant ties to the votes.         *)
LEMMA PlainChange ==
  ASSUME NEW m, NEW q, NodeInv(m, q), NEW k \in Nodes,
         k.votes = m.votes, k.sent = m.sent, k.timer = m.timer,
         k.lockedRound = m.lockedRound, k.lockedBlock = m.lockedBlock,
         At(m) <= At(k), ExecutedIsValid(k)
  PROVE  NodeInv(k, q) /\ MovesOn(m, k)
<1>1. m \in Nodes /\ VoteSetsOK(k.votes) /\ m.timer.round <= m.round
  BY DEF NodeInv, TimersReached
<1>2. MovesOn(m, k)
  BY DEF MovesOn, SameVotes
<1>3. m.round <= k.round
  BY <1>1, NodeFacts, Places DEF At
<1>4. m.timer.round \in Int
  BY <1>1 DEF Nodes, Timers, NoTimer, RoundNumbers
<1>5. k.timer.round <= k.round
  BY <1>1, <1>3, <1>4, NodeFacts
<1> QED
  BY <1>1, <1>2, <1>5, KeepsInv

(* decideProposal.                                                         *)
LEMMA DecideProposalInv ==
  ASSUME NEW m, NEW q, NodeInv(m, q), NEW r \in RoundNumbers
  PROVE  LET k == DecideProposal(m, r)
         IN  NodeInv(k, q) /\ MovesOn(m, k) /\ k.round = m.round /\ k.step = m.step
<1> DEFINE k == DecideProposal(m, r)
           w == OwnProposal(r, m.validRound, m.validBlock)
           b == OwnProposalBlock(m.validBlock)
           c == [round |-> m.round, POLRound |-> m.validRound]
<1>1. m \in Nodes /\ q \in Seq(Messages)
  BY DEF NodeInv
<1>2. CASE Self \notin Validators
  BY <1>1, <1>2, MovesOnSelf DEF DecideProposal
<1>3. CASE Self \in Validators /\ m.validBlock # None
  <2>1. m.validBlock \in Blocks /\ m.validRound \in RoundOrNone
    BY <1>1, <1>3 DEF Nodes, BlockOrNone
  <2>2. w \in Messages /\ w \notin OwnVotes /\ w \notin Timeouts
    BY <2>1 DEF OwnProposal, OwnProposals, Messages, OwnVotes, Timeouts, VoteTypes
  <2>3. b \in Messages /\ b \notin OwnVotes /\ b \notin Timeouts
    BY <2>1 DEF OwnProposalBlock, OwnBlocks, Messages, OwnVotes, Timeouts, VoteTypes
  <2>4. k = Push(Push(m, w), b)
    BY <1>3 DEF DecideProposal
  <2> HIDE DEF w, b, k
  <2> DEFINE l == Push(m, w)
  <2>5. NodeInv(l, q) /\ MovesOn(m, l)
    BY <2>2, PushOther
  <2>6. l \in Nodes /\ l.round = m.round /\ l.step = m.step
    <3>1. m \in Nodes /\ q \in Seq(Messages) /\ w \in Messages
      BY <1>1, <2>2
    <3> QED
      BY <3>1, Pushed
  <2> HIDE DEF l
  <2>7. NodeInv(Push(l, b), q) /\ MovesOn(l, Push(l, b))
    BY <2>3, <2>5, PushOther
  <2>8. Push(l, b) \in Nodes /\ Push(l, b).round = l.round /\ Push(l, b).step = l.step
    <3>1. l \in Nodes /\ q \in Seq(Messages) /\ b \in Messages
      BY <1>1, <2>3, <2>6
    <3> QED
      BY <3>1, Pushed
  <2>9. k = Push(l, b)
    BY <2>4 DEF l
  <2> QED
    BY <1>1, <2>5, <2>6, <2>7, <2>8, <2>9, MovesOnOn DEF k
<1>4. CASE Self \in Validators /\ m.validBlock = None
  <2>1. k = [m EXCEPT !.creating = @ \cup {c}]
    BY <1>4 DEF DecideProposal
  <2>2. c \in Creations
    BY <1>1 DEF Creations, Nodes
  <2> HIDE DEF c, k
  <2>3. /\ k \in Nodes /\ k.votes = m.votes /\ k.round = m.round /\ k.step = m.step
        /\ k.sent = m.sent /\ k.timer = m.timer
        /\ k.lockedRound = m.lockedRound /\ k.lockedBlock = m.lockedBlock
        /\ k.executed = m.executed /\ k.proposalBlock = m.proposalBlock
        /\ k.lockedExecuted = m.lockedExecuted /\ k.committed = m.committed
    BY <1>1, <2>1, <2>2 DEF Nodes
  <2>4. ExecutedIsValid(k) /\ At(m) <= At(k)
    BY <1>1, <2>3, NodeFacts DEF NodeInv, ExecutedIsValid, Precommits, At
  <2> QED
    BY <2>3, <2>4, PlainChange DEF k
<1> QED
  BY <1>2, <1>3, <1>4

(* enterPropose, for the round the node has just entered.                  *)
LEMMA EnterProposeInv ==
  ASSUME NEW m, NEW q, NodeInv(m, q), NEW r \in RoundNumbers, r <= m.round
  PROVE  NodeInv(EnterPropose(m, r), q) /\ MovesOn(m, EnterPropose(m, r))
<1> DEFINE t == Schedule(m, r, Propose)
           p == IF Proposer[r] = Self THEN DecideProposal(t, r) ELSE t
           u == [p EXCEPT !.round = r, !.step = Propose]
<1>1. m \in Nodes /\ Propose \in NewHeight .. Commit /\ Propose \in TimedSteps
  BY DEF NodeInv, Propose, NewHeight, Commit, TimedSteps
<1>2. CASE IsPast(m, r, Propose)
  BY <1>1, <1>2, MovesOnSelf DEF EnterPropose
<1>3. CASE ~ IsPast(m, r, Propose)
  <2>1. r = m.round /\ At(m) < Place(r, Propose)
    BY <1>1, <1>3, PastPlaces
  <2>2. NodeInv(t, q) /\ MovesOn(m, t) /\ t.round = m.round /\ t.step = m.step
    BY <1>1, ScheduleInv
  <2>3. EnterPropose(m, r) = IF IsProposalComplete(u) THEN EnterPrevote(u, r) ELSE u
    BY <1>3 DEF EnterPropose
  <2> HIDE DEF t
  <2>4. NodeInv(p, q) /\ MovesOn(t, p) /\ p.round = m.round /\ p.step = m.step
    BY <2>2, DecideProposalInv, MovesOnSelf DEF NodeInv
  <2> HIDE DEF p
  <2>5. /\ p \in Nodes /\ t \in Nodes
        /\ u \in Nodes /\ u.votes = p.votes /\ u.round = r /\ u.step = Propose
        /\ u.sent = p.sent /\ u.timer = p.timer
        /\ u.lockedRound = p.lockedRound /\ u.lockedBlock = p.lockedBlock
        /\ u.executed = p.executed /\ u.proposalBlock = p.proposalBlock
        /\ u.lockedExecuted = p.lockedExecuted /\ u.committed = p.committed
    BY <1>1, <2>2, <2>4 DEF NodeInv, Nodes
  <2> HIDE DEF u
  <2>6. At(p) = At(m) /\ At(u) = Place(r, Propose) /\ At(m) <= At(u)
    BY <1>1, <2>1, <2>4, <2>5, NodeFacts DEF At
  <2>7. ExecutedIsValid(u)
    BY <2>4, <2>5 DEF NodeInv, ExecutedIsValid, Precommits
  <2>8. NodeInv(u, q) /\ MovesOn(p, u)
    BY <2>4, <2>5, <2>6, <2>7, PlainChange
  <2>9. MovesOn(m, u)
    BY <1>1, <2>2, <2>4, <2>5, <2>8, MovesOnOn
  <2>10. r <= u.round
    BY <2>5, NodeFacts
  <2>11. NodeInv(EnterPrevote(u, r), q) /\ MovesOn(u, EnterPrevote(u, r))
    BY <2>8, <2>10, EnterPrevoteInv
  <2>12. EnterPrevote(u, r) \in Nodes
    BY <2>11 DEF NodeInv
  <2> QED
    BY <1>1, <2>3, <2>5, <2>8, <2>9, <2>11, <2>12, MovesOnOn
<1> QED
  BY <1>2, <1>3

(* enterNewRound.                                                          *)
LEMMA EnterNewRoundInv ==
  ASSUME NEW m, NEW q, NodeInv(m, q), NEW r \in RoundNumbers
  PROVE  LET k == EnterNewRound(m, r)
         IN  NodeInv(k, q) /\ MovesOn(m, k) /\ r <= k.round
<1> DEFINE k == EnterNewRound(m, r)
           vs == SetRound(m.votes, r + 1)
           e == [m EXCEPT !.round = r, !.step = NewRound, !.votes = vs,
                          !.triggeredTimeoutPrecommit = FALSE]
           c == IF r = 0 THEN e
                ELSE [DropProposalBlock(e) EXCEPT
                        !.proposal = NoProposal, !.proposalBlockHash = None]
<1>1. /\ m \in Nodes /\ m.timer.round <= m.round /\ m.timer.round \in Int
      /\ NewRound \in NewHeight .. Commit /\ r \in Int
      /\ ExecutedIsValid(m)
  BY DEF NodeInv, TimersReached, Nodes, Timers, NoTimer, RoundNumbers, NewRound, NewHeight, Commit
<1>2. CASE ~ EntersRound(m, r)
  <2>1. r <= m.round
    BY <1>1, <1>2, NodeFacts DEF EntersRound
  <2> QED
    BY <1>1, <1>2, <2>1, MovesOnSelf DEF EnterNewRound
<1>3. CASE EntersRound(m, r)
  <2>1. m.round <= r /\ At(m) <= Place(r, NewRound)
    BY <1>1, <1>3, NodeFacts, Places DEF EntersRound, At, NewHeight, NewRound, Commit
  <2>2. /\ vs \in HeightVoteSets(AllRounds, Peers \cup {Local})
        /\ VoteSetsOK(vs)
        /\ \A x \in AllRounds, y \in VoteTypes : GetVoteSet(vs, x, y) = GetVoteSet(m.votes, x, y)
    <3>1. m.votes \in HeightVoteSets(0 .. MaxRound + 1, Peers \cup {Local}) /\ VoteSetsOK(m.votes)
      BY DEF NodeInv, Nodes, AllRounds
    <3>2. MaxRound + 1 \in Nat /\ r + 1 \in 0 .. MaxRound + 1
      BY Constants DEF RoundNumbers
    <3> HIDE DEF vs
    <3> DEFINE N == MaxRound + 1
               y == r + 1
    <3>3. N \in Nat /\ y \in 0 .. N /\ m.votes \in HeightVoteSets(0 .. N, Peers \cup {Local})
      BY <3>1, <3>2
    <3> HIDE DEF N, y
    <3>4. LET t == SetRound(m.votes, y)
          IN  /\ t \in HeightVoteSets(0 .. N, Peers \cup {Local})
              /\ VoteSetsOK(t)
              /\ \A x \in 0 .. N, z \in VoteTypes :
                    GetVoteSet(t, x, z) = GetVoteSet(m.votes, x, z)
      BY <3>1, <3>3, SetRoundType
    <3> QED
      BY <3>4 DEF AllRounds, vs, N, y
  <2> HIDE DEF vs
  <2>3. /\ e \in Nodes /\ e.votes = vs /\ e.round = r /\ e.step = NewRound
        /\ e.sent = m.sent /\ e.timer = m.timer
        /\ e.lockedRound = m.lockedRound /\ e.lockedBlock = m.lockedBlock
        /\ e.executed = m.executed /\ e.proposalBlock = m.proposalBlock
        /\ e.lockedExecuted = m.lockedExecuted /\ e.committed = m.committed
    BY <1>1, <2>2 DEF Nodes
  <2>4. k = EnterPropose(c, r)
    BY <1>3 DEF EnterNewRound, vs
  <2> HIDE DEF e, k
  <2>5. /\ c \in Nodes /\ c.votes = vs /\ c.round = r /\ c.step = NewRound
        /\ c.sent = m.sent /\ c.timer = m.timer
        /\ c.lockedRound = m.lockedRound /\ c.lockedBlock = m.lockedBlock
        /\ c.lockedExecuted = m.lockedExecuted /\ c.committed = m.committed
        /\ (c.executed = m.executed /\ c.proposalBlock = m.proposalBlock) \/ ~ c.executed
    BY <2>3, Constants DEF Nodes, DropProposalBlock
  <2> HIDE DEF c
  <2>6. MovesOn(m, c)
    BY <2>1, <2>2, <2>5 DEF MovesOn, SameVotes, At
  <2>7. \A x \in RoundNumbers : Precommits(c, x) = Precommits(m, x)
    BY <2>6, SamePolkas DEF MovesOn
  <2>8. ExecutedIsValid(c) /\ c.timer.round <= c.round
    BY <1>1, <2>1, <2>5, <2>7, NodeFacts DEF ExecutedIsValid
  <2>9. NodeInv(c, q)
    BY <2>2, <2>5, <2>6, <2>8, KeepsInv
  <2>10. NodeInv(k, q) /\ MovesOn(c, k)
    <3>1. r <= c.round
      BY <1>1, <2>5
    <3> QED
      BY <2>4, <2>9, <3>1, EnterProposeInv
  <2>11. k \in Nodes /\ c.round <= k.round
    BY <2>5, <2>10, NodeFacts, Places DEF NodeInv, MovesOn, At
  <2> QED
    BY <1>1, <2>5, <2>6, <2>10, <2>11, MovesOnOn DEF k
<1> QED
  BY <1>2, <1>3

(* Moving on to a later place.                                             *)
LEMMA MoveTo ==
  ASSUME NEW m, NEW q, NodeInv(m, q), NEW r \in RoundNumbers, NEW st \in NewHeight .. Commit,
         At(m) <= Place(r, st)
  PROVE  LET k == [m EXCEPT !.round = r, !.step = st]
         IN  NodeInv(k, q) /\ MovesOn(m, k)
<1> DEFINE k == [m EXCEPT !.round = r, !.step = st]
<1>1. m \in Nodes /\ ExecutedIsValid(m)
  BY DEF NodeInv
<1>2. /\ k \in Nodes /\ k.votes = m.votes /\ k.round = r /\ k.step = st
      /\ k.sent = m.sent /\ k.timer = m.timer
      /\ k.lockedRound = m.lockedRound /\ k.lockedBlock = m.lockedBlock
      /\ k.executed = m.executed /\ k.proposalBlock = m.proposalBlock
      /\ k.lockedExecuted = m.lockedExecuted /\ k.committed = m.committed
  BY <1>1 DEF Nodes
<1> HIDE DEF k
<1>3. ExecutedIsValid(k) /\ At(m) <= At(k)
  BY <1>1, <1>2 DEF ExecutedIsValid, Precommits, At
<1> QED
  BY <1>2, <1>3, PlainChange DEF k

LEMMA MovesOnRound ==
  ASSUME NEW m \in Nodes, NEW k \in Nodes, MovesOn(m, k)
  PROVE  m.round <= k.round
  BY NodeFacts, Places DEF MovesOn, At

(* enterPrevoteWait.                                                       *)
LEMMA EnterPrevoteWaitInv ==
  ASSUME NEW m, NEW q, NodeInv(m, q), NEW r \in RoundNumbers, r <= m.round
  PROVE  NodeInv(EnterPrevoteWait(m, r), q) /\ MovesOn(m, EnterPrevoteWait(m, r))
<1> DEFINE t == Schedule(m, r, PrevoteWait)
           k == [t EXCEPT !.round = r, !.step = PrevoteWait]
<1>1. /\ m \in Nodes /\ PrevoteWait \in NewHeight .. Commit /\ PrevoteWait \in TimedSteps
      /\ MovesOn(m, m)
  BY MovesOnSelf DEF NodeInv, PrevoteWait, NewHeight, Commit, TimedSteps
<1>2. CASE EnterPrevoteWait(m, r) = m
  BY <1>1, <1>2
<1>3. CASE EnterPrevoteWait(m, r) # m
  <2>1. ~ IsPast(m, r, PrevoteWait) /\ EnterPrevoteWait(m, r) = k
    BY <1>3 DEF EnterPrevoteWait
  <2>2. NodeInv(t, q) /\ MovesOn(m, t) /\ t.round = m.round /\ t.step = m.step
    BY <1>1, ScheduleInv
  <2> HIDE DEF t
  <2>3. At(t) < Place(r, PrevoteWait) /\ t \in Nodes
    BY <1>1, <2>1, <2>2, PastPlaces DEF At, NodeInv
  <2>4. At(t) <= Place(r, PrevoteWait)
    BY <2>3, NodeFacts, <1>1 DEF Place, RoundNumbers, PrevoteWait
  <2>5. NodeInv(k, q) /\ MovesOn(t, k)
    BY <1>1, <2>2, <2>4, MoveTo
  <2> HIDE DEF k
  <2>6. MovesOn(m, k)
    BY <1>1, <2>2, <2>3, <2>5, MovesOnOn DEF NodeInv
  <2> QED
    BY <2>1, <2>5, <2>6
<1> QED
  BY <1>2, <1>3

(* enterPrecommitWait.                                                     *)
LEMMA EnterPrecommitWaitInv ==
  ASSUME NEW m, NEW q, NodeInv(m, q), NEW r \in RoundNumbers, r <= m.round
  PROVE  NodeInv(EnterPrecommitWait(m, r), q) /\ MovesOn(m, EnterPrecommitWait(m, r))
<1> DEFINE t == Schedule(m, r, PrecommitWait)
           k == [t EXCEPT !.triggeredTimeoutPrecommit = TRUE]
<1>1. m \in Nodes /\ PrecommitWait \in TimedSteps /\ MovesOn(m, m)
  BY MovesOnSelf DEF NodeInv, TimedSteps
<1>2. CASE EnterPrecommitWait(m, r) = m
  BY <1>1, <1>2
<1>3. CASE EnterPrecommitWait(m, r) # m
  <2>1. EnterPrecommitWait(m, r) = k
    BY <1>3 DEF EnterPrecommitWait
  <2>2. NodeInv(t, q) /\ MovesOn(m, t)
    BY <1>1, ScheduleInv
  <2> HIDE DEF t
  <2>3. t \in Nodes /\ ExecutedIsValid(t)
    BY <2>2 DEF NodeInv
  <2>4. /\ k \in Nodes /\ k.votes = t.votes /\ k.round = t.round /\ k.step = t.step
        /\ k.sent = t.sent /\ k.timer = t.timer
        /\ k.lockedRound = t.lockedRound /\ k.lockedBlock = t.lockedBlock
        /\ k.executed = t.executed /\ k.proposalBlock = t.proposalBlock
        /\ k.lockedExecuted = t.lockedExecuted /\ k.committed = t.committed
    BY <2>3 DEF Nodes
  <2> HIDE DEF k
  <2>5. ExecutedIsValid(k) /\ At(t) <= At(k)
    BY <2>3, <2>4, NodeFacts DEF ExecutedIsValid, Precommits, At
  <2>6. NodeInv(k, q) /\ MovesOn(t, k)
    BY <2>2, <2>4, <2>5, PlainChange
  <2> QED
    BY <1>1, <2>1, <2>2, <2>3, <2>4, <2>6, MovesOnOn
<1> QED
  BY <1>2, <1>3

(* Unlocking: a polka of a round after every precommit for the locked      *)
(* block is for something else.                                            *)
LEMMA UnlockInv ==
  ASSUME NEW m, NEW q, NodeInv(m, q), NEW k \in Nodes,
         k.votes = m.votes, k.round = m.round, k.step = m.step, k.timer = m.timer,
         k.sent = m.sent, ExecutedIsValid(k),
         k.lockedBlock = None, k.lockedRound = -1,
         NEW s \in RoundNumbers, s <= m.round, NEW g \in Hashes, Polka(m, s, g),
         g # m.lockedBlock,
         \A u \in PrecommitsOf(Own(m, q)) :
            u.hash = m.lockedBlock /\ u.round <= m.lockedRound => u.round < s
  PROVE  NodeInv(k, q) /\ MovesOn(m, k)
<1>1. LockHasPolka(k)
  BY DEF LockHasPolka
<1>2. Own(k, q) = Own(m, q) /\ \A u, r : MayLeave(k, u, r) = MayLeave(m, u, r)
  BY DEF Own, PublicOwn, QueuedOwn, Queue, MayLeave, Polka
<1>3. ASSUME NEW u \in PrecommitsOf(Own(m, q)), ~ MayLeave(m, u, m.round)
      PROVE  FALSE
  <2>1. u.hash = m.lockedBlock /\ u.round <= m.lockedRound
    BY <1>3 DEF NodeInv, LockRemembers
  <2>2. u.round < s
    BY <2>1
  <2> QED
    BY <1>3, <2>1, <2>2 DEF MayLeave
<1>4. LockRemembers(k, q)
  BY <1>2, <1>3 DEF LockRemembers
<1> QED
  BY <1>1, <1>4, Relocks

(* Locking the block that has a polka in the current round, in which the   *)
(* node has not precommitted yet.                                          *)
LEMMA LockInv ==
  ASSUME NEW m, NEW q, NodeInv(m, q), NEW k \in Nodes,
         k.votes = m.votes, k.round = m.round, k.step = m.step, k.timer = m.timer,
         k.sent = m.sent, ExecutedIsValid(k),
         Prevotes(m, m.round).maj23 \in Blocks,
         k.lockedBlock = Prevotes(m, m.round).maj23, k.lockedRound = m.round,
         \A u \in PrecommitsOf(Own(m, q)) : u.round < m.round
  PROVE  NodeInv(k, q) /\ MovesOn(m, k)
<1> DEFINE maj == Prevotes(m, m.round).maj23
<1>1. m \in Nodes /\ m.round \in RoundNumbers /\ m.round \in Int /\ VoteSetsOK(m.votes)
  BY NodeFacts DEF NodeInv
<1>2. maj # None /\ maj \in Hashes /\ Polka(m, m.round, maj)
  <2>1. maj # None
    BY HashAssumption
  <2> QED
    BY <1>1, <2>1, MajorityIsPolka
<1>3. Own(k, q) = Own(m, q) /\ \A u, r : MayLeave(k, u, r) = MayLeave(m, u, r)
  BY DEF Own, PublicOwn, QueuedOwn, Queue, MayLeave, Polka
<1>4. LockHasPolka(k)
  BY <1>1, <1>2 DEF LockHasPolka, Prevotes, RoundNumbers
<1> HIDE DEF maj
<1>5. ASSUME NEW u \in PrecommitsOf(Own(m, q)), ~ MayLeave(m, u, m.round)
      PROVE  u.hash = maj /\ u.round <= m.round
  <2>1. u.round < m.round
    OBVIOUS
  <2>2. u.round \in Int
    BY DEF PrecommitsOf, Own, PublicOwn, QueuedOwn, OwnVotes, RoundNumbers
  <2>3. u.hash = maj
    BY <1>1, <1>2, <1>5, <2>1 DEF MayLeave
  <2> QED
    BY <1>1, <2>1, <2>2, <2>3
<1>6. LockRemembers(k, q)
  BY <1>3, <1>5 DEF LockRemembers, maj
<1> QED
  BY <1>4, <1>6, Relocks

(* enterPrecommit, for a round the node is in.                             *)
LEMMA EnterPrecommitInv ==
  ASSUME NEW m, NEW q, NodeInv(m, q), NEW r \in RoundNumbers, r <= m.round
  PROVE  NodeInv(EnterPrecommit(m, r), q) /\ MovesOn(m, EnterPrecommit(m, r))
<1> DEFINE k == EnterPrecommit(m, r)
           maj == Prevotes(m, r).maj23
           Signed(x, h) == [SignVote(x, "precommits", h) EXCEPT !.round = r, !.step = Precommit]
<1>1. /\ m \in Nodes /\ Precommit \in NewHeight .. Commit /\ VoteSetsOK(m.votes)
      /\ MovesOn(m, m)
  BY MovesOnSelf DEF NodeInv, Precommit, NewHeight, Commit
<1>2. CASE k = m
  <2> HIDE DEF k
  <2> QED
    BY <1>1, <1>2 DEF k
<1>3. CASE k # m
  <2>1. ~ IsPast(m, r, Precommit)
    BY <1>3 DEF EnterPrecommit
  <2>2. r = m.round /\ At(m) < Place(m.round, Precommit)
    BY <1>1, <2>1, PastPlaces
  <2>3. ASSUME NEW z, NodeInv(z, q), z.round = m.round, z.step = m.step, MovesOn(m, z),
               NEW h \in Hashes,
               h # Nil => Polka(z, z.round, h) /\ z.lockedBlock = h /\ z.lockedRound = z.round
        PROVE  NodeInv(Signed(z, h), q) /\ MovesOn(m, Signed(z, h))
    <3>1. z \in Nodes /\ At(z) < Place(z.round, Precommit)
      BY <2>2, <2>3 DEF NodeInv, At
    <3>2. Signed(z, h) = [SignVote(z, "precommits", h) EXCEPT !.step = Precommit]
      <4> DEFINE s == SignVote(z, "precommits", h)
      <4>1. s \in Nodes /\ s.round = r
        BY <2>2, <2>3, <3>1, SignVoteType, Constants
      <4> HIDE DEF s
      <4>2. [s EXCEPT !.round = r, !.step = Precommit] = [s EXCEPT !.step = Precommit]
        BY <4>1, StepOfRound
      <4> QED
        BY <4>2 DEF s
    <3>3. LET l == [SignVote(z, "precommits", h) EXCEPT !.step = Precommit]
          IN  NodeInv(l, q) /\ MovesOn(z, l)
      <4> DEFINE y == "precommits"
                 st == Precommit
      <4>1. /\ y \in VoteTypes /\ st \in {Prevote, Precommit}
            /\ y = "prevotes" <=> st = Prevote
            /\ ~ (y = "prevotes")
            /\ At(z) < Place(z.round, st)
        BY <3>1, Constants DEF Prevote, Precommit
      <4> HIDE DEF y, st
      <4>2. LET l == [SignVote(z, y, h) EXCEPT !.step = st]
            IN  NodeInv(l, q) /\ MovesOn(z, l)
        BY <2>3, <4>1, PushVote
      <4> QED
        BY <4>2 DEF y, st
    <3> HIDE DEF Signed
    <3>4. NodeInv(Signed(z, h), q) /\ MovesOn(z, Signed(z, h)) /\ Signed(z, h) \in Nodes
      BY <3>2, <3>3 DEF NodeInv
    <3> QED
      BY <1>1, <2>3, <3>1, <3>4, MovesOnOn
  <2>4. \A u \in PrecommitsOf(Own(m, q)) : u.round < m.round
    <3>1. ASSUME NEW u \in PrecommitsOf(Own(m, q))
          PROVE  u.round < m.round
      <4>1. u \in OwnVotes /\ u.type = "precommits" /\ u \in Own(m, q)
        BY DEF PrecommitsOf, Own, PublicOwn, QueuedOwn
      <4>2. PlaceOf(u) = Place(u.round, Precommit) /\ u.round \in RoundNumbers
        BY <4>1 DEF PlaceOf, OwnVotes
      <4>3. PlaceOf(u) <= At(m)
        BY <4>1 DEF NodeInv, VotesAscend
      <4> QED
        BY <2>2, <4>2, <4>3, NodeFacts, <1>1 DEF Place, RoundNumbers, Precommit
    <3> QED
      BY <3>1
  <2>5. \/ k = Signed(m, Nil)
        \/ maj = Nil /\ k = Signed(Unlock(m), Nil)
        \/ maj \notin {None, Nil} /\ m.lockedBlock = maj
           /\ k = Signed([m EXCEPT !.lockedRound = r], maj)
        \/ maj \notin {None, Nil} /\ m.lockedBlock # maj /\ m.proposalBlock = maj
           /\ k = Signed([m EXCEPT !.lockedRound = r, !.lockedBlock = m.proposalBlock,
                                   !.lockedExecuted = m.executed], maj)
        \/ maj \notin {None, Nil} /\ m.lockedBlock # maj
           /\ k = Signed([DropProposalBlock(Unlock(m)) EXCEPT !.proposalBlockHash = maj], Nil)
    BY <1>3, <2>1 DEF EnterPrecommit
  <2>6. maj # None => Polka(m, m.round, maj) /\ maj \in Hashes
    BY <1>1, <2>2, MajorityIsPolka
  <2>7. maj \notin {None, Nil} => maj \in Blocks
    BY <2>6 DEF Hashes
  <2>8. /\ Nil \in Hashes /\ Nil # m.lockedBlock
        /\ m.lockedBlock # None => m.lockedBlock \in Blocks
    BY <1>1, Constants, HashAssumption DEF Nodes, BlockOrNone
  <2>9. ExecutedIsValid(m) /\ m.round \in RoundNumbers /\ m.round \in Int
    BY <1>1, NodeFacts DEF NodeInv
  <2>10. maj = Prevotes(m, m.round).maj23
    BY <2>2
  <2> HIDE DEF Signed, k, maj
  <2>11. CASE k = Signed(m, Nil)
    BY <1>1, <2>3, <2>8, <2>11 DEF k
  <2>12. CASE maj = Nil /\ k = Signed(Unlock(m), Nil)
    <3> DEFINE z == Unlock(m)
    <3>1. /\ z \in Nodes /\ z.votes = m.votes /\ z.round = m.round /\ z.step = m.step
          /\ z.timer = m.timer /\ z.sent = m.sent
          /\ z.lockedRound = -1 /\ z.lockedBlock = None /\ z.lockedExecuted = FALSE
          /\ z.executed = m.executed /\ z.proposalBlock = m.proposalBlock
          /\ z.committed = m.committed
      BY <1>1, Constants DEF Unlock, Nodes
    <3> HIDE DEF z
    <3>2. ExecutedIsValid(z)
      BY <2>9, <3>1 DEF ExecutedIsValid, Precommits
    <3>3. Nil # None
      BY HashAssumption
    <3>4. NodeInv(z, q) /\ MovesOn(m, z)
      <4>1. m.round <= m.round /\ Polka(m, m.round, Nil)
        BY <2>6, <2>9, <2>12, <3>3
      <4> QED
        BY <2>4, <2>8, <2>9, <3>1, <3>2, <4>1, UnlockInv
    <3> QED
      BY <2>3, <2>8, <2>12, <3>1, <3>4 DEF k, z
  <2>13. CASE maj \notin {None, Nil} /\ m.lockedBlock = maj
              /\ k = Signed([m EXCEPT !.lockedRound = r], maj)
    <3> DEFINE z == [m EXCEPT !.lockedRound = r]
    <3>1. /\ z \in Nodes /\ z.votes = m.votes /\ z.round = m.round /\ z.step = m.step
          /\ z.timer = m.timer /\ z.sent = m.sent
          /\ z.lockedRound = m.round /\ z.lockedBlock = maj
          /\ z.lockedExecuted = m.lockedExecuted
          /\ z.executed = m.executed /\ z.proposalBlock = m.proposalBlock
          /\ z.committed = m.committed
      BY <1>1, <2>2, <2>13, Constants DEF Nodes
    <3> HIDE DEF z
    <3>2. ExecutedIsValid(z)
      BY <2>9, <2>13, <3>1 DEF ExecutedIsValid, Precommits
    <3>3. NodeInv(z, q) /\ MovesOn(m, z)
      BY <2>4, <2>7, <2>10, <2>13, <3>1, <3>2, LockInv
    <3>4. Polka(z, z.round, maj)
      BY <2>6, <2>13, <3>1 DEF Polka
    <3> QED
      BY <2>3, <2>6, <2>13, <3>1, <3>3, <3>4 DEF k, z
  <2>14. CASE maj \notin {None, Nil} /\ m.lockedBlock # maj /\ m.proposalBlock = maj
              /\ k = Signed([m EXCEPT !.lockedRound = r, !.lockedBlock = m.proposalBlock,
                                      !.lockedExecuted = m.executed], maj)
    <3> DEFINE z == [m EXCEPT !.lockedRound = r, !.lockedBlock = m.proposalBlock,
                              !.lockedExecuted = m.executed]
    <3>1. /\ z \in Nodes /\ z.votes = m.votes /\ z.round = m.round /\ z.step = m.step
          /\ z.timer = m.timer /\ z.sent = m.sent
          /\ z.lockedRound = m.round /\ z.lockedBlock = maj
          /\ z.lockedExecuted = m.executed
          /\ z.executed = m.executed /\ z.proposalBlock = m.proposalBlock
          /\ z.committed = m.committed
      BY <1>1, <2>2, <2>14, Constants DEF Nodes
    <3> HIDE DEF z
    <3>2. ExecutedIsValid(z)
      BY <2>9, <2>14, <3>1 DEF ExecutedIsValid, Precommits
    <3>3. NodeInv(z, q) /\ MovesOn(m, z)
      BY <2>4, <2>7, <2>10, <2>14, <3>1, <3>2, LockInv
    <3>4. Polka(z, z.round, maj)
      BY <2>6, <2>14, <3>1 DEF Polka
    <3> QED
      BY <2>3, <2>6, <2>14, <3>1, <3>3, <3>4 DEF k, z
  <2>15. CASE maj \notin {None, Nil} /\ m.lockedBlock # maj
              /\ k = Signed([DropProposalBlock(Unlock(m)) EXCEPT !.proposalBlockHash = maj], Nil)
    <3> DEFINE z == [DropProposalBlock(Unlock(m)) EXCEPT !.proposalBlockHash = maj]
    <3>1. /\ z \in Nodes /\ z.votes = m.votes /\ z.round = m.round /\ z.step = m.step
          /\ z.timer = m.timer /\ z.sent = m.sent
          /\ z.lockedRound = -1 /\ z.lockedBlock = None /\ z.lockedExecuted = FALSE
          /\ z.executed = FALSE /\ z.committed = m.committed
      <4>1. maj \in BlockOrNone
        BY <2>7, <2>15, Constants
      <4> QED
        BY <1>1, <4>1, Constants DEF Unlock, DropProposalBlock, Nodes
    <3> HIDE DEF z
    <3>2. ExecutedIsValid(z)
      BY <2>9, <3>1 DEF ExecutedIsValid, Precommits
    <3>3. NodeInv(z, q) /\ MovesOn(m, z)
      <4>1. m.round <= m.round /\ Polka(m, m.round, maj) /\ maj \in Hashes
        BY <2>6, <2>9, <2>15
      <4> QED
        BY <2>4, <2>9, <2>15, <3>1, <3>2, <4>1, UnlockInv
    <3> QED
      BY <2>3, <2>8, <2>15, <3>1, <3>3 DEF k, z
  <2> QED
    BY <2>5, <2>11, <2>12, <2>13, <2>14, <2>15
<1> QED
  BY <1>2, <1>3

(* finalizeCommit.                                                         *)
LEMMA FinalizeCommitInv ==
  ASSUME NEW m, NEW q, NodeInv(m, q)
  PROVE  NodeInv(FinalizeCommit(m), q) /\ MovesOn(m, FinalizeCommit(m))
<1> DEFINE k == [m EXCEPT !.executed = TRUE, !.committed = m.proposalBlock]
           maj == Precommits(m, m.commitRound).maj23
<1>1. m \in Nodes /\ ExecutedIsValid(m) /\ MovesOn(m, m)
  BY MovesOnSelf DEF NodeInv
<1>2. CASE ~ CanFinalize(m)
  BY <1>1, <1>2 DEF FinalizeCommit
<1>3. CASE CanFinalize(m)
  <2>1. /\ m.commitRound # -1 /\ m.proposalBlock = maj
        /\ m.executed \/ maj \in Valid
    BY <1>3 DEF CanFinalize
  <2>2. m.commitRound \in RoundNumbers /\ m.proposalBlock \in Valid
    BY <1>1, <2>1 DEF ExecutedIsValid, Nodes, RoundOrNone, RoundNumbers
  <2>3. /\ k \in Nodes /\ k.votes = m.votes /\ k.round = m.round /\ k.step = m.step
        /\ k.sent = m.sent /\ k.timer = m.timer
        /\ k.lockedRound = m.lockedRound /\ k.lockedBlock = m.lockedBlock
        /\ k.executed = TRUE /\ k.proposalBlock = m.proposalBlock
        /\ k.lockedExecuted = m.lockedExecuted /\ k.committed = m.proposalBlock
    BY <1>1 DEF Nodes
  <2>4. FinalizeCommit(m) = k
    BY <1>3 DEF FinalizeCommit
  <2>5. Precommits(k, m.commitRound).maj23 = k.committed
    BY <2>1, <2>3 DEF Precommits
  <2> HIDE DEF k
  <2>6. ExecutedIsValid(k) /\ At(m) <= At(k)
    BY <1>1, <2>2, <2>3, <2>5, NodeFacts DEF ExecutedIsValid, At
  <2> QED
    BY <2>3, <2>4, <2>6, PlainChange
<1> QED
  BY <1>2, <1>3

(* enterCommit, with +2/3 precommits for a block.                          *)
LEMMA EnterCommitInv ==
  ASSUME NEW m, NEW q, NodeInv(m, q), NEW cr \in RoundNumbers,
         Precommits(m, cr).maj23 \in Blocks
  PROVE  NodeInv(EnterCommit(m, cr), q) /\ MovesOn(m, EnterCommit(m, cr))
<1> DEFINE maj == Precommits(m, cr).maj23
           l == IF m.lockedBlock = maj
                THEN [m EXCEPT !.proposalBlockHash = m.lockedBlock,
                               !.proposalBlock = m.lockedBlock,
                               !.executed = m.lockedExecuted]
                ELSE m
           y == IF l.proposalBlock = maj THEN l
                ELSE [DropProposalBlock(l) EXCEPT !.proposalBlockHash = maj]
           k == [y EXCEPT !.step = Commit, !.commitRound = cr]
<1>1. /\ m \in Nodes /\ ExecutedIsValid(m) /\ MovesOn(m, m) /\ Commit \in NewHeight .. Commit
      /\ maj \in BlockOrNone /\ cr \in RoundOrNone
  BY MovesOnSelf, Constants DEF NodeInv, NewHeight, Commit
<1>2. CASE EnterCommit(m, cr) = m
  BY <1>1, <1>2
<1>3. CASE EnterCommit(m, cr) # m
  <2>1. EnterCommit(m, cr) = FinalizeCommit(k)
    BY <1>3 DEF EnterCommit
  <2> HIDE DEF maj
  <2>2. /\ l \in Nodes /\ l.votes = m.votes /\ l.round = m.round /\ l.step = m.step
        /\ l.sent = m.sent /\ l.timer = m.timer
        /\ l.lockedRound = m.lockedRound /\ l.lockedBlock = m.lockedBlock
        /\ l.lockedExecuted = m.lockedExecuted /\ l.committed = m.committed
        /\ l.executed => l.proposalBlock \in Valid
    BY <1>1 DEF Nodes, ExecutedIsValid
  <2> HIDE DEF l
  <2>3. /\ y \in Nodes /\ y.votes = m.votes /\ y.round = m.round /\ y.step = m.step
        /\ y.sent = m.sent /\ y.timer = m.timer
        /\ y.lockedRound = m.lockedRound /\ y.lockedBlock = m.lockedBlock
        /\ y.lockedExecuted = m.lockedExecuted /\ y.committed = m.committed
        /\ y.executed => y.proposalBlock \in Valid
    BY <1>1, <2>2, Constants DEF Nodes, DropProposalBlock
  <2> HIDE DEF y
  <2>4. /\ k \in Nodes /\ k.votes = m.votes /\ k.round = m.round /\ k.step = Commit
        /\ k.sent = m.sent /\ k.timer = m.timer
        /\ k.lockedRound = m.lockedRound /\ k.lockedBlock = m.lockedBlock
        /\ k.lockedExecuted = m.lockedExecuted /\ k.committed = m.committed
        /\ k.executed => k.proposalBlock \in Valid
    BY <1>1, <2>3 DEF Nodes
  <2> HIDE DEF k
  <2>5. ExecutedIsValid(k)
    BY <1>1, <2>4 DEF ExecutedIsValid, Precommits
  <2>6. At(m) <= At(k)
    <3>1. m.round = k.round /\ m.step <= k.step
      BY <1>1, <2>4 DEF Nodes, NewHeight, Commit
    <3> QED
      BY <1>1, <2>4, <3>1, NodeFacts, Places DEF At
  <2>7. NodeInv(k, q) /\ MovesOn(m, k)
    BY <2>4, <2>5, <2>6, PlainChange
  <2>8. NodeInv(FinalizeCommit(k), q) /\ MovesOn(k, FinalizeCommit(k))
    BY <2>7, FinalizeCommitInv
  <2>9. FinalizeCommit(k) \in Nodes
    BY <2>8 DEF NodeInv
  <2> QED
    BY <1>1, <2>1, <2>4, <2>7, <2>8, <2>9, MovesOnOn
<1> QED
  BY <1>2, <1>3

(* setProposal.                                                            *)
LEMMA SetProposalInv ==
  ASSUME NEW m, NEW q, NodeInv(m, q), NEW r \in RoundNumbers, NEW pol \in RoundOrNone,
         NEW h \in Blocks
  PROVE  NodeInv(SetProposal(m, r, pol, h), q) /\ MovesOn(m, SetProposal(m, r, pol, h))
<1> DEFINE w == [round |-> r, POLRound |-> pol, hash |-> h]
           k == [m EXCEPT !.proposal = w, !.proposalBlockHash = h]
<1>1. m \in Nodes /\ ExecutedIsValid(m) /\ MovesOn(m, m) /\ w \in Proposals /\ h \in BlockOrNone
  BY MovesOnSelf, Constants DEF NodeInv, Proposals
<1>2. SetProposal(m, r, pol, h) \in {m, k}
  BY DEF SetProposal
<1> HIDE DEF w
<1>3. /\ k \in Nodes /\ k.votes = m.votes /\ k.round = m.round /\ k.step = m.step
      /\ k.sent = m.sent /\ k.timer = m.timer
      /\ k.lockedRound = m.lockedRound /\ k.lockedBlock = m.lockedBlock
      /\ k.executed = m.executed /\ k.proposalBlock = m.proposalBlock
      /\ k.lockedExecuted = m.lockedExecuted /\ k.committed = m.committed
  BY <1>1 DEF Nodes
<1> HIDE DEF k
<1>4. ExecutedIsValid(k) /\ At(m) <= At(k)
  BY <1>1, <1>3, NodeFacts DEF ExecutedIsValid, Precommits, At
<1>5. NodeInv(k, q) /\ MovesOn(m, k)
  BY <1>3, <1>4, PlainChange
<1> QED
  BY <1>1, <1>2, <1>5

(* addProposalBlock.                                                       *)
LEMMA AddProposalBlockInv ==
  ASSUME NEW m, NEW q, NodeInv(m, q), NEW b \in Blocks
  PROVE  NodeInv(AddProposalBlock(m, b), q) /\ MovesOn(m, AddProposalBlock(m, b))
<1> DEFINE maj == Prevotes(m, m.round).maj23
           a == [m EXCEPT !.proposalBlock = b]
           u == IF m.validRound < m.round /\ maj = b
                THEN [a EXCEPT !.validRound = m.round, !.validBlock = b]
                ELSE a
           v == EnterPrevote(u, m.round)
           k == AddProposalBlock(m, b)
<1>1. /\ m \in Nodes /\ ExecutedIsValid(m) /\ MovesOn(m, m) /\ b \in BlockOrNone
      /\ m.round \in RoundNumbers /\ m.round \in RoundOrNone /\ m.round \in Int
  BY MovesOnSelf, Constants, NodeFacts DEF NodeInv
<1>2. \/ k = m
      \/ m.proposalBlock = None /\ k \in {v, EnterPrecommit(v, m.round), FinalizeCommit(u), u}
  BY DEF AddProposalBlock
<1>3. CASE k = m
  <2> HIDE DEF k
  <2> QED
    BY <1>1, <1>3 DEF k
<1>4. CASE m.proposalBlock = None /\ k \in {v, EnterPrecommit(v, m.round), FinalizeCommit(u), u}
  <2>1. ~ m.executed
    BY <1>1, <1>4, Constants DEF ExecutedIsValid, Hashes
  <2> HIDE DEF k, maj
  <2>2. /\ a \in Nodes /\ a.votes = m.votes /\ a.round = m.round /\ a.step = m.step
        /\ a.sent = m.sent /\ a.timer = m.timer /\ a.executed = m.executed
        /\ a.lockedRound = m.lockedRound /\ a.lockedBlock = m.lockedBlock
        /\ a.lockedExecuted = m.lockedExecuted /\ a.committed = m.committed
    BY <1>1 DEF Nodes
  <2> HIDE DEF a
  <2>3. /\ u \in Nodes /\ u.votes = m.votes /\ u.round = m.round /\ u.step = m.step
        /\ u.sent = m.sent /\ u.timer = m.timer /\ u.executed = m.executed
        /\ u.lockedRound = m.lockedRound /\ u.lockedBlock = m.lockedBlock
        /\ u.lockedExecuted = m.lockedExecuted /\ u.committed = m.committed
    BY <1>1, <2>2 DEF Nodes
  <2> HIDE DEF u
  <2>4. ExecutedIsValid(u) /\ At(m) <= At(u)
    BY <1>1, <2>1, <2>3, NodeFacts DEF ExecutedIsValid, Precommits, At
  <2>5. NodeInv(u, q) /\ MovesOn(m, u)
    BY <2>3, <2>4, PlainChange
  <2>6. NodeInv(FinalizeCommit(u), q) /\ MovesOn(m, FinalizeCommit(u))
    <3>1. NodeInv(FinalizeCommit(u), q) /\ MovesOn(u, FinalizeCommit(u))
      BY <2>5, FinalizeCommitInv
    <3> QED
      BY <1>1, <2>3, <2>5, <3>1, MovesOnOn DEF NodeInv
  <2>7. NodeInv(v, q) /\ MovesOn(m, v)
    <3>1. m.round <= u.round
      BY <1>1, <2>3
    <3>2. NodeInv(v, q) /\ MovesOn(u, v)
      BY <1>1, <2>5, <3>1, EnterPrevoteInv
    <3> HIDE DEF v
    <3> QED
      BY <1>1, <2>3, <2>5, <3>2, MovesOnOn DEF NodeInv
  <2> HIDE DEF v
  <2>8. NodeInv(EnterPrecommit(v, m.round), q) /\ MovesOn(m, EnterPrecommit(v, m.round))
    <3>1. v \in Nodes /\ m.round <= v.round
      BY <1>1, <2>7, MovesOnRound DEF NodeInv
    <3>2. /\ NodeInv(EnterPrecommit(v, m.round), q)
          /\ MovesOn(v, EnterPrecommit(v, m.round))
      BY <1>1, <2>7, <3>1, EnterPrecommitInv
    <3>3. EnterPrecommit(v, m.round) \in Nodes
      BY <3>2 DEF NodeInv
    <3> QED
      BY <1>1, <2>7, <3>1, <3>2, <3>3, MovesOnOn
  <2> QED
    BY <1>4, <2>5, <2>6, <2>7, <2>8 DEF k
<1> QED
  BY <1>2, <1>3, <1>4

(* addVote after a prevote: unlocking, updating the valid block, and what  *)
(* the votes of the round call for.                                        *)
LEMMA AfterPrevoteInv ==
  ASSUME NEW m, NEW q, NodeInv(m, q), NEW r \in RoundNumbers
  PROVE  NodeInv(AfterPrevote(m, r), q) /\ MovesOn(m, AfterPrevote(m, r))
<1> DEFINE maj == Prevotes(m, r).maj23
           any == HasTwoThirdsAny(Prevotes(m, r))
           t == TryUnlock(m, r, maj)
           u == TryUpdateValid(t, r, maj)
           k == AfterPrevote(m, r)
<1>1. /\ m \in Nodes /\ VoteSetsOK(m.votes) /\ ExecutedIsValid(m) /\ MovesOn(m, m)
      /\ r \in RoundOrNone /\ r \in Int
  BY MovesOnSelf, Constants DEF NodeInv, RoundNumbers
<1>2. /\ maj # None => Polka(m, r, maj) /\ maj \in Hashes
      /\ maj \notin {None, Nil} => maj \in BlockOrNone
  BY <1>1, MajorityIsPolka, Constants DEF Hashes, BlockOrNone
<1>3. \/ k = EnterNewRound(u, r)
      \/ u.round = r /\ k \in {EnterPrecommit(u, r), EnterPrevoteWait(u, r)}
      \/ k \in {EnterPrevote(u, u.round), u}
  BY DEF AfterPrevote
<1> HIDE DEF maj
<1>4. NodeInv(t, q) /\ MovesOn(m, t)
  <2>1. CASE t = m
    <3> HIDE DEF t
    <3> QED
      BY <1>1, <2>1
  <2>2. CASE t # m
    <3>1. /\ t = Unlock(m) /\ maj # None /\ m.lockedBlock # maj
          /\ m.lockedRound < r /\ r <= m.round
      BY <2>2 DEF TryUnlock
    <3> HIDE DEF t
    <3>2. /\ t \in Nodes /\ t.votes = m.votes /\ t.round = m.round /\ t.step = m.step
          /\ t.timer = m.timer /\ t.sent = m.sent
          /\ t.lockedRound = -1 /\ t.lockedBlock = None /\ t.lockedExecuted = FALSE
          /\ t.executed = m.executed /\ t.proposalBlock = m.proposalBlock
          /\ t.committed = m.committed
      BY <1>1, <3>1, Constants DEF Unlock, Nodes
    <3>3. ExecutedIsValid(t)
      BY <1>1, <3>2 DEF ExecutedIsValid, Precommits
    <3>4. \A w \in PrecommitsOf(Own(m, q)) :
            w.hash = m.lockedBlock /\ w.round <= m.lockedRound => w.round < r
      <4>1. m.lockedRound \in Int
        BY <1>1 DEF Nodes, RoundOrNone
      <4>2. \A w \in PrecommitsOf(Own(m, q)) : w.round \in Int
        BY DEF PrecommitsOf, Own, PublicOwn, QueuedOwn, OwnVotes, RoundNumbers
      <4> QED
        BY <1>1, <3>1, <4>1, <4>2
    <3>5. Polka(m, r, maj) /\ maj \in Hashes
      BY <1>2, <3>1
    <3> QED
      BY <3>1, <3>2, <3>3, <3>4, <3>5, UnlockInv
  <2> QED
    BY <2>1, <2>2
<1> HIDE DEF t
<1>5. NodeInv(u, q) /\ MovesOn(m, u)
  <2>1. t \in Nodes /\ ExecutedIsValid(t) /\ MovesOn(t, t)
    BY <1>4, MovesOnSelf DEF NodeInv
  <2>2. CASE u = t
    <3> HIDE DEF u
    <3> QED
      BY <1>4, <2>2
  <2>3. CASE u # t
    <3>1. /\ maj \notin {None, Nil}
          /\ \/ u = [t EXCEPT !.validRound = r, !.validBlock = t.proposalBlock]
             \/ u = [DropProposalBlock(t) EXCEPT !.proposalBlockHash = maj]
      BY <2>3 DEF TryUpdateValid
    <3> HIDE DEF u
    <3>2. /\ u \in Nodes /\ u.votes = t.votes /\ u.round = t.round /\ u.step = t.step
          /\ u.sent = t.sent /\ u.timer = t.timer
          /\ u.lockedRound = t.lockedRound /\ u.lockedBlock = t.lockedBlock
          /\ u.lockedExecuted = t.lockedExecuted /\ u.committed = t.committed
          /\ u.executed => t.executed /\ u.proposalBlock = t.proposalBlock
      <4>1. maj \in BlockOrNone /\ None \in BlockOrNone /\ t.proposalBlock \in BlockOrNone
        BY <1>2, <2>1, <3>1, Constants DEF Nodes
      <4>2. CASE u = [t EXCEPT !.validRound = r, !.validBlock = t.proposalBlock]
        BY <1>1, <2>1, <4>1, <4>2 DEF Nodes
      <4>3. CASE u = [DropProposalBlock(t) EXCEPT !.proposalBlockHash = maj]
        BY <2>1, <4>1, <4>3 DEF Nodes, DropProposalBlock
      <4> QED
        BY <3>1, <4>2, <4>3
    <3>3. ExecutedIsValid(u) /\ At(t) <= At(u)
      BY <2>1, <3>2, NodeFacts DEF ExecutedIsValid, Precommits, At
    <3>4. NodeInv(u, q) /\ MovesOn(t, u)
      BY <1>4, <3>2, <3>3, PlainChange
    <3> QED
      BY <1>1, <1>4, <2>1, <3>2, <3>4, MovesOnOn
  <2> QED
    BY <2>2, <2>3
<1> HIDE DEF u, k
<1>6. u \in Nodes /\ u.round \in RoundNumbers /\ u.round <= u.round
  BY <1>5, NodeFacts DEF NodeInv
<1>7. NodeInv(k, q) /\ MovesOn(u, k)
  <2>1. CASE k = EnterNewRound(u, r)
    <3>1. LET l == EnterNewRound(u, r)
          IN  NodeInv(l, q) /\ MovesOn(u, l) /\ r <= l.round
      BY <1>5, EnterNewRoundInv
    <3> QED
      BY <2>1, <3>1
  <2>2. CASE u.round = r /\ k = EnterPrecommit(u, r)
    BY <1>5, <1>6, <2>2, EnterPrecommitInv
  <2>3. CASE u.round = r /\ k = EnterPrevoteWait(u, r)
    BY <1>5, <1>6, <2>3, EnterPrevoteWaitInv
  <2>4. CASE k = EnterPrevote(u, u.round)
    BY <1>5, <1>6, <2>4, EnterPrevoteInv
  <2>5. CASE k = u
    BY <1>5, <1>6, <2>5, MovesOnSelf
  <2> QED
    BY <1>3, <2>1, <2>2, <2>3, <2>4, <2>5
<1>8. k \in Nodes
  BY <1>7 DEF NodeInv
<1> QED
  BY <1>1, <1>5, <1>6, <1>7, <1>8, MovesOnOn DEF k

(* addVote after a precommit.                                              *)
LEMMA AfterPrecommitInv ==
  ASSUME NEW m, NEW q, NodeInv(m, q), NEW r \in RoundNumbers
  PROVE  NodeInv(AfterPrecommit(m, r), q) /\ MovesOn(m, AfterPrecommit(m, r))
<1> DEFINE maj == Precommits(m, r).maj23
           e == EnterNewRound(m, r)
           p == EnterPrecommit(e, r)
           c == EnterCommit(p, r)
           k == AfterPrecommit(m, r)
<1>1. m \in Nodes /\ VoteSetsOK(m.votes) /\ MovesOn(m, m) /\ 0 \in RoundNumbers
  BY MovesOnSelf, Constants DEF NodeInv
<1>2. maj \notin {None, Nil} => maj \in Blocks
  <2>1. VoteSetInv(Precommits(m, r))
    BY <1>1, GetVoteSetInv, Constants DEF Precommits
  <2> QED
    BY <2>1 DEF VoteSetInv, VoteSetType, Hashes
<1>3. \/ k \in {EnterPrecommitWait(p, r), EnterPrecommitWait(e, r), m}
      \/ maj \notin {None, Nil} /\ k = EnterNewRound(c, 0)
  BY DEF AfterPrecommit
<1> HIDE DEF maj, k
<1>4. NodeInv(e, q) /\ MovesOn(m, e) /\ r <= e.round /\ e \in Nodes
  <2>1. LET l == EnterNewRound(m, r)
        IN  NodeInv(l, q) /\ MovesOn(m, l) /\ r <= l.round
    BY EnterNewRoundInv
  <2> QED
    BY <2>1 DEF NodeInv
<1> HIDE DEF e
<1>5. NodeInv(p, q) /\ MovesOn(m, p) /\ r <= p.round /\ p \in Nodes
  <2>1. NodeInv(p, q) /\ MovesOn(e, p)
    BY <1>4, EnterPrecommitInv
  <2> HIDE DEF p
  <2>2. p \in Nodes
    BY <2>1 DEF NodeInv
  <2>3. r <= p.round
    BY <1>4, <2>1, <2>2, MovesOnRound, NodeFacts DEF RoundNumbers
  <2> QED
    BY <1>1, <1>4, <2>1, <2>2, <2>3, MovesOnOn
<1> HIDE DEF p
<1>6. ASSUME NEW z, NodeInv(z, q), MovesOn(m, z), r <= z.round
      PROVE  NodeInv(EnterPrecommitWait(z, r), q) /\ MovesOn(m, EnterPrecommitWait(z, r))
  <2>1. NodeInv(EnterPrecommitWait(z, r), q) /\ MovesOn(z, EnterPrecommitWait(z, r))
    BY <1>6, EnterPrecommitWaitInv
  <2>2. z \in Nodes /\ EnterPrecommitWait(z, r) \in Nodes
    BY <1>6, <2>1 DEF NodeInv
  <2> QED
    BY <1>1, <1>6, <2>1, <2>2, MovesOnOn
<1>7. ASSUME maj \notin {None, Nil}
      PROVE  NodeInv(EnterNewRound(c, 0), q) /\ MovesOn(m, EnterNewRound(c, 0))
  <2>1. Precommits(p, r) = Precommits(m, r)
    BY <1>5, SamePolkas DEF MovesOn
  <2>2. Precommits(p, r).maj23 \in Blocks
    BY <1>2, <1>7, <2>1 DEF maj
  <2>3. NodeInv(c, q) /\ MovesOn(p, c)
    BY <1>5, <2>2, EnterCommitInv
  <2> HIDE DEF c
  <2>4. LET l == EnterNewRound(c, 0)
        IN  NodeInv(l, q) /\ MovesOn(c, l) /\ 0 <= l.round
    BY <1>1, <2>3, EnterNewRoundInv
  <2>5. c \in Nodes /\ EnterNewRound(c, 0) \in Nodes
    BY <2>3, <2>4 DEF NodeInv
  <2>6. MovesOn(m, c)
    BY <1>1, <1>5, <2>3, <2>5, MovesOnOn
  <2> QED
    BY <1>1, <2>4, <2>5, <2>6, MovesOnOn
<1> HIDE DEF c
<1>8. NodeInv(k, q) /\ MovesOn(m, k)
  BY <1>1, <1>3, <1>4, <1>5, <1>6, <1>7
<1> QED
  BY <1>8 DEF k

(* handleTimeout, of a timeout for a round the node has reached.           *)
LEMMA HandleTimeoutInv ==
  ASSUME NEW m, NEW q, NodeInv(m, q), NEW r \in RoundNumbers, NEW st \in TimedSteps,
         r <= m.round, st = PrecommitWait => r < MaxRound
  PROVE  NodeInv(HandleTimeout(m, r, st), q) /\ MovesOn(m, HandleTimeout(m, r, st))
<1> DEFINE k == HandleTimeout(m, r, st)
<1>1. /\ m \in Nodes /\ MovesOn(m, m) /\ 0 \in RoundNumbers
      /\ st \in {NewHeight, Propose, PrevoteWait, PrecommitWait}
  BY MovesOnSelf, Constants DEF NodeInv, TimedSteps
<1>2. \/ k \in {m, EnterNewRound(m, 0), EnterPrevote(m, r), EnterPrecommit(m, r)}
      \/ st = PrecommitWait /\ k = EnterNewRound(EnterPrecommit(m, r), r + 1)
  BY <1>1 DEF HandleTimeout, NewHeight, Propose, PrevoteWait, PrecommitWait
<1> HIDE DEF k
<1>3. ASSUME NEW z, NodeInv(z, q), NEW s \in RoundNumbers
      PROVE  /\ NodeInv(EnterNewRound(z, s), q) /\ MovesOn(z, EnterNewRound(z, s))
             /\ z \in Nodes /\ EnterNewRound(z, s) \in Nodes
  <2>1. LET l == EnterNewRound(z, s)
        IN  NodeInv(l, q) /\ MovesOn(z, l) /\ s <= l.round
    BY <1>3, EnterNewRoundInv
  <2> QED
    BY <1>3, <2>1 DEF NodeInv
<1>4. NodeInv(EnterPrevote(m, r), q) /\ MovesOn(m, EnterPrevote(m, r))
  BY EnterPrevoteInv
<1>5. NodeInv(EnterPrecommit(m, r), q) /\ MovesOn(m, EnterPrecommit(m, r))
  BY EnterPrecommitInv
<1>6. CASE k \in {m, EnterNewRound(m, 0), EnterPrevote(m, r), EnterPrecommit(m, r)}
  BY <1>1, <1>3, <1>4, <1>5, <1>6 DEF k
<1>7. CASE st = PrecommitWait /\ k = EnterNewRound(EnterPrecommit(m, r), r + 1)
  <2>1. r + 1 \in RoundNumbers
    BY <1>7, Constants DEF RoundNumbers
  <2>2. /\ NodeInv(k, q) /\ MovesOn(EnterPrecommit(m, r), k)
        /\ EnterPrecommit(m, r) \in Nodes /\ k \in Nodes
    BY <1>3, <1>5, <1>7, <2>1
  <2> QED
    BY <1>1, <1>5, <2>2, MovesOnOn DEF k
<1> QED
  BY <1>2, <1>6, <1>7
-----------------------------------------------------------------------------
(* The votes of k contain those of m.                                      *)
VotesGrow(m, k) ==
    /\ \A r \in RoundNumbers, h \in Hashes : Polka(m, r, h) => Polka(k, r, h)
    /\ \A r \in RoundNumbers :
         /\ Prevotes(m, r).maj23 # None => Prevotes(k, r).maj23 = Prevotes(m, r).maj23
         /\ Precommits(m, r).maj23 # None => Precommits(k, r).maj23 = Precommits(m, r).maj23

(* The queue p is q without its first d messages, or a part of that; of    *)
(* the node's own votes at most the first of q has become public.          *)
LEMMA Shifts ==
  ASSUME NEW m, NEW q, NodeInv(m, q),
         NEW k \in Nodes, VoteSetsOK(k.votes), VotesGrow(m, k),
         NEW p \in Seq(Messages), NEW d \in Nat,
         Len(Queue(k, p)) \in Nat, Len(Queue(m, q)) \in Nat,
         \A i \in 1 .. Len(Queue(k, p)) :
            /\ i + d \in 1 .. Len(Queue(m, q))
            /\ Queue(k, p)[i] = Queue(m, q)[i + d],
         \A u \in PublicOwn(k) :
            \/ u \in PublicOwn(m)
            \/ d >= 1 /\ 1 \in 1 .. Len(Queue(m, q)) /\ u = Queue(m, q)[1],
         k.round = m.round, k.step = m.step, k.timer.round <= k.round,
         k.lockedRound = m.lockedRound, k.lockedBlock = m.lockedBlock,
         k.executed = m.executed, k.proposalBlock = m.proposalBlock,
         k.lockedExecuted = m.lockedExecuted, k.committed = m.committed
  PROVE  NodeInv(k, p)
<1> DEFINE Q == Queue(m, q)
           P == Queue(k, p)
<1>1. /\ QueuedOwn(k, p) \subseteq QueuedOwn(m, q)
      /\ PublicOwn(k) \subseteq PublicOwn(m) \cup QueuedOwn(m, q)
      /\ Own(k, p) \subseteq Own(m, q)
  <2>1. QueuedOwn(k, p) \subseteq QueuedOwn(m, q)
    BY DEF QueuedOwn
  <2>2. PublicOwn(k) \subseteq PublicOwn(m) \cup QueuedOwn(m, q)
    BY DEF QueuedOwn, PublicOwn
  <2> QED
    BY <2>1, <2>2 DEF Own
<1>2. VotesAscend(k, p)
  <2>1. \A u \in Own(k, p) : PlaceOf(u) <= At(k)
    BY <1>1 DEF NodeInv, VotesAscend, At
  <2>2. ASSUME NEW i \in 1 .. Len(P), NEW j \in 1 .. Len(P), i < j,
               P[i] \in OwnVotes, P[j] \in OwnVotes
        PROVE  PlaceOf(P[i]) < PlaceOf(P[j])
    <3>1. /\ i + d \in 1 .. Len(Q) /\ j + d \in 1 .. Len(Q) /\ i + d < j + d
          /\ P[i] = Q[i + d] /\ P[j] = Q[j + d]
      BY <2>2
    <3> HIDE DEF P, Q
    <3> QED
      BY <2>2, <3>1 DEF NodeInv, VotesAscend, Q
  <2>3. ASSUME NEW u \in PublicOwn(k), NEW w \in QueuedOwn(k, p)
        PROVE  PlaceOf(u) < PlaceOf(w)
    <3>1. CASE u \in PublicOwn(m)
      BY <1>1, <3>1 DEF NodeInv, VotesAscend
    <3>2. CASE d >= 1 /\ 1 \in 1 .. Len(Q) /\ u = Q[1]
      <4>1. PICK i \in 1 .. Len(P) : P[i] = w
        BY DEF QueuedOwn
      <4>2. i + d \in 1 .. Len(Q) /\ 1 < i + d /\ Q[i + d] = w
        BY <3>2, <4>1
      <4>3. u \in OwnVotes /\ w \in OwnVotes
        BY DEF PublicOwn, QueuedOwn
      <4> HIDE DEF P, Q
      <4> QED
        BY <3>2, <4>2, <4>3 DEF NodeInv, VotesAscend, Q
    <3> QED
      BY <3>1, <3>2
  <2>4. QueuedOwn(k, p) # {} => Self \in Validators
    BY <1>1 DEF NodeInv, VotesAscend
  <2> QED
    BY <2>1, <2>2, <2>3, <2>4 DEF VotesAscend
<1>3. LockHasPolka(k)
  <2>1. m.lockedBlock # None => m.lockedRound \in RoundNumbers
    BY DEF NodeInv, LockHasPolka, Nodes, RoundOrNone, RoundNumbers
  <2> QED
    BY <2>1 DEF NodeInv, LockHasPolka, VotesGrow
<1>4. \A u, r : MayLeave(m, u, r) => MayLeave(k, u, r)
  BY DEF VotesGrow, MayLeave
<1>5. PrecommitsOf(Own(k, p)) \subseteq PrecommitsOf(Own(m, q))
  BY <1>1 DEF PrecommitsOf
<1>6. LockRemembers(k, p)
  BY <1>4, <1>5 DEF NodeInv, LockRemembers
<1>7. QueuedAllowed(k, p)
  <2>1. \A w \in PrecommitsOf(QueuedOwn(k, p)) :
          /\ w \in PrecommitsOf(QueuedOwn(m, q))
          /\ w.round \in RoundNumbers /\ w.hash \in Hashes
    BY <1>1 DEF PrecommitsOf, QueuedOwn, OwnVotes
  <2>2. \A w \in PrecommitsOf(QueuedOwn(k, p)) : Polka(k, w.round, w.hash)
    BY <2>1 DEF NodeInv, QueuedAllowed, VotesGrow
  <2> QED
    BY <1>1, <1>4, <1>5, <2>2 DEF NodeInv, QueuedAllowed
<1>8. TimersReached(k, p)
  BY DEF NodeInv, TimersReached
<1>9. ExecutedIsValid(k)
  BY HashAssumption, Constants DEF NodeInv, ExecutedIsValid, VotesGrow
<1> QED
  BY <1>2, <1>3, <1>6, <1>7, <1>8, <1>9 DEF NodeInv

(* tryAddVote, what it does to the votes.                                  *)
Added(m, t, r, v, h, p) == [m EXCEPT !.votes = AddVoteFrom(@, r, t, v, h, p)]

(* The votes of a are those of m and at most one more.                     *)
AtMostOneMore(m, a, t, r, v, h) ==
    \A s \in RoundNumbers, y \in VoteTypes, g \in Hashes :
        /\ VotersOf(m.votes, s, y, g) \subseteq VotersOf(a.votes, s, y, g)
        /\ VotersOf(a.votes, s, y, g) \subseteq
             VotersOf(m.votes, s, y, g) \cup {w \in {v} : s = r /\ y = t /\ g = h}

LEMMA AddedVote ==
  ASSUME NEW m \in Nodes, VoteSetsOK(m.votes),
         NEW t \in VoteTypes, NEW r \in RoundNumbers, NEW v \in Validators, NEW h \in Hashes,
         NEW p \in Peers \cup {Local}
  PROVE  LET a == Added(m, t, r, v, h, p)
         IN  /\ a \in Nodes /\ VoteSetsOK(a.votes) /\ VotesGrow(m, a)
             /\ a.round = m.round /\ a.step = m.step /\ a.timer = m.timer /\ a.sent = m.sent
             /\ a.lockedRound = m.lockedRound /\ a.lockedBlock = m.lockedBlock
             /\ a.executed = m.executed /\ a.proposalBlock = m.proposalBlock
             /\ a.lockedExecuted = m.lockedExecuted /\ a.committed = m.committed
             /\ AtMostOneMore(m, a, t, r, v, h)
             /\ \A u \in PublicOwn(a) : u \in PublicOwn(m) \/ (v = Self /\ u = OwnVote(t, r, h))
<1> DEFINE a == Added(m, t, r, v, h, p)
           vs == AddVoteFrom(m.votes, r, t, v, h, p)
           P == Peers \cup {Local}
<1>1. m.votes \in HeightVoteSets(AllRounds, P) /\ r \in AllRounds
  BY Constants DEF Nodes
<1>2. /\ vs \in HeightVoteSets(AllRounds, P)
      /\ VoteSetsOK(vs)
      /\ \A q \in AllRounds, z \in VoteTypes :
           /\ GetVoteSet(m.votes, q, z).maj23 # None =>
                GetVoteSet(vs, q, z).maj23 = GetVoteSet(m.votes, q, z).maj23
           /\ \A g \in Hashes :
                /\ VotersOf(m.votes, q, z, g) \subseteq VotersOf(vs, q, z, g)
                /\ VotersOf(vs, q, z, g) \subseteq
                     VotersOf(m.votes, q, z, g) \cup {w \in {v} : q = r /\ z = t /\ g = h}
  <2> HIDE DEF P, vs
  <2>1. LET s == AddVoteFrom(m.votes, r, t, v, h, p)
        IN  /\ s \in HeightVoteSets(AllRounds, P)
            /\ VoteSetsOK(s)
            /\ \A q \in AllRounds, z \in VoteTypes :
                 /\ GetVoteSet(m.votes, q, z).maj23 # None =>
                      GetVoteSet(s, q, z).maj23 = GetVoteSet(m.votes, q, z).maj23
                 /\ \A g \in Hashes :
                      /\ VotersOf(m.votes, q, z, g) \subseteq VotersOf(s, q, z, g)
                      /\ VotersOf(s, q, z, g) \subseteq
                           VotersOf(m.votes, q, z, g)
                             \cup {w \in {v} : q = r /\ z = t /\ g = h}
    BY <1>1, AddVoteFromType DEF P
  <2> QED
    BY <2>1 DEF vs
<1> HIDE DEF vs
<1>3. /\ a \in Nodes /\ a.votes = vs
      /\ a.round = m.round /\ a.step = m.step /\ a.timer = m.timer /\ a.sent = m.sent
      /\ a.lockedRound = m.lockedRound /\ a.lockedBlock = m.lockedBlock
      /\ a.executed = m.executed /\ a.proposalBlock = m.proposalBlock
      /\ a.lockedExecuted = m.lockedExecuted /\ a.committed = m.committed
  BY <1>2 DEF Nodes, Added, vs
<1> HIDE DEF a, P
<1>4. \A s \in RoundNumbers, y \in VoteTypes, g \in Hashes :
        /\ VotersOf(m.votes, s, y, g) \subseteq VotersOf(a.votes, s, y, g)
        /\ VotersOf(a.votes, s, y, g) \subseteq
             VotersOf(m.votes, s, y, g) \cup {w \in {v} : s = r /\ y = t /\ g = h}
  BY <1>2, <1>3, Constants
<1>5. \A u \in PublicOwn(a) : u \in PublicOwn(m) \/ (v = Self /\ u = OwnVote(t, r, h))
  <2>1. ASSUME NEW u \in PublicOwn(a), u \notin PublicOwn(m)
        PROVE  v = Self /\ u = OwnVote(t, r, h)
    <3>1. /\ u \in OwnVotes /\ u.round \in RoundNumbers /\ u.type \in VoteTypes /\ u.hash \in Hashes
          /\ Self \in VotersOf(a.votes, u.round, u.type, u.hash)
          /\ Self \notin VotersOf(m.votes, u.round, u.type, u.hash)
      BY <2>1 DEF PublicOwn, OwnVotes
    <3>2. Self \in {w \in {v} : u.round = r /\ u.type = t /\ u.hash = h}
      BY <1>4, <3>1
    <3> QED
      BY <3>1, <3>2 DEF OwnVotes, OwnVote
  <2> QED
    BY <2>1
<1>6. VotesGrow(m, a)
  <2>1. ASSUME NEW s \in RoundNumbers, NEW g \in Hashes, Polka(m, s, g)
        PROVE  Polka(a, s, g)
    <3>1. "prevotes" \in VoteTypes
      BY DEF VoteTypes
    <3>2. VotersOf(m.votes, s, "prevotes", g) \subseteq VotersOf(a.votes, s, "prevotes", g)
      BY <1>4, <3>1
    <3>3. VoteSetInv(GetVoteSet(a.votes, s, "prevotes"))
      BY <1>2, <1>3, <3>1, GetVoteSetInv
    <3>4. VotersOf(a.votes, s, "prevotes", g) \in SUBSET Validators
      BY <3>3 DEF VoteSetInv, VoteSetType, BlockVotes, VotersOf
    <3> QED
      BY <2>1, <3>2, <3>4, QuorumMonotone DEF Polka
  <2> QED
    BY <1>2, <1>3, <2>1, Constants DEF VotesGrow, Prevotes, Precommits
<1>7. AtMostOneMore(m, a, t, r, v, h)
  BY <1>4 DEF AtMostOneMore
<1> QED
  BY <1>2, <1>3, <1>5, <1>6, <1>7 DEF a

(* ... and what follows from it.                                           *)
LEMMA TryAddVoteInv ==
  ASSUME NEW m, NEW q,
         NEW t \in VoteTypes, NEW r \in RoundNumbers, NEW v, NEW h, NEW p,
         NodeInv(Added(m, t, r, v, h, p), q)
  PROVE  LET k == TryAddVote(m, t, r, v, h, p)
         IN  NodeInv(k, q) /\ MovesOn(Added(m, t, r, v, h, p), k)
<1> DEFINE a == Added(m, t, r, v, h, p)
           k == TryAddVote(m, t, r, v, h, p)
<1>1. k \in {a, AfterPrevote(a, r), AfterPrecommit(a, r)}
  BY DEF TryAddVote, Added
<1> HIDE DEF a, k
<1>2. NodeInv(a, q) /\ MovesOn(a, a)
  BY MovesOnSelf DEF NodeInv, a
<1>3. NodeInv(AfterPrevote(a, r), q) /\ MovesOn(a, AfterPrevote(a, r))
  BY <1>2, AfterPrevoteInv
<1>4. NodeInv(AfterPrecommit(a, r), q) /\ MovesOn(a, AfterPrecommit(a, r))
  BY <1>2, AfterPrecommitInv
<1> QED
  BY <1>1, <1>2, <1>3, <1>4 DEF a, k
-----------------------------------------------------------------------------
(* The actions.                                                            *)

(* A new height.                                                           *)
LEMMA InitIInv == Init => IInv
<1> SUFFICES ASSUME Init PROVE IInv
  OBVIOUS
<1> DEFINE m == InitNode
<1>1. n = m /\ msgQueue = <<>> /\ synced \in BlockOrNone /\ over \in BOOLEAN
  BY Constants DEF Init
<1>2. /\ m.votes = EmptyHeightVoteSet /\ Rounds(m.votes) = {} /\ m.sent = <<>>
      /\ m.lockedBlock = None /\ m.lockedRound = -1 /\ m.timer.round = 0 /\ m.round = 0
      /\ m.executed = FALSE /\ m.lockedExecuted = FALSE /\ m.committed = None
  BY DEF InitNode, EmptyHeightVoteSet, Rounds
<1>3. m.votes \in HeightVoteSets(AllRounds, Peers \cup {Local})
  <2> DEFINE P == Peers \cup {Local}
             f == [r \in {} |-> NewRoundVoteSet]
             g == [p \in {} |-> {}]
  <2>1. 0 \in AllRounds /\ {} \in SUBSET AllRounds /\ {} \in SUBSET P
    BY Constants
  <2>2. f \in [{} -> [VoteTypes -> VoteSetType]] /\ g \in [{} -> SUBSET AllRounds]
    OBVIOUS
  <2>3. EmptyHeightVoteSet = [round |-> 0, roundVoteSets |-> f, peerCatchupRounds |-> g]
    BY DEF EmptyHeightVoteSet
  <2> HIDE DEF f, g, P
  <2>4. f \in UNION {[S -> [VoteTypes -> VoteSetType]] : S \in SUBSET AllRounds}
    BY <2>1, <2>2
  <2>5. g \in UNION {[S -> SUBSET AllRounds] : S \in SUBSET P}
    BY <2>1, <2>2
  <2>6. EmptyHeightVoteSet \in HeightVoteSets(AllRounds, P)
    BY <2>1, <2>3, <2>4, <2>5 DEF HeightVoteSets
  <2> QED
    BY <1>2, <2>6 DEF P
<1>4. m \in Nodes
  <2>1. /\ 0 \in RoundNumbers /\ NewHeight \in NewHeight .. Commit /\ NewHeight \in TimedSteps
        /\ None \in BlockOrNone /\ -1 \in RoundOrNone /\ <<>> \in Seq(Messages)
        /\ [round |-> 0, step |-> NewHeight] \in Timers
    BY Constants DEF NewHeight, Commit, TimedSteps, Timers
  <2> QED
    BY <1>2, <1>3, <2>1 DEF InitNode, Nodes
<1> HIDE DEF m
<1>5. VoteSetsOK(m.votes) /\ <<>> \in Seq(Messages)
  BY <1>2 DEF VoteSetsOK
<1>6. Queue(m, <<>>) = <<>> /\ Len(Queue(m, <<>>)) = 0
  BY <1>2 DEF Queue
<1>7. PublicOwn(m) = {} /\ QueuedOwn(m, <<>>) = {} /\ Own(m, <<>>) = {}
  BY <1>2, <1>6
     DEF PublicOwn, QueuedOwn, Own, VotersOf, GetVoteSet, EmptyVoteSet, NoBlockVotes, OwnVotes
<1>8. NodeInv(m, <<>>)
  BY <1>2, <1>4, <1>5, <1>6, <1>7
     DEF NodeInv, VotesAscend, LockHasPolka, LockRemembers, QueuedAllowed, TimersReached,
         ExecutedIsValid, PrecommitsOf
<1> QED
  BY <1>1, <1>2, <1>8 DEF IInv

(* Votes that have not changed have grown.                                 *)
LEMMA SameVotesGrow ==
  ASSUME NEW m, NEW k, k.votes = m.votes
  PROVE  VotesGrow(m, k) /\ PublicOwn(k) = PublicOwn(m) /\ SameVotes(m, k)
  BY DEF VotesGrow, Polka, Prevotes, Precommits, PublicOwn, SameVotes

LEMMA QueueType ==
  ASSUME NEW m \in Nodes, NEW q \in Seq(Messages)
  PROVE  /\ Queue(m, q) \in Seq(Messages) /\ Len(Queue(m, q)) \in Nat
         /\ m.sent = <<>> => Queue(m, q) = q
<1>1. m.sent \in Seq(Messages)
  BY DEF Nodes
<1> QED
  BY <1>1, ConcatProperties, ConcatEmptySeq DEF Queue

(* When a handler is done, what it has pushed is in the queue.             *)
LEMMA Settled ==
  ASSUME NEW m, NEW q, NodeInv(m, q)
  PROVE  LET k == [m EXCEPT !.sent = <<>>]
         IN  NodeInv(k, q \o m.sent) /\ MovesOn(m, k) /\ k.sent = <<>>
<1> DEFINE k == [m EXCEPT !.sent = <<>>]
           p == q \o m.sent
<1>1. m \in Nodes /\ VoteSetsOK(m.votes) /\ q \in Seq(Messages) /\ m.timer.round <= m.round
  BY DEF NodeInv, TimersReached
<1>2. <<>> \in Seq(Messages)
  OBVIOUS
<1>3. /\ k \in Nodes /\ k.votes = m.votes /\ k.round = m.round /\ k.step = m.step
      /\ k.timer = m.timer /\ k.sent = <<>>
      /\ k.lockedRound = m.lockedRound /\ k.lockedBlock = m.lockedBlock
      /\ k.executed = m.executed /\ k.proposalBlock = m.proposalBlock
      /\ k.lockedExecuted = m.lockedExecuted /\ k.committed = m.committed
  BY <1>1, <1>2 DEF Nodes
<1> HIDE DEF k
<1>4. p = Queue(m, q) /\ p \in Seq(Messages) /\ Queue(k, p) = p /\ Len(p) \in Nat
  <2>1. p = Queue(m, q) /\ p \in Seq(Messages)
    BY <1>1, QueueType DEF Queue
  <2> HIDE DEF p
  <2> QED
    BY <1>1, <1>3, <2>1, QueueType
<1> HIDE DEF p
<1>5. VotesGrow(m, k) /\ PublicOwn(k) = PublicOwn(m) /\ SameVotes(m, k) /\ VoteSetsOK(k.votes)
  BY <1>1, <1>3, SameVotesGrow
<1>6. \A i \in 1 .. Len(Queue(k, p)) :
        i + 0 \in 1 .. Len(Queue(m, q)) /\ Queue(k, p)[i] = Queue(m, q)[i + 0]
  BY <1>4
<1>7. NodeInv(k, p)
  BY <1>1, <1>3, <1>4, <1>5, <1>6, Shifts
<1>8. MovesOn(m, k)
  BY <1>1, <1>3, <1>5, NodeFacts DEF MovesOn, At
<1> QED
  BY <1>3, <1>7, <1>8 DEF k, p

(* What a step that settles the object m does.                             *)
LEMMA SettleStep ==
  ASSUME IInv, NEW m, NEW q, NodeInv(m, q), Settle(m, q)
  PROVE  IInv' /\ MovesOn(m, n')
<1>1. LET k == [m EXCEPT !.sent = <<>>]
      IN  NodeInv(k, q \o m.sent) /\ MovesOn(m, k) /\ k.sent = <<>>
  BY Settled
<1> QED
  BY <1>1 DEF Settle, IInv

(* A step either adds one vote, which if it is the node's own was the      *)
(* first message of its queue, or none; then the node moves on.            *)
AddsVote ==
    \E t \in VoteTypes, r \in RoundNumbers, v \in Validators :
        \E h \in Hashes, p \in Peers \cup {Local} :
            /\ MovesOn(Added(n, t, r, v, h, p), n')
            /\ v = Self => msgQueue # <<>> /\ Head(msgQueue) = OwnVote(t, r, h)

StepDone == IInv' /\ (MovesOn(n, n') \/ AddsVote)

(* tryAddVote, of a vote of a peer or of the first message of the queue.   *)
LEMMA PeerVoteAdded ==
  ASSUME IInv, NEW t \in VoteTypes, NEW r \in RoundNumbers, NEW h \in Hashes,
         NEW p \in Peers, NEW v \in Validators \ {Self}
  PROVE  NodeInv(Added(n, t, r, v, h, p), msgQueue)
<1> DEFINE a == Added(n, t, r, v, h, p)
<1>1. /\ n \in Nodes /\ VoteSetsOK(n.votes) /\ NodeInv(n, msgQueue) /\ n.timer.round <= n.round
      /\ msgQueue \in Seq(Messages) /\ p \in Peers \cup {Local} /\ v \in Validators /\ v # Self
  BY DEF IInv, NodeInv, TimersReached
<1>2. /\ a \in Nodes /\ VoteSetsOK(a.votes) /\ VotesGrow(n, a)
      /\ a.round = n.round /\ a.step = n.step /\ a.timer = n.timer /\ a.sent = n.sent
      /\ a.lockedRound = n.lockedRound /\ a.lockedBlock = n.lockedBlock
      /\ a.executed = n.executed /\ a.proposalBlock = n.proposalBlock
      /\ a.lockedExecuted = n.lockedExecuted /\ a.committed = n.committed
      /\ \A u \in PublicOwn(a) : u \in PublicOwn(n)
  BY <1>1, AddedVote
<1> HIDE DEF a
<1>3. /\ Queue(a, msgQueue) = Queue(n, msgQueue)
      /\ Len(Queue(a, msgQueue)) \in Nat /\ Len(Queue(n, msgQueue)) \in Nat
  BY <1>1, <1>2, QueueType DEF Queue
<1>4. \A i \in 1 .. Len(Queue(a, msgQueue)) :
        /\ i + 0 \in 1 .. Len(Queue(n, msgQueue))
        /\ Queue(a, msgQueue)[i] = Queue(n, msgQueue)[i + 0]
  BY <1>3
<1>5. NodeInv(a, msgQueue)
  BY <1>1, <1>2, <1>3, <1>4, Shifts
<1> QED
  BY <1>5 DEF a

LEMMA PeerVoteStep ==
  ASSUME IInv, NEW t \in VoteTypes, NEW r \in RoundNumbers, NEW h \in Hashes,
         NEW p \in Peers, NEW v \in Validators \ {Self}, PeerVote(t, r, v, h, p)
  PROVE  StepDone
<1> DEFINE a == Added(n, t, r, v, h, p)
           k == TryAddVote(n, t, r, v, h, p)
<1>1. NodeInv(a, msgQueue)
  BY PeerVoteAdded
<1> HIDE DEF k
<1>2. NodeInv(k, msgQueue) /\ MovesOn(a, k)
  BY <1>1, TryAddVoteInv DEF k
<1>3. IInv' /\ MovesOn(k, n')
  BY <1>2, SettleStep DEF PeerVote, k
<1>4. MovesOn(a, n')
  <2>1. a \in Nodes /\ k \in Nodes /\ n' \in Nodes
    BY <1>1, <1>2, <1>3 DEF NodeInv, IInv
  <2> HIDE DEF a
  <2> QED
    BY <1>2, <1>3, <2>1, MovesOnOn
<1>5. AddsVote
  BY <1>4 DEF AddsVote
<1> QED
  BY <1>3, <1>5 DEF StepDone

(* A handler that adds no vote.                                            *)
LEMMA HandlerStep ==
  ASSUME IInv, NEW m, NEW q, NodeInv(m, q), MovesOn(n, m), Settle(m, q)
  PROVE  StepDone
<1>1. IInv' /\ MovesOn(m, n')
  BY SettleStep
<1>2. n \in Nodes /\ m \in Nodes /\ n' \in Nodes
  BY <1>1 DEF IInv, NodeInv
<1> QED
  BY <1>1, <1>2, MovesOnOn DEF StepDone

(* Taking the first message from the queue.                                *)
LEMMA Dequeued ==
  ASSUME IInv, msgQueue # <<>>
  PROVE  /\ NodeInv(n, Tail(msgQueue))
         /\ Head(msgQueue) \in Messages
         /\ Head(msgQueue) \in Timeouts =>
              /\ Head(msgQueue).round <= n.round
              /\ Head(msgQueue).step = PrecommitWait => Head(msgQueue).round < MaxRound
         /\ \A t \in VoteTypes, r \in RoundNumbers, h \in Hashes :
              Head(msgQueue) = OwnVote(t, r, h) =>
                 Self \in Validators /\ NodeInv(Added(n, t, r, Self, h, Local), Tail(msgQueue))
<1> DEFINE q == Tail(msgQueue)
           N == Len(msgQueue)
<1>1. /\ n \in Nodes /\ VoteSetsOK(n.votes) /\ NodeInv(n, msgQueue) /\ n.timer.round <= n.round
      /\ msgQueue \in Seq(Messages) /\ n.sent = <<>> /\ TimersReached(n, msgQueue)
      /\ VotesAscend(n, msgQueue)
  BY DEF IInv, NodeInv, TimersReached
<1>2. /\ Head(msgQueue) \in Messages /\ Head(msgQueue) = msgQueue[1]
      /\ q \in Seq(Messages) /\ N \in Nat /\ Len(q) = N - 1 /\ N >= 1
      /\ \A i \in 1 .. Len(q) : q[i] = msgQueue[i + 1]
  BY <1>1
<1> HIDE DEF q
<1>3. /\ Queue(n, msgQueue) = msgQueue /\ Queue(n, q) = q
  BY <1>1, <1>2, QueueType
<1>4. \A i \in 1 .. Len(q) : i + 1 \in 1 .. N /\ q[i] = msgQueue[i + 1]
  BY <1>2
<1>5. ASSUME NEW k \in Nodes, VoteSetsOK(k.votes), VotesGrow(n, k), k.sent = <<>>,
             \A u \in PublicOwn(k) : u \in PublicOwn(n) \/ u = msgQueue[1],
             k.round = n.round, k.step = n.step, k.timer = n.timer,
             k.lockedRound = n.lockedRound, k.lockedBlock = n.lockedBlock,
             k.executed = n.executed, k.proposalBlock = n.proposalBlock,
             k.lockedExecuted = n.lockedExecuted, k.committed = n.committed
      PROVE  NodeInv(k, q)
  <2>1. Queue(k, q) = q
    BY <1>2, <1>5, QueueType
  <2>2. /\ \A i \in 1 .. Len(Queue(k, q)) :
             i + 1 \in 1 .. Len(Queue(n, msgQueue)) /\ Queue(k, q)[i] = Queue(n, msgQueue)[i + 1]
        /\ \A u \in PublicOwn(k) :
             \/ u \in PublicOwn(n)
             \/ 1 >= 1 /\ 1 \in 1 .. Len(Queue(n, msgQueue)) /\ u = Queue(n, msgQueue)[1]
        /\ Len(Queue(k, q)) \in Nat /\ Len(Queue(n, msgQueue)) \in Nat
    BY <1>2, <1>3, <1>4, <1>5, <2>1
  <2>3. k.timer.round <= k.round /\ 1 \in Nat
    BY <1>1, <1>5
  <2> QED
    BY <1>1, <1>2, <1>5, <2>2, <2>3, Shifts
<1>6. NodeInv(n, q)
  BY <1>1, <1>5, SameVotesGrow
<1>7. Head(msgQueue) \in Timeouts =>
         /\ Head(msgQueue).round <= n.round
         /\ Head(msgQueue).step = PrecommitWait => Head(msgQueue).round < MaxRound
  <2>1. 1 \in 1 .. N
    BY <1>2
  <2> QED
    BY <1>1, <1>2, <1>3, <2>1 DEF TimersReached
<1>8. ASSUME NEW t \in VoteTypes, NEW r \in RoundNumbers, NEW h \in Hashes,
             Head(msgQueue) = OwnVote(t, r, h)
      PROVE  Self \in Validators /\ NodeInv(Added(n, t, r, Self, h, Local), q)
  <2>1. Self \in Validators
    <3>1. OwnVote(t, r, h) \in QueuedOwn(n, msgQueue)
      <4>1. OwnVote(t, r, h) \in OwnVotes /\ 1 \in 1 .. N
        BY <1>2 DEF OwnVote, OwnVotes
      <4> QED
        BY <1>2, <1>3, <1>8, <4>1 DEF QueuedOwn
    <3> QED
      BY <1>1, <3>1 DEF VotesAscend
  <2> DEFINE a == Added(n, t, r, Self, h, Local)
  <2>2. /\ a \in Nodes /\ VoteSetsOK(a.votes) /\ VotesGrow(n, a)
        /\ a.round = n.round /\ a.step = n.step /\ a.timer = n.timer /\ a.sent = n.sent
        /\ a.lockedRound = n.lockedRound /\ a.lockedBlock = n.lockedBlock
        /\ a.executed = n.executed /\ a.proposalBlock = n.proposalBlock
        /\ a.lockedExecuted = n.lockedExecuted /\ a.committed = n.committed
        /\ \A u \in PublicOwn(a) : u \in PublicOwn(n) \/ u = OwnVote(t, r, h)
    BY <1>1, <2>1, AddedVote
  <2> HIDE DEF a
  <2>3. NodeInv(a, q)
    BY <1>1, <1>2, <1>5, <1>8, <2>2
  <2> QED
    BY <2>1, <2>3 DEF a
<1> QED
  BY <1>2, <1>6, <1>7, <1>8 DEF q

(* msgLoop handles one of the node's own messages.                         *)
LEMMA HandleOwnStep ==
  ASSUME IInv, HandleOwn
  PROVE  StepDone
<1> DEFINE msg == Head(msgQueue)
           q == Tail(msgQueue)
           k == HandleOwnMessage(n, msg)
<1>1. /\ msgQueue # <<>> /\ n \in Nodes
      /\ Settle(k, q)
  BY DEF HandleOwn, IInv, NodeInv
<1>2. /\ NodeInv(n, q) /\ msg \in Messages
      /\ msg \in Timeouts => /\ msg.round <= n.round
                             /\ msg.step = PrecommitWait => msg.round < MaxRound
      /\ \A t \in VoteTypes, r \in RoundNumbers, h \in Hashes :
           msg = OwnVote(t, r, h) =>
              Self \in Validators /\ NodeInv(Added(n, t, r, Self, h, Local), q)
  BY <1>1, Dequeued
<1> HIDE DEF k, msg, q
<1>3. CASE msg \in OwnVotes
  <2> DEFINE t == msg.type
             r == msg.round
             h == msg.hash
             a == Added(n, t, r, Self, h, Local)
  <2>1. /\ t \in VoteTypes /\ r \in RoundNumbers /\ h \in Hashes /\ msg = OwnVote(t, r, h)
    BY <1>3 DEF OwnVotes, OwnVote
  <2>2. Self \in Validators /\ NodeInv(a, q)
    BY <1>2, <2>1
  <2>3. k = TryAddVote(n, t, r, Self, h, Local)
    BY <2>1 DEF HandleOwnMessage, k, VoteTypes
  <2> HIDE DEF t, r, h
  <2>4. NodeInv(k, q) /\ MovesOn(a, k)
    BY <2>1, <2>2, <2>3, TryAddVoteInv
  <2> HIDE DEF a
  <2>5. IInv' /\ MovesOn(k, n')
    BY <1>1, <2>4, SettleStep
  <2>6. MovesOn(a, n')
    BY <2>2, <2>4, <2>5, MovesOnOn DEF NodeInv, IInv
  <2>7. AddsVote
    BY <1>1, <2>1, <2>2, <2>6 DEF AddsVote, a, msg
  <2> QED
    BY <2>5, <2>7 DEF StepDone
<1>4. CASE msg \in OwnProposals
  <2>1. /\ msg.type = "proposal" /\ msg.round \in RoundNumbers
        /\ msg.POLRound \in RoundOrNone /\ msg.hash \in Blocks
    BY <1>4 DEF OwnProposals
  <2>2. k = SetProposal(n, msg.round, msg.POLRound, msg.hash)
    BY <2>1 DEF HandleOwnMessage, k, VoteTypes
  <2>3. NodeInv(k, q) /\ MovesOn(n, k)
    BY <1>2, <2>1, <2>2, SetProposalInv
  <2> QED
    BY <1>1, <2>3, HandlerStep
<1>5. CASE msg \in OwnBlocks
  <2>1. msg.type = "block" /\ msg.hash \in Blocks
    BY <1>5 DEF OwnBlocks
  <2>2. k = AddProposalBlock(n, msg.hash)
    BY <2>1 DEF HandleOwnMessage, k, VoteTypes
  <2>3. NodeInv(k, q) /\ MovesOn(n, k)
    BY <1>2, <2>1, <2>2, AddProposalBlockInv
  <2> QED
    BY <1>1, <2>3, HandlerStep
<1>6. CASE msg \in Timeouts
  <2>1. msg.type = "timeout" /\ msg.round \in RoundNumbers /\ msg.step \in TimedSteps
    BY <1>6 DEF Timeouts
  <2>2. k = HandleTimeout(n, msg.round, msg.step)
    BY <2>1 DEF HandleOwnMessage, k, VoteTypes
  <2>3. NodeInv(k, q) /\ MovesOn(n, k)
    BY <1>2, <1>6, <2>1, <2>2, HandleTimeoutInv
  <2> QED
    BY <1>1, <2>3, HandlerStep
<1> QED
  BY <1>2, <1>3, <1>4, <1>5, <1>6 DEF Messages

(* A proposal or a block from a peer.                                      *)
LEMMA PeerProposalStep ==
  ASSUME IInv, NEW r \in RoundNumbers, NEW pol \in -1 .. MaxRound - 1, NEW h \in Blocks,
         PeerProposal(r, pol, h)
  PROVE  StepDone
<1>1. pol \in RoundOrNone
  BY Constants DEF RoundOrNone
<1>2. NodeInv(SetProposal(n, r, pol, h), msgQueue) /\ MovesOn(n, SetProposal(n, r, pol, h))
  BY <1>1, SetProposalInv DEF IInv
<1> QED
  BY <1>2, HandlerStep DEF PeerProposal

LEMMA PeerBlockStep ==
  ASSUME IInv, NEW b \in Blocks, PeerBlock(b)
  PROVE  StepDone
<1>1. NodeInv(AddProposalBlock(n, b), msgQueue) /\ MovesOn(n, AddProposalBlock(n, b))
  BY AddProposalBlockInv DEF IInv
<1> QED
  BY <1>1, HandlerStep DEF PeerBlock

(* The ticker's callback: the timeout is pushed and the timer gone.        *)
LEMMA TimerStep ==
  ASSUME IInv, TimerFires
  PROVE  StepDone
<1> DEFINE w == Timeout(n.timer.round, n.timer.step)
           m == Push(n, w)
           k == [m EXCEPT !.timer = NoTimer]
<1>1. /\ n \in Nodes /\ NodeInv(n, msgQueue) /\ n.timer.round <= n.round
      /\ n.timer \in Timers /\ msgQueue \in Seq(Messages)
      /\ n.timer.step = PrecommitWait => n.timer.round < MaxRound
      /\ Settle(k, msgQueue)
  <2>1. /\ n \in Nodes /\ NodeInv(n, msgQueue) /\ n.timer.round <= n.round
        /\ n.timer \in Timers /\ msgQueue \in Seq(Messages)
    BY DEF IInv, NodeInv, TimersReached, TimerFires, Nodes
  <2>2. n.timer.round \in RoundNumbers /\ MaxRound \in Nat
    BY <2>1, Constants DEF Timers
  <2> QED
    BY <2>1, <2>2 DEF TimerFires, IsBeyondBound, RoundNumbers
<1>2. /\ w \in Messages /\ w \notin OwnVotes /\ w.round = n.timer.round /\ w.step = n.timer.step
  BY <1>1 DEF Timeout, Timeouts, Timers, Messages, OwnVotes, VoteTypes
<1> HIDE DEF w
<1>3. /\ m \in Nodes /\ m.votes = n.votes /\ m.round = n.round /\ m.step = n.step
      /\ NodeInv(m, msgQueue) /\ MovesOn(n, m)
  <2> HIDE DEF k
  <2>1. n \in Nodes /\ msgQueue \in Seq(Messages) /\ w \in Messages
    BY <1>1, <1>2
  <2>2. m \in Nodes /\ m.votes = n.votes /\ m.round = n.round /\ m.step = n.step
    BY <2>1, Pushed
  <2>3. NodeInv(m, msgQueue) /\ MovesOn(n, m)
    BY <1>1, <1>2, PushOther
  <2> QED
    BY <2>2, <2>3
<1> HIDE DEF m
<1>4. /\ k \in Nodes /\ k.votes = m.votes /\ k.round = m.round /\ k.step = m.step
      /\ k.timer = NoTimer /\ k.sent = m.sent
      /\ k.lockedRound = m.lockedRound /\ k.lockedBlock = m.lockedBlock
      /\ k.executed = m.executed /\ k.proposalBlock = m.proposalBlock
      /\ k.lockedExecuted = m.lockedExecuted /\ k.committed = m.committed
  BY <1>3 DEF Nodes
<1> HIDE DEF k
<1>5. MovesOn(m, k) /\ VoteSetsOK(k.votes)
  BY <1>3, <1>4, SameVotesGrow, NodeFacts DEF MovesOn, At, NodeInv
<1>6. ExecutedIsValid(k) /\ k.timer.round <= k.round
  <2>1. k.timer.round = -1 /\ k.round \in RoundNumbers
    BY <1>4, NodeFacts DEF NoTimer
  <2> QED
    BY <1>3, <1>4, <2>1 DEF NodeInv, ExecutedIsValid, Precommits, RoundNumbers
<1>7. NodeInv(k, msgQueue)
  BY <1>3, <1>4, <1>5, <1>6, KeepsInv
<1>8. MovesOn(n, k)
  BY <1>1, <1>3, <1>4, <1>5, MovesOnOn
<1> QED
  BY <1>1, <1>7, <1>8, HandlerStep

(* createBlockAndProposal ends.                                            *)
LEMMA BlockCreatedStep ==
  ASSUME IInv, NEW c \in n.creating, BlockCreated(c)
  PROVE  StepDone
<1> DEFINE d == [n EXCEPT !.creating = @ \ {c}]
           b == OwnBlock[c.round]
           w == OwnProposal(c.round, c.POLRound, b)
           x == OwnProposalBlock(b)
           m == Push(d, w)
           k == Push(m, x)
<1>1. /\ n \in Nodes /\ NodeInv(n, msgQueue) /\ ExecutedIsValid(n) /\ c \in Creations
      /\ Settle(k, msgQueue) \/ Settle(d, msgQueue)
  BY DEF IInv, NodeInv, Nodes, BlockCreated
<1>2. b \in Blocks /\ c.round \in RoundNumbers /\ c.POLRound \in RoundOrNone
  BY <1>1, OwnBlockAssumption DEF Creations, RoundNumbers
<1> HIDE DEF b
<1>3. /\ w \in Messages /\ w \notin OwnVotes /\ w \notin Timeouts
      /\ x \in Messages /\ x \notin OwnVotes /\ x \notin Timeouts
  BY <1>2 DEF OwnProposal, OwnProposals, OwnProposalBlock, OwnBlocks, Messages, OwnVotes,
              Timeouts, VoteTypes
<1> HIDE DEF w, x
<1>4. /\ d \in Nodes /\ d.votes = n.votes /\ d.round = n.round /\ d.step = n.step
      /\ d.timer = n.timer /\ d.sent = n.sent
      /\ d.lockedRound = n.lockedRound /\ d.lockedBlock = n.lockedBlock
      /\ d.executed = n.executed /\ d.proposalBlock = n.proposalBlock
      /\ d.lockedExecuted = n.lockedExecuted /\ d.committed = n.committed
  BY <1>1 DEF Nodes
<1> HIDE DEF d
<1>5. ExecutedIsValid(d) /\ At(n) <= At(d)
  BY <1>1, <1>4, NodeFacts DEF ExecutedIsValid, Precommits, At
<1>6. NodeInv(d, msgQueue) /\ MovesOn(n, d)
  BY <1>1, <1>4, <1>5, PlainChange
<1>7. NodeInv(m, msgQueue) /\ MovesOn(d, m)
  BY <1>3, <1>6, PushOther
<1> HIDE DEF m
<1>8. NodeInv(k, msgQueue) /\ MovesOn(m, k)
  BY <1>3, <1>7, PushOther
<1> HIDE DEF k
<1>9. MovesOn(n, k)
  BY <1>1, <1>4, <1>6, <1>7, <1>8, MovesOnOn DEF NodeInv
<1> QED
  BY <1>1, <1>6, <1>8, <1>9, HandlerStep

(* newBlockHeader: the queue is cleared.                                   *)
LEMMA NewBlockHeaderStep ==
  ASSUME IInv, NewBlockHeader
  PROVE  StepDone
<1>1. /\ n \in Nodes /\ VoteSetsOK(n.votes) /\ NodeInv(n, msgQueue) /\ n.timer.round <= n.round
      /\ msgQueue \in Seq(Messages) /\ n.sent = <<>>
  BY DEF IInv, NodeInv, TimersReached
<1>2. <<>> \in Seq(Messages) /\ Len(<<>>) = 0
  OBVIOUS
<1>3. Queue(n, <<>>) = <<>> /\ Len(Queue(n, msgQueue)) \in Nat
  BY <1>1, <1>2, QueueType
<1>4. \A i \in 1 .. Len(Queue(n, <<>>)) :
        /\ i + 0 \in 1 .. Len(Queue(n, msgQueue))
        /\ Queue(n, <<>>)[i] = Queue(n, msgQueue)[i + 0]
  BY <1>2, <1>3
<1>5. NodeInv(n, <<>>)
  <2> DEFINE p == <<>>
  <2>1. /\ p \in Seq(Messages) /\ Len(Queue(n, p)) \in Nat
        /\ \A i \in 1 .. Len(Queue(n, p)) :
             /\ i + 0 \in 1 .. Len(Queue(n, msgQueue))
             /\ Queue(n, p)[i] = Queue(n, msgQueue)[i + 0]
    BY <1>2, <1>3, <1>4
  <2> HIDE DEF p
  <2>2. VotesGrow(n, n)
    BY SameVotesGrow
  <2>3. NodeInv(n, p)
    BY <1>1, <1>3, <2>1, <2>2, Shifts
  <2> QED
    BY <2>3 DEF p
<1>6. MovesOn(n, n)
  BY <1>1, MovesOnSelf
<1> QED
  BY <1>1, <1>5, <1>6 DEF NewBlockHeader, IInv, StepDone

LEMMA SyncCommitStep ==
  ASSUME IInv, NEW b \in Valid, SyncCommit(b)
  PROVE  StepDone
<1>1. n \in Nodes /\ MovesOn(n, n) /\ b \in BlockOrNone
  BY MovesOnSelf, Constants DEF IInv, NodeInv
<1> QED
  BY <1>1 DEF SyncCommit, IInv, StepDone

LEMMA NextIInv == IInv /\ [Next]_vars => StepDone
<1> SUFFICES ASSUME IInv, [Next]_vars PROVE StepDone
  OBVIOUS
<1>1. CASE UNCHANGED vars
  <2>1. n' = n /\ msgQueue' = msgQueue /\ synced' = synced /\ over' = over
    BY <1>1 DEF vars
  <2>2. MovesOn(n, n)
    BY MovesOnSelf DEF IInv, NodeInv
  <2> QED
    BY <2>1, <2>2 DEF IInv, StepDone
<1>2. ASSUME NEW t \in VoteTypes, NEW r \in RoundNumbers, NEW h \in Hashes, NEW p \in Peers,
             NEW v \in Validators \ {Self}, PeerVote(t, r, v, h, p)
      PROVE  StepDone
  BY <1>2, PeerVoteStep
<1>3. ASSUME NEW r \in RoundNumbers, NEW pol \in -1 .. MaxRound - 1, NEW h \in Blocks,
             PeerProposal(r, pol, h)
      PROVE  StepDone
  BY <1>3, PeerProposalStep
<1>4. ASSUME NEW b \in Blocks, PeerBlock(b) PROVE StepDone
  BY <1>4, PeerBlockStep
<1>5. CASE HandleOwn
  BY <1>5, HandleOwnStep
<1>6. CASE TimerFires
  BY <1>6, TimerStep
<1>7. ASSUME NEW c \in n.creating, BlockCreated(c) PROVE StepDone
  BY <1>7, BlockCreatedStep
<1>8. ASSUME NEW b \in Valid, SyncCommit(b) PROVE StepDone
  BY <1>8, SyncCommitStep
<1>9. CASE NewBlockHeader
  BY <1>9, NewBlockHeaderStep
<1> QED
  BY <1>1, <1>2, <1>3, <1>4, <1>5, <1>6, <1>7, <1>8, <1>9 DEF Next

LEMMA Invariance == Spec => []IInv
<1>1. IInv /\ [Next]_vars => IInv'
  BY NextIInv DEF StepDone
<1> QED
  BY <1>1, InitIInv, PTL DEF Spec
-----------------------------------------------------------------------------
(* The theorems.                                                           *)

(* The fields of the object hold what their declarations say               *)
(* (state.ts, StateMachine).                                               *)
THEOREM TypeCorrect == Spec => []TypeOK
<1>1. IInv => TypeOK
  BY DEF IInv, NodeInv, Nodes, TypeOK
<1> QED
  BY <1>1, Invariance, PTL

(* A locked block has +2/3 of the prevotes of the round it is locked in,   *)
(* whatever enterPrecommit and addVote lock, relock and unlock.            *)
THEOREM LockCorrect == Spec => []LockBacked
<1>1. IInv => LockBacked
  BY DEF IInv, NodeInv, LockHasPolka, LockBacked
<1> QED
  BY <1>1, Invariance, PTL

(* What finalizeCommit hands to the chain is a valid block with +2/3 of    *)
(* the precommits of one round.                                            *)
THEOREM CommitCorrect == Spec => []CommitBacked
<1>1. IInv => CommitBacked
  BY DEF IInv, NodeInv, ExecutedIsValid, CommitBacked
<1> QED
  BY <1>1, Invariance, PTL

(* The place the node is at does not depend on its votes.                  *)
LEMMA AddedPlace ==
  ASSUME NEW m \in Nodes, NEW t, NEW r, NEW v, NEW h, NEW p
  PROVE  At(Added(m, t, r, v, h, p)) = At(m)
  BY DEF Added, Nodes, At

(* No method takes the node back to an earlier round or step: every one    *)
(* checks that it has not been overtaken (state.ts, the early returns).    *)
THEOREM RoundStepNeverBack == Spec => RoundStepMonotone
<1>1. IInv /\ [Next]_vars => [\/ n'.round > n.round
                              \/ n'.round = n.round /\ n'.step >= n.step]_vars
  <2> SUFFICES ASSUME IInv, [Next]_vars
               PROVE  n'.round > n.round \/ (n'.round = n.round /\ n'.step >= n.step)
    OBVIOUS
  <2>1. StepDone /\ n \in Nodes /\ n' \in Nodes
    BY NextIInv DEF StepDone, IInv, NodeInv
  <2>2. At(n) <= At(n')
    BY <2>1, AddedPlace DEF StepDone, AddsVote, MovesOn
  <2> QED
    BY <2>1, <2>2, NodeFacts, Places DEF At
<1> QED
  BY <1>1, Invariance, PTL DEF Spec, RoundStepMonotone

-----------------------------------------------------------------------------
(* The refinement of Consensus.tla.                                        *)

(* The votes m has counted, as Consensus.tla has them.                     *)
VotesOf(m, y) ==
    {vote \in [validator : Validators, round : RoundNumbers, hash : Hashes] :
        vote.validator \in VotersOf(m.votes, vote.round, y, vote.hash)}

LEMMA PublicVotesOf ==
  ASSUME NEW y
  PROVE  PublicVotes(y) = VotesOf(n, y) /\ PublicVotes(y)' = VotesOf(n', y)
<1> DEFINE From(m, r, h) ==
                 {[validator |-> v, round |-> r, hash |-> h] :
                     v \in Validators \cap VotersOf(m.votes, r, y, h)}
           All(m) == UNION {From(m, r, h) : r \in RoundNumbers, h \in Hashes}
<1>1. ASSUME NEW m PROVE All(m) = VotesOf(m, y)
  <2>1. ASSUME NEW u \in VotesOf(m, y) PROVE u \in All(m)
    <3>1. /\ u = [validator |-> u.validator, round |-> u.round, hash |-> u.hash]
          /\ u.validator \in Validators \cap VotersOf(m.votes, u.round, y, u.hash)
          /\ u.round \in RoundNumbers /\ u.hash \in Hashes
      BY <2>1 DEF VotesOf
    <3>2. u \in From(m, u.round, u.hash)
      BY <3>1
    <3> HIDE DEF From
    <3>3. \E r \in RoundNumbers, h \in Hashes : u \in From(m, r, h)
      BY <3>1, <3>2
    <3>4. \A S : (S \in {From(m, r, h) : r \in RoundNumbers, h \in Hashes}
                   /\ u \in S) => u \in All(m)
      OBVIOUS
    <3> HIDE DEF All
    <3> QED
      BY <3>3, <3>4
  <2>2. ASSUME NEW r \in RoundNumbers, NEW h \in Hashes, NEW u \in From(m, r, h)
        PROVE  u \in VotesOf(m, y)
    BY <2>2 DEF VotesOf
  <2> HIDE DEF From
  <2>3. ASSUME NEW u \in All(m) PROVE u \in VotesOf(m, y)
    <3>1. PICK r \in RoundNumbers, h \in Hashes : u \in From(m, r, h)
      BY <2>3
    <3> QED
      BY <2>2, <3>1
  <2> HIDE DEF All
  <2> QED
    BY <2>1, <2>3
<1>2. PublicVotes(y) = All(n) /\ PublicVotes(y)' = All(n')
  BY DEF PublicVotes, VotersOf
<1> QED
  BY <1>1, <1>2

LEMMA SameVotesOf ==
  ASSUME NEW m, NEW k, SameVotes(m, k), NEW y \in VoteTypes
  PROVE  VotesOf(k, y) = VotesOf(m, y)
<1>1. \A r \in RoundNumbers, h \in Hashes : VotersOf(k.votes, r, y, h) = VotersOf(m.votes, r, y, h)
  BY Constants DEF SameVotes, VotersOf
<1> QED
  BY <1>1 DEF VotesOf

(* Consensus.tla counts the voting power as the vote sets do.              *)
LEMMA SameQuorum ==
  ASSUME NEW Q
  PROVE  C!IsQuorum(Q) <=> IsQuorum(Q)
<1>1. ASSUME NEW S PROVE C!PowerOf(S) = PowerOf(S)
  <2>1. \A v : C!Shares(v) = Shares(v)
    BY DEF C!Shares, Shares
  <2>2. UNION {C!Shares(v) : v \in S} = UNION {Shares(v) : v \in S}
    BY <2>1
  <2>3. ASSUME NEW T PROVE C!Cardinality(T) = Cardinality(T)
    BY DEF C!Cardinality, Cardinality
  <2> QED
    BY <2>2, <2>3 DEF C!PowerOf, PowerOf
<1>2. C!Quorum = Quorum
  BY <1>1 DEF C!Quorum, Quorum, C!TwoThirds, TwoThirds, C!TotalVotingPower, TotalVotingPower
<1> QED
  BY <1>1, <1>2 DEF C!IsQuorum, IsQuorum

(* A polka that the node has seen is one of the public votes.              *)
LEMMA SeenPolka ==
  ASSUME IInv, NEW r \in RoundNumbers, NEW h \in Hashes, Polka(n, r, h)
  PROVE  C!Polka(r, h)
<1>1. VotersOf(n.votes, r, "prevotes", h) \in SUBSET Validators
  <2>1. VoteSetInv(GetVoteSet(n.votes, r, "prevotes"))
    BY GetVoteSetInv, Constants DEF IInv, NodeInv
  <2> QED
    BY <2>1 DEF VoteSetInv, VoteSetType, BlockVotes, VotersOf
<1>2. \A v \in Validators : C!Vote(v, r, h) \in PublicVotes("prevotes")
                               <=> v \in VotersOf(n.votes, r, "prevotes", h)
  BY PublicVotesOf DEF VotesOf, C!Vote
<1>3. C!Prevoters(r, h) = VotersOf(n.votes, r, "prevotes", h)
  BY <1>1, <1>2 DEF C!Prevoters
<1> QED
  BY <1>3, SameQuorum DEF Polka, C!Polka

(* The next own vote of the queue comes after every one that is public,    *)
(* and keeps the promises of Consensus.tla.                                *)
LEMMA NextOwnVote ==
  ASSUME IInv, msgQueue # <<>>, NEW t \in VoteTypes, NEW r \in RoundNumbers, NEW h \in Hashes,
         Head(msgQueue) = OwnVote(t, r, h)
  PROVE  /\ Self \in Validators
         /\ \A y \in VoteTypes : \A c \in PublicVotes(y) : c.validator = Self =>
               /\ OwnVote(y, c.round, c.hash) \in PublicOwn(n)
               /\ c.round < r \/ (c.round = r /\ y = "prevotes" /\ t = "precommits")
         /\ t = "prevotes" => C!LockAllows(Self, r, h)
         /\ t = "precommits" /\ h # Nil => C!Polka(r, h)
<1> DEFINE w == OwnVote(t, r, h)
<1>1. /\ NodeInv(n, msgQueue) /\ n \in Nodes /\ msgQueue \in Seq(Messages) /\ n.sent = <<>>
      /\ VotesAscend(n, msgQueue) /\ QueuedAllowed(n, msgQueue)
  BY DEF IInv, NodeInv
<1>2. w \in OwnVotes /\ w.type = t /\ w.round = r /\ w.hash = h
  BY DEF OwnVote, OwnVotes
<1>3. w \in QueuedOwn(n, msgQueue)
  <2>1. 1 \in 1 .. Len(msgQueue) /\ msgQueue[1] = w
    BY <1>1
  <2>2. Queue(n, msgQueue) = msgQueue
    BY <1>1, QueueType
  <2> QED
    BY <1>2, <2>1, <2>2 DEF QueuedOwn
<1> HIDE DEF w
<1>4. Self \in Validators
  BY <1>1, <1>3 DEF VotesAscend
<1>5. ASSUME NEW y \in VoteTypes, NEW c \in PublicVotes(y), c.validator = Self
      PROVE  /\ OwnVote(y, c.round, c.hash) \in PublicOwn(n)
             /\ c.round < r \/ (c.round = r /\ y = "prevotes" /\ t = "precommits")
  <2> DEFINE u == OwnVote(y, c.round, c.hash)
  <2>1. /\ c.round \in RoundNumbers /\ c.hash \in Hashes
        /\ Self \in VotersOf(n.votes, c.round, y, c.hash)
    BY <1>5, PublicVotesOf DEF VotesOf
  <2>2. u \in OwnVotes /\ u.type = y /\ u.round = c.round /\ u.hash = c.hash
    BY <2>1 DEF OwnVote, OwnVotes
  <2> HIDE DEF u
  <2>3. u \in PublicOwn(n)
    BY <2>1, <2>2 DEF PublicOwn
  <2>4. PlaceOf(u) < PlaceOf(w)
    BY <1>1, <1>3, <2>3 DEF VotesAscend
  <2>5. /\ PlaceOf(u) = 10 * c.round + (IF y = "prevotes" THEN 4 ELSE 6)
        /\ PlaceOf(w) = 10 * r + (IF t = "prevotes" THEN 4 ELSE 6)
    BY <1>2, <2>2 DEF PlaceOf, Place, Prevote, Precommit
  <2>6. c.round \in Int /\ r \in Int
    BY <2>1 DEF RoundNumbers
  <2>7. c.round < r \/ (c.round = r /\ y = "prevotes" /\ t # "prevotes")
    BY <2>4, <2>5, <2>6
  <2> QED
    BY <2>3, <2>7 DEF u, VoteTypes
<1>6. ASSUME t = "prevotes" PROVE C!LockAllows(Self, r, h)
  <2> SUFFICES ASSUME NEW c \in PublicVotes("precommits"),
                      c.validator = Self, c.hash \notin {Nil, h}, c.round < r
               PROVE  \E s \in C!Rounds, g \in C!Hashes :
                         c.round < s /\ s <= r /\ g # c.hash /\ C!Polka(s, g)
    BY DEF C!LockAllows
  <2> DEFINE u == OwnVote("precommits", c.round, c.hash)
  <2>1. u \in PublicOwn(n) /\ u.type = "precommits" /\ u.round = c.round /\ u.hash = c.hash
    BY <1>5, Constants DEF OwnVote
  <2> HIDE DEF u
  <2>2. u \in PrecommitsOf(Own(n, msgQueue))
    BY <2>1 DEF PrecommitsOf, Own
  <2>3. MayLeave(n, u, r)
    BY <1>1, <1>2, <1>3, <1>6, <2>1, <2>2 DEF QueuedAllowed
  <2>4. PICK s \in RoundNumbers, g \in Hashes :
           u.round < s /\ s <= r /\ g # u.hash /\ Polka(n, s, g)
    BY <2>3 DEF MayLeave
  <2>5. C!Polka(s, g)
    BY <2>4, SeenPolka
  <2>6. s \in C!Rounds /\ g \in C!Hashes
    BY DEF C!Rounds, RoundNumbers, C!Hashes, Hashes
  <2> QED
    BY <2>1, <2>4, <2>5, <2>6
<1>7. ASSUME t = "precommits", h # Nil PROVE C!Polka(r, h)
  <2>1. w \in PrecommitsOf(QueuedOwn(n, msgQueue))
    BY <1>2, <1>3, <1>7 DEF PrecommitsOf
  <2>2. Polka(n, r, h)
    BY <1>1, <1>2, <2>1 DEF QueuedAllowed
  <2> QED
    BY <2>2, SeenPolka
<1> QED
  BY <1>4, <1>5, <1>6, <1>7

(* One vote more.                                                          *)
LEMMA OneVoteMore ==
  ASSUME NEW m, NEW a, NEW t \in VoteTypes, NEW r \in RoundNumbers, NEW v \in Validators,
         NEW h \in Hashes, AtMostOneMore(m, a, t, r, v, h)
  PROVE  /\ \A y \in VoteTypes \ {t} : VotesOf(a, y) = VotesOf(m, y)
         /\ \/ VotesOf(a, t) = VotesOf(m, t)
            \/ VotesOf(a, t) = VotesOf(m, t) \cup {C!Vote(v, r, h)}
<1> DEFINE All == [validator : Validators, round : RoundNumbers, hash : Hashes]
<1>1. \A y \in VoteTypes : VotesOf(m, y) \subseteq VotesOf(a, y) /\ VotesOf(a, y) \subseteq All
  BY DEF VotesOf, AtMostOneMore
<1>2. ASSUME NEW y \in VoteTypes, NEW c \in VotesOf(a, y), c \notin VotesOf(m, y)
      PROVE  y = t /\ c = C!Vote(v, r, h)
  <2>1. /\ c \in All /\ c.round \in RoundNumbers /\ c.hash \in Hashes
        /\ c.validator \in VotersOf(a.votes, c.round, y, c.hash)
        /\ c.validator \notin VotersOf(m.votes, c.round, y, c.hash)
    BY <1>2 DEF VotesOf
  <2>2. c.validator \in {w \in {v} : c.round = r /\ y = t /\ c.hash = h}
    BY <2>1 DEF AtMostOneMore
  <2> QED
    BY <2>1, <2>2 DEF C!Vote
<1> QED
  BY <1>1, <1>2

(* Every step of the node is one of Consensus.tla, or changes no vote.     *)
LEMMA ImplementsStep ==
  ASSUME IInv, [Next]_vars
  PROVE  [C!Next]_(C!vars)
<1> DEFINE P == PublicVotes("prevotes")
           R == PublicVotes("precommits")
<1>1. /\ StepDone /\ n \in Nodes /\ VoteSetsOK(n.votes)
  BY NextIInv DEF StepDone, IInv, NodeInv
<1>2. /\ P = VotesOf(n, "prevotes") /\ P' = VotesOf(n', "prevotes")
      /\ R = VotesOf(n, "precommits") /\ R' = VotesOf(n', "precommits")
      /\ "prevotes" \in VoteTypes /\ "precommits" \in VoteTypes
  BY PublicVotesOf, Constants
<1>3. ASSUME P' = P, R' = R PROVE UNCHANGED C!vars
  BY <1>3 DEF C!vars
<1>4. CASE MovesOn(n, n')
  <2>1. P' = P /\ R' = R
    <3> HIDE DEF P, R
    <3> QED
      BY <1>2, <1>4, SameVotesOf DEF MovesOn
  <2> QED
    BY <1>3, <2>1
<1>5. CASE AddsVote
  <2>1. PICK t \in VoteTypes, r \in RoundNumbers, v \in Validators :
           \E h \in Hashes, p \in Peers \cup {Local} :
              /\ MovesOn(Added(n, t, r, v, h, p), n')
              /\ v = Self => msgQueue # <<>> /\ Head(msgQueue) = OwnVote(t, r, h)
    BY <1>5 DEF AddsVote
  <2>2. PICK h \in Hashes, p \in Peers \cup {Local} :
           /\ MovesOn(Added(n, t, r, v, h, p), n')
           /\ v = Self => msgQueue # <<>> /\ Head(msgQueue) = OwnVote(t, r, h)
    BY <2>1
  <2> DEFINE a == Added(n, t, r, v, h, p)
             c == C!Vote(v, r, h)
  <2>3. AtMostOneMore(n, a, t, r, v, h)
    BY <1>1, AddedVote
  <2> HIDE DEF a
  <2>4. \A y \in VoteTypes : VotesOf(n', y) = VotesOf(a, y)
    BY <2>2, SameVotesOf DEF MovesOn, a
  <2>5. /\ \A y \in VoteTypes \ {t} : VotesOf(n', y) = VotesOf(n, y)
        /\ \/ VotesOf(n', t) = VotesOf(n, t)
           \/ VotesOf(n', t) = VotesOf(n, t) \cup {c}
    <3>1. /\ \A y \in VoteTypes \ {t} : VotesOf(a, y) = VotesOf(n, y)
          /\ \/ VotesOf(a, t) = VotesOf(n, t)
             \/ VotesOf(a, t) = VotesOf(n, t) \cup {C!Vote(v, r, h)}
      BY <2>3, OneVoteMore
    <3> HIDE DEF P, R
    <3> QED
      BY <2>4, <3>1
  <2>6. \/ P' = P /\ R' = R
        \/ t = "prevotes" /\ P' = P \cup {c} /\ R' = R
        \/ t = "precommits" /\ R' = R \cup {c} /\ P' = P
    <3>1. \/ t = "prevotes" /\ "precommits" \in VoteTypes \ {t}
          \/ t = "precommits" /\ "prevotes" \in VoteTypes \ {t}
      BY DEF VoteTypes
    <3> HIDE DEF P, R, c
    <3> QED
      BY <1>2, <2>5, <3>1
  <2>7. r \in C!Rounds /\ h \in C!Hashes
    BY DEF C!Rounds, RoundNumbers, C!Hashes, Hashes
  <2>8. CASE v # Self
    <3>1. ASSUME P' = P \cup {c}, R' = R PROVE C!FaultyVote(v, r, h)
      BY <3>1 DEF C!FaultyVote
    <3>2. ASSUME R' = R \cup {c}, P' = P PROVE C!FaultyVote(v, r, h)
      BY <3>2 DEF C!FaultyVote
    <3>3. ASSUME C!FaultyVote(v, r, h) PROVE C!Next
      BY <2>7, <2>8, <3>3 DEF C!Next
    <3> HIDE DEF P, R, c
    <3> QED
      BY <1>3, <2>6, <3>1, <3>2, <3>3
  <2>9. CASE v = Self
    <3>1. /\ Self \in Validators
          /\ \A y \in VoteTypes : \A d \in PublicVotes(y) : d.validator = Self =>
                d.round < r \/ (d.round = r /\ y = "prevotes" /\ t = "precommits")
          /\ t = "prevotes" => C!LockAllows(Self, r, h)
          /\ t = "precommits" /\ h # Nil => C!Polka(r, h)
      BY <2>2, <2>9, NextOwnVote
    <3>2. /\ \A d \in P : d.validator = Self => d.round <= r /\ (t = "prevotes" => d.round < r)
          /\ \A d \in R : d.validator = Self => d.round < r
      <4>1. \A y \in VoteTypes : \A d \in PublicVotes(y) : d.round \in Int
        BY PublicVotesOf DEF VotesOf, RoundNumbers
      <4>2. r \in Int
        BY DEF RoundNumbers
      <4> QED
        BY <1>2, <3>1, <4>1, <4>2
    <3>3. Self \in C!Honest
      BY <3>1 DEF C!Honest
    <3>4. ASSUME t = "prevotes", P' = P \cup {c}, R' = R PROVE C!Prevote(Self, r, h)
      <4>1. ~ C!VotedSince(P, Self, r) /\ ~ C!VotedSince(R, Self, r)
        BY <3>2, <3>4, PublicVotesOf DEF C!VotedSince, VotesOf, RoundNumbers
      <4> QED
        BY <2>9, <3>1, <3>4, <4>1 DEF C!Prevote
    <3>5. ASSUME t = "precommits", R' = R \cup {c}, P' = P PROVE C!Precommit(Self, r, h)
      <4>1. ~ C!VotedSince(P, Self, r + 1) /\ ~ C!VotedSince(R, Self, r)
        BY <3>2, <3>5, PublicVotesOf DEF C!VotedSince, VotesOf, RoundNumbers
      <4> QED
        BY <2>9, <3>1, <3>5, <4>1 DEF C!Precommit
    <3>6. ASSUME C!Prevote(Self, r, h) \/ C!Precommit(Self, r, h) PROVE C!Next
      BY <2>7, <3>3, <3>6 DEF C!Next
    <3> HIDE DEF P, R, c
    <3> QED
      BY <1>3, <2>6, <3>4, <3>5, <3>6
  <2> QED
    BY <2>8, <2>9
<1> QED
  BY <1>1, <1>4, <1>5 DEF StepDone

(* The state machine of state.ts keeps the promises of Consensus.tla: one  *)
(* vote per type and round, no precommit without a polka, no vote against  *)
(* a lock without a later polka.  Whatever the other validators sign.      *)
THEOREM RefinesConsensus == Spec => ImplementsConsensus
<1>1. Init => C!Init
  <2> SUFFICES ASSUME Init PROVE C!Init
    OBVIOUS
  <2>1. \A r, y, h : h \in Hashes => VotersOf(n.votes, r, y, h) = {}
    BY DEF Init, InitNode, EmptyHeightVoteSet, VotersOf, GetVoteSet, Rounds, EmptyVoteSet,
           NoBlockVotes
  <2>2. \A y : PublicVotes(y) = {}
    BY <2>1, PublicVotesOf DEF VotesOf
  <2> QED
    BY <2>2 DEF C!Init
<1>2. IInv /\ [Next]_vars => [C!Next]_(C!vars)
  BY ImplementsStep
<1> QED
  BY <1>1, <1>2, Invariance, PTL DEF Spec, ImplementsConsensus, C!Spec

-----------------------------------------------------------------------------
(* The valid block has its +2/3 of prevotes.                               *)
(*                                                                         *)
(* addVote makes the proposal block the valid one when +2/3 of the         *)
(* prevotes are for proposalBlockHash, without comparing the two: that is  *)
(* right as long as the node has the block of that hash, or one that was   *)
(* decided.  The latter is the block enterCommit took from the lock, and   *)
(* only a network in which a decision locks its round and the later ones   *)
(* has no polka for anything else then (Consensus.tla, DecisionIsLocked).  *)
BlockMatches(m) ==
    m.proposalBlock # None =>
        \/ m.proposal # NoProposal /\ m.proposalBlock = m.proposalBlockHash
        \/ \E r \in RoundNumbers : r <= m.round /\ Precommits(m, r).maj23 = m.proposalBlock

ValidHasPolka(m) ==
    m.validBlock # None =>
        m.validRound \in RoundNumbers /\ Prevotes(m, m.validRound).maj23 = m.validBlock

BlocksMatch(m) == BlockMatches(m) /\ ValidHasPolka(m)

(* The decisions the node has seen exclude other polkas.                   *)
DecisionsLock(m) ==
    \A r, s \in RoundNumbers :
        (r <= s /\ Precommits(m, r).maj23 \in Blocks /\ Prevotes(m, s).maj23 # None)
            => Prevotes(m, s).maj23 = Precommits(m, r).maj23

(* An object, whatever is in its fields.                                   *)
IsObject(m) ==
    DOMAIN m = {"round", "step", "proposal", "proposalBlockHash", "proposalBlock", "executed",
                "lockedRound", "lockedBlock", "lockedExecuted", "validRound", "validBlock",
                "votes", "commitRound", "triggeredTimeoutPrecommit", "timer", "maxRound",
                "maxStep", "creating", "sent", "committed"}

(* From m to k the blocks and their hashes stay, or the proposal block is  *)
(* dropped.                                                                *)
KeepsBlocks(m, k) ==
    /\ IsObject(k) /\ k.validBlock = m.validBlock /\ k.validRound = m.validRound
    /\ \/ k.proposalBlock = None
       \/ /\ k.proposalBlock = m.proposalBlock /\ k.proposal = m.proposal
          /\ k.proposalBlockHash = m.proposalBlockHash

LEMMA NodeIsObject ==
  ASSUME NEW m \in Nodes
  PROVE  IsObject(m) /\ KeepsBlocks(m, m)
  BY DEF Nodes, IsObject, KeepsBlocks

LEMMA KeepsBlocksOn ==
  ASSUME NEW m, NEW k, NEW l, KeepsBlocks(m, k), KeepsBlocks(k, l)
  PROVE  KeepsBlocks(m, l)
  BY DEF KeepsBlocks

(* Methods that leave the blocks alone.                                    *)
LEMMA SignVoteKeeps ==
  ASSUME NEW m, IsObject(m), NEW y, NEW h
  PROVE  KeepsBlocks(m, SignVote(m, y, h))
  BY DEF SignVote, Push, IsObject, KeepsBlocks

LEMMA ScheduleKeeps ==
  ASSUME NEW m, IsObject(m), NEW r, NEW st
  PROVE  KeepsBlocks(m, Schedule(m, r, st))
<1> DEFINE t == [round |-> r, step |-> st]
<1> HIDE DEF t
<1>1. Schedule(m, r, st) \in {m, [m EXCEPT !.maxRound = r, !.maxStep = st, !.timer = t],
                              [m EXCEPT !.maxStep = st, !.timer = t]}
  BY DEF Schedule, t
<1> QED
  BY <1>1 DEF IsObject, KeepsBlocks

(* A step of the round, after a vote or not.                               *)
LEMMA MoveKeeps ==
  ASSUME NEW m, NEW k, KeepsBlocks(m, k), NEW r, NEW st
  PROVE  KeepsBlocks(m, [k EXCEPT !.round = r, !.step = st])
  BY DEF KeepsBlocks, IsObject

LEMMA SignedKeeps ==
  ASSUME NEW m, NEW k, KeepsBlocks(m, k), NEW y, NEW h, NEW r, NEW st
  PROVE  KeepsBlocks(m, [SignVote(k, y, h) EXCEPT !.round = r, !.step = st])
<1>1. KeepsBlocks(k, SignVote(k, y, h))
  BY SignVoteKeeps DEF KeepsBlocks
<1> QED
  BY <1>1, KeepsBlocksOn, MoveKeeps

LEMMA EnterPrevoteKeeps ==
  ASSUME NEW m, IsObject(m), NEW r
  PROVE  KeepsBlocks(m, EnterPrevote(m, r))
<1> DEFINE x == [m EXCEPT !.executed = TRUE]
           Signed(z, h) == [SignVote(z, "prevotes", h) EXCEPT !.round = r, !.step = Prevote]
           k == EnterPrevote(m, r)
<1>1. KeepsBlocks(m, m) /\ KeepsBlocks(m, x)
  BY DEF KeepsBlocks, IsObject
<1>2. \/ k = m
      \/ \E h : k = Signed(m, h) \/ k = Signed(x, h)
  BY DEF EnterPrevote
<1> HIDE DEF x, k
<1>3. \A h : KeepsBlocks(m, Signed(m, h)) /\ KeepsBlocks(m, Signed(x, h))
  BY <1>1, SignedKeeps
<1> HIDE DEF Signed
<1> QED
  BY <1>1, <1>2, <1>3 DEF k

LEMMA EnterProposeKeeps ==
  ASSUME NEW m, IsObject(m), NEW r
  PROVE  KeepsBlocks(m, EnterPropose(m, r))
<1> DEFINE t == Schedule(m, r, Propose)
           p == IF Proposer[r] = Self THEN DecideProposal(t, r) ELSE t
           u == [p EXCEPT !.round = r, !.step = Propose]
           k == EnterPropose(m, r)
<1>1. k \in {m, u, EnterPrevote(u, r)}
  BY DEF EnterPropose
<1>2. KeepsBlocks(m, t) /\ IsObject(t)
  BY ScheduleKeeps DEF KeepsBlocks
<1> HIDE DEF t, k
<1>3. KeepsBlocks(t, DecideProposal(t, r))
  <2>1. KeepsBlocks(t, t)
    BY <1>2 DEF KeepsBlocks
  <2>2. \A a, b : KeepsBlocks(t, Push(Push(t, a), b))
    BY <1>2 DEF Push, KeepsBlocks, IsObject
  <2>3. \A c : KeepsBlocks(t, [t EXCEPT !.creating = c])
    BY <1>2 DEF KeepsBlocks, IsObject
  <2> QED
    BY <2>1, <2>2, <2>3 DEF DecideProposal
<1>4. KeepsBlocks(m, p)
  BY <1>2, <1>3, KeepsBlocksOn
<1> HIDE DEF p
<1>5. KeepsBlocks(m, u)
  BY <1>4, MoveKeeps
<1> HIDE DEF u
<1>6. KeepsBlocks(m, EnterPrevote(u, r))
  <2>1. IsObject(u)
    BY <1>5 DEF KeepsBlocks
  <2> QED
    BY <1>5, <2>1, EnterPrevoteKeeps, KeepsBlocksOn
<1>7. KeepsBlocks(m, m)
  BY DEF KeepsBlocks
<1> QED
  BY <1>1, <1>5, <1>6, <1>7 DEF k

LEMMA EnterNewRoundKeeps ==
  ASSUME NEW m, IsObject(m), NEW r
  PROVE  KeepsBlocks(m, EnterNewRound(m, r))
<1> DEFINE vs == SetRound(m.votes, r + 1)
           e == [m EXCEPT !.round = r, !.step = NewRound, !.votes = vs,
                          !.triggeredTimeoutPrecommit = FALSE]
           c == IF r = 0 THEN e
                ELSE [DropProposalBlock(e) EXCEPT
                        !.proposal = NoProposal, !.proposalBlockHash = None]
           k == EnterNewRound(m, r)
<1>1. k \in {m, EnterPropose(c, r)}
  BY DEF EnterNewRound
<1> HIDE DEF k, vs
<1>2. KeepsBlocks(m, e) /\ IsObject(e)
  BY DEF KeepsBlocks, IsObject
<1> HIDE DEF e
<1>3. KeepsBlocks(m, c) /\ IsObject(c)
  BY <1>2 DEF KeepsBlocks, IsObject, DropProposalBlock
<1> HIDE DEF c
<1>4. KeepsBlocks(m, EnterPropose(c, r))
  BY <1>3, EnterProposeKeeps, KeepsBlocksOn
<1>5. KeepsBlocks(m, m)
  BY DEF KeepsBlocks
<1> QED
  BY <1>1, <1>4, <1>5 DEF k

LEMMA WaitsKeep ==
  ASSUME NEW m, IsObject(m), NEW r
  PROVE  KeepsBlocks(m, EnterPrevoteWait(m, r)) /\ KeepsBlocks(m, EnterPrecommitWait(m, r))
<1>1. \A st : KeepsBlocks(m, Schedule(m, r, st))
  BY ScheduleKeeps
<1>2. \A k : KeepsBlocks(m, k) => KeepsBlocks(m, [k EXCEPT !.triggeredTimeoutPrecommit = TRUE])
  BY DEF KeepsBlocks, IsObject
<1>3. KeepsBlocks(m, m)
  BY DEF KeepsBlocks
<1>4. KeepsBlocks(m, EnterPrevoteWait(m, r))
  BY <1>1, <1>3, MoveKeeps DEF EnterPrevoteWait
<1>5. KeepsBlocks(m, EnterPrecommitWait(m, r))
  BY <1>1, <1>2, <1>3 DEF EnterPrecommitWait
<1> QED
  BY <1>4, <1>5

LEMMA EnterPrecommitKeeps ==
  ASSUME NEW m, IsObject(m), NEW r
  PROVE  KeepsBlocks(m, EnterPrecommit(m, r))
<1> DEFINE maj == Prevotes(m, r).maj23
           Signed(z, h) == [SignVote(z, "precommits", h) EXCEPT !.round = r, !.step = Precommit]
           u == Unlock(m)
           a == [m EXCEPT !.lockedRound = r]
           b == [m EXCEPT !.lockedRound = r, !.lockedBlock = m.proposalBlock,
                          !.lockedExecuted = m.executed]
           d == [DropProposalBlock(u) EXCEPT !.proposalBlockHash = maj]
           k == EnterPrecommit(m, r)
<1>1. \/ k = m
      \/ \E z \in {m, u, a, b, d}, h \in {Nil, maj} : k = Signed(z, h)
  BY DEF EnterPrecommit
<1> HIDE DEF k, maj
<1>2. \A z \in {m, u, a, b, d} : KeepsBlocks(m, z)
  <2>1. KeepsBlocks(m, m) /\ KeepsBlocks(m, a) /\ KeepsBlocks(m, b)
    BY DEF KeepsBlocks, IsObject
  <2>2. KeepsBlocks(m, u)
    BY DEF KeepsBlocks, IsObject, Unlock
  <2>3. KeepsBlocks(m, d)
    BY <2>2 DEF KeepsBlocks, IsObject, Unlock, DropProposalBlock
  <2> QED
    BY <2>1, <2>2, <2>3
<1> HIDE DEF u, a, b, d
<1>3. \A z, h : KeepsBlocks(m, z) => KeepsBlocks(m, Signed(z, h))
  BY SignedKeeps
<1> HIDE DEF Signed
<1> QED
  BY <1>1, <1>2, <1>3 DEF k

LEMMA FinalizeCommitKeeps ==
  ASSUME NEW m, IsObject(m)
  PROVE  KeepsBlocks(m, FinalizeCommit(m))
  BY DEF FinalizeCommit, KeepsBlocks, IsObject

LEMMA HandleTimeoutKeeps ==
  ASSUME NEW m, IsObject(m), NEW r, NEW st \in TimedSteps
  PROVE  KeepsBlocks(m, HandleTimeout(m, r, st))
<1> DEFINE k == HandleTimeout(m, r, st)
<1>1. k \in {m, EnterNewRound(m, 0), EnterPrevote(m, r), EnterPrecommit(m, r),
            EnterNewRound(EnterPrecommit(m, r), r + 1)}
  BY DEF HandleTimeout, TimedSteps, NewHeight, Propose, PrevoteWait, PrecommitWait
<1> HIDE DEF k
<1>2. /\ KeepsBlocks(m, m) /\ KeepsBlocks(m, EnterNewRound(m, 0))
      /\ KeepsBlocks(m, EnterPrevote(m, r)) /\ KeepsBlocks(m, EnterPrecommit(m, r))
  BY EnterNewRoundKeeps, EnterPrevoteKeeps, EnterPrecommitKeeps DEF KeepsBlocks
<1>3. KeepsBlocks(m, EnterNewRound(EnterPrecommit(m, r), r + 1))
  <2>1. KeepsBlocks(EnterPrecommit(m, r), EnterNewRound(EnterPrecommit(m, r), r + 1))
    BY <1>2, EnterNewRoundKeeps DEF KeepsBlocks
  <2> QED
    BY <1>2, <2>1, KeepsBlocksOn
<1> QED
  BY <1>1, <1>2, <1>3 DEF k

(* A method that leaves the blocks alone.                                  *)
LEMMA KeptMatch ==
  ASSUME NEW m, NEW k, BlocksMatch(m), SameVotes(m, k), KeepsBlocks(m, k),
         m.round \in RoundNumbers, k.round \in RoundNumbers, m.round <= k.round
  PROVE  BlocksMatch(k)
<1>1. \A r \in RoundNumbers : /\ Prevotes(k, r) = Prevotes(m, r)
                              /\ Precommits(k, r) = Precommits(m, r)
  BY SamePolkas
<1>2. ValidHasPolka(k)
  BY <1>1 DEF BlocksMatch, ValidHasPolka, KeepsBlocks
<1>3. BlockMatches(k)
  <2>1. ASSUME NEW r \in RoundNumbers, r <= m.round PROVE r <= k.round
    BY <2>1 DEF RoundNumbers
  <2> QED
    BY <1>1, <2>1 DEF BlocksMatch, BlockMatches, KeepsBlocks
<1> QED
  BY <1>2, <1>3 DEF BlocksMatch

LEMMA MethodMatch ==
  ASSUME NEW m, NEW k, NEW q, BlocksMatch(m), NodeInv(m, q), NodeInv(k, q), MovesOn(m, k),
         KeepsBlocks(m, k)
  PROVE  BlocksMatch(k)
<1>1. m \in Nodes /\ k \in Nodes /\ SameVotes(m, k)
  BY DEF NodeInv, MovesOn
<1>2. m.round <= k.round /\ m.round \in RoundNumbers /\ k.round \in RoundNumbers
  BY <1>1, MovesOnRound, NodeFacts
<1> QED
  BY <1>1, <1>2, KeptMatch

LEMMA SetProposalMatch ==
  ASSUME NEW m \in Nodes, BlocksMatch(m), NEW r, NEW pol, NEW h
  PROVE  BlocksMatch(SetProposal(m, r, pol, h))
<1> DEFINE w == [round |-> r, POLRound |-> pol, hash |-> h]
           k == [m EXCEPT !.proposal = w, !.proposalBlockHash = h]
<1>1. CASE SetProposal(m, r, pol, h) = m
  BY <1>1
<1>2. CASE SetProposal(m, r, pol, h) # m
  <2>1. SetProposal(m, r, pol, h) = k /\ m.proposal = NoProposal
    BY <1>2 DEF SetProposal
  <2> HIDE DEF w
  <2>2. /\ k.proposalBlock = m.proposalBlock /\ k.votes = m.votes /\ k.round = m.round
        /\ k.validBlock = m.validBlock /\ k.validRound = m.validRound
    BY DEF Nodes
  <2> HIDE DEF k
  <2> QED
    BY <2>1, <2>2 DEF BlocksMatch, BlockMatches, ValidHasPolka, Prevotes, Precommits
<1> QED
  BY <1>1, <1>2

LEMMA AddProposalBlockMatch ==
  ASSUME NEW m, NEW q, NodeInv(m, q), BlocksMatch(m), NEW b \in Blocks
  PROVE  BlocksMatch(AddProposalBlock(m, b))
<1> DEFINE maj == Prevotes(m, m.round).maj23
           a == [m EXCEPT !.proposalBlock = b]
           u == IF m.validRound < m.round /\ maj = b
                THEN [a EXCEPT !.validRound = m.round, !.validBlock = b]
                ELSE a
           v == EnterPrevote(u, m.round)
           k == AddProposalBlock(m, b)
<1>1. /\ m \in Nodes /\ MovesOn(m, m) /\ m.round \in RoundNumbers
      /\ b \in BlockOrNone /\ m.round \in RoundOrNone
  BY MovesOnSelf, Constants, NodeFacts DEF NodeInv
<1>2. k \in Nodes /\ MovesOn(m, k)
  BY AddProposalBlockInv DEF NodeInv
<1>3. \/ k = m
      \/ /\ m.proposal # NoProposal /\ m.proposalBlockHash = b
         /\ k \in {v, EnterPrecommit(v, m.round), FinalizeCommit(u), u}
  BY DEF AddProposalBlock
<1>4. CASE k = m
  BY <1>4
<1>5. CASE k # m
  <2> HIDE DEF k
  <2>1. a.proposalBlock = b /\ a.proposal = m.proposal
    BY <1>1 DEF Nodes
  <2>2. /\ a \in Nodes /\ a.proposalBlockHash = m.proposalBlockHash
        /\ a.votes = m.votes /\ a.round = m.round /\ a.step = m.step
        /\ a.validRound = m.validRound /\ a.validBlock = m.validBlock
    BY <1>1 DEF Nodes
  <2> HIDE DEF a
  <2>3. /\ u \in Nodes /\ u.proposalBlock = b /\ u.proposal = m.proposal
        /\ u.proposalBlockHash = m.proposalBlockHash
        /\ u.votes = m.votes /\ u.round = m.round /\ u.step = m.step
        /\ \/ u.validRound = m.validRound /\ u.validBlock = m.validBlock
           \/ u.validRound = m.round /\ u.validBlock = b /\ maj = b
    BY <1>1, <2>1, <2>2 DEF Nodes
  <2> HIDE DEF u, maj
  <2>4. BlocksMatch(u)
    <3>1. BlockMatches(u)
      BY <1>3, <1>5, <2>3 DEF BlockMatches
    <3>2. ValidHasPolka(u)
      BY <1>1, <2>3 DEF ValidHasPolka, BlocksMatch, Prevotes, maj
    <3> QED
      BY <3>1, <3>2 DEF BlocksMatch
  <2>5. KeepsBlocks(u, k)
    <3>1. IsObject(u) /\ KeepsBlocks(u, u)
      BY <2>3, NodeIsObject
    <3>2. KeepsBlocks(u, v)
      BY <3>1, EnterPrevoteKeeps
    <3>3. KeepsBlocks(u, EnterPrecommit(v, m.round))
      <4>1. IsObject(v)
        BY <3>2 DEF KeepsBlocks
      <4> HIDE DEF v
      <4> QED
        BY <3>2, <4>1, EnterPrecommitKeeps, KeepsBlocksOn
    <3>4. KeepsBlocks(u, FinalizeCommit(u))
      BY <3>1, FinalizeCommitKeeps
    <3> QED
      BY <1>3, <1>5, <3>1, <3>2, <3>3, <3>4
  <2>6. SameVotes(u, k) /\ u.round \in RoundNumbers /\ k.round \in RoundNumbers
    BY <1>1, <1>2, <2>3, NodeFacts DEF MovesOn, SameVotes
  <2>7. u.round <= k.round
    BY <1>1, <1>2, <2>3, MovesOnRound
  <2> QED
    BY <2>4, <2>5, <2>6, <2>7, KeptMatch DEF k
<1> QED
  BY <1>4, <1>5

(* The block enterCommit takes from the lock has +2/3 of the precommits.   *)
LEMMA EnterCommitMatch ==
  ASSUME NEW m \in Nodes, BlocksMatch(m), NEW cr \in RoundNumbers, cr <= m.round
  PROVE  BlocksMatch(EnterCommit(m, cr))
<1> DEFINE maj == Precommits(m, cr).maj23
           l == IF m.lockedBlock = maj
                THEN [m EXCEPT !.proposalBlockHash = m.lockedBlock,
                               !.proposalBlock = m.lockedBlock,
                               !.executed = m.lockedExecuted]
                ELSE m
           y == IF l.proposalBlock = maj THEN l
                ELSE [DropProposalBlock(l) EXCEPT !.proposalBlockHash = maj]
           k == [y EXCEPT !.step = Commit, !.commitRound = cr]
           f == FinalizeCommit(k)
<1>1. EnterCommit(m, cr) \in {m, f}
  BY DEF EnterCommit
<1>2. IsObject(m)
  BY NodeIsObject
<1>3. Precommits(m, cr).maj23 = maj
  OBVIOUS
<1> HIDE DEF maj
<1>4. /\ IsObject(l) /\ l.votes = m.votes /\ l.round = m.round
      /\ l.validRound = m.validRound /\ l.validBlock = m.validBlock
  BY <1>2 DEF IsObject
<1> HIDE DEF l
<1>5. /\ IsObject(y) /\ y.votes = m.votes /\ y.round = m.round
      /\ y.validRound = m.validRound /\ y.validBlock = m.validBlock
      /\ y.proposalBlock \in {maj, None}
  BY <1>4 DEF IsObject, DropProposalBlock
<1> HIDE DEF y
<1>6. /\ IsObject(k) /\ k.votes = m.votes /\ k.round = m.round
      /\ k.validRound = m.validRound /\ k.validBlock = m.validBlock
      /\ k.proposalBlock \in {maj, None}
  BY <1>5 DEF IsObject
<1> HIDE DEF k
<1>7. /\ f.votes = m.votes /\ f.round = m.round
      /\ f.validRound = m.validRound /\ f.validBlock = m.validBlock
      /\ f.proposalBlock \in {maj, None}
  BY <1>6 DEF FinalizeCommit, IsObject
<1> HIDE DEF f
<1>8. BlockMatches(f)
  <2>1. Precommits(f, cr).maj23 = maj
    BY <1>3, <1>7 DEF Precommits
  <2> QED
    BY <1>7, <2>1 DEF BlockMatches
<1>9. ValidHasPolka(f)
  BY <1>7 DEF BlocksMatch, ValidHasPolka, Prevotes
<1> QED
  BY <1>1, <1>8, <1>9 DEF BlocksMatch

(* +2/3 of the prevotes of the current round are for proposalBlockHash: the *)
(* proposal block, if there is one, is the block they are for.             *)
LEMMA TryUpdateValidMatch ==
  ASSUME NEW m \in Nodes, VoteSetsOK(m.votes), BlocksMatch(m), DecisionsLock(m),
         NEW r \in RoundNumbers
  PROVE  LET k == TryUpdateValid(m, r, Prevotes(m, r).maj23)
         IN  /\ BlocksMatch(k) /\ IsObject(k)
             /\ k.votes = m.votes /\ k.round = m.round /\ k.step = m.step
<1> DEFINE maj == Prevotes(m, r).maj23
           k == TryUpdateValid(m, r, maj)
           x == [m EXCEPT !.validRound = r, !.validBlock = m.proposalBlock]
           y == [DropProposalBlock(m) EXCEPT !.proposalBlockHash = maj]
<1>0. IsObject(m)
  BY NodeIsObject
<1>1. CASE k = m
  <2> HIDE DEF k
  <2> QED
    BY <1>0, <1>1 DEF k
<1>2. CASE k # m /\ k = x
  <2>1. maj \notin {None, Nil} /\ r = m.round /\ (m.proposalBlockHash = maj \/ x = y)
    BY <1>2 DEF TryUpdateValid
  <2>2. m.proposalBlockHash = maj
    <3>1. CASE m.proposalBlockHash # maj
      <4>1. x.proposalBlockHash = m.proposalBlockHash /\ y.proposalBlockHash = maj
        BY <1>0 DEF IsObject, DropProposalBlock
      <4> HIDE DEF x, y, maj
      <4> QED
        BY <2>1, <3>1, <4>1
    <3> QED
      BY <3>1
  <2>3. Prevotes(m, r).maj23 = maj
    OBVIOUS
  <2> HIDE DEF maj, k
  <2>4. /\ x.votes = m.votes /\ x.round = m.round /\ x.step = m.step
        /\ x.proposalBlock = m.proposalBlock /\ x.proposal = m.proposal
        /\ x.proposalBlockHash = m.proposalBlockHash
        /\ x.validRound = r /\ x.validBlock = m.proposalBlock /\ IsObject(x)
    BY <1>0 DEF IsObject
  <2> HIDE DEF x
  <2>5. m.proposalBlock # None => m.proposalBlock = maj
    <3>1. ASSUME m.proposalBlock # None, NEW s \in RoundNumbers, s <= m.round,
                 Precommits(m, s).maj23 = m.proposalBlock
          PROVE  m.proposalBlock = maj
      <4>1. m.proposalBlock \in Blocks
        BY <3>1 DEF Nodes, BlockOrNone
      <4> QED
        BY <2>1, <2>3, <3>1, <4>1 DEF DecisionsLock
    <3> QED
      BY <2>2, <3>1 DEF BlocksMatch, BlockMatches
  <2>6. BlockMatches(x)
    BY <2>4 DEF BlocksMatch, BlockMatches, Precommits
  <2>7. ValidHasPolka(x)
    BY <2>3, <2>4, <2>5 DEF ValidHasPolka, Prevotes
  <2> QED
    BY <1>2, <2>4, <2>6, <2>7 DEF BlocksMatch, k, maj
<1>3. CASE k # m /\ k # x
  <2>1. k = y
    BY <1>3 DEF TryUpdateValid
  <2> HIDE DEF maj, k
  <2>2. /\ y.votes = m.votes /\ y.round = m.round /\ y.step = m.step
        /\ y.proposalBlock = None /\ IsObject(y)
        /\ y.validRound = m.validRound /\ y.validBlock = m.validBlock
    BY <1>0 DEF IsObject, DropProposalBlock
  <2> HIDE DEF y
  <2>3. BlockMatches(y) /\ ValidHasPolka(y)
    BY <2>2 DEF BlocksMatch, BlockMatches, ValidHasPolka, Prevotes
  <2> QED
    BY <2>1, <2>2, <2>3 DEF BlocksMatch, k, maj
<1> QED
  BY <1>1, <1>2, <1>3

LEMMA AfterPrevoteMatch ==
  ASSUME NEW m, NEW q, NodeInv(m, q), BlocksMatch(m), DecisionsLock(m), NEW r \in RoundNumbers
  PROVE  BlocksMatch(AfterPrevote(m, r))
<1> DEFINE maj == Prevotes(m, r).maj23
           t == TryUnlock(m, r, maj)
           u == TryUpdateValid(t, r, maj)
           k == AfterPrevote(m, r)
<1>1. m \in Nodes /\ VoteSetsOK(m.votes)
  BY DEF NodeInv
<1>2. k \in {EnterNewRound(u, r), EnterPrecommit(u, r), EnterPrevoteWait(u, r),
            EnterPrevote(u, u.round), u}
  BY DEF AfterPrevote
<1>3. k \in Nodes /\ MovesOn(m, k)
  BY AfterPrevoteInv DEF NodeInv
<1> HIDE DEF k
<1>4. /\ t \in Nodes /\ t.votes = m.votes /\ t.round = m.round /\ t.step = m.step
      /\ t.validRound = m.validRound /\ t.validBlock = m.validBlock
      /\ t.proposalBlock = m.proposalBlock /\ t.proposal = m.proposal
      /\ t.proposalBlockHash = m.proposalBlockHash
  <2>1. t = m \/ t = Unlock(m)
    BY DEF TryUnlock
  <2> HIDE DEF t
  <2>2. CASE t = m
    BY <1>1, <2>2
  <2>3. CASE t = Unlock(m)
    <3>1. t \in Nodes
      BY <1>1, <2>3, Constants DEF Unlock, Nodes
    <3> QED
      BY <1>1, <2>3, <3>1, NodeIsObject DEF Unlock, IsObject
  <2> QED
    BY <2>1, <2>2, <2>3
<1>5. Prevotes(t, r).maj23 = maj
  BY <1>4 DEF Prevotes
<1> HIDE DEF t, maj
<1>6. BlocksMatch(t) /\ DecisionsLock(t)
  BY <1>4 DEF BlocksMatch, BlockMatches, ValidHasPolka, DecisionsLock, Prevotes, Precommits
<1>7. BlocksMatch(u) /\ IsObject(u) /\ u.votes = m.votes /\ u.round = m.round
  <2>1. LET x == TryUpdateValid(t, r, Prevotes(t, r).maj23)
        IN  /\ BlocksMatch(x) /\ IsObject(x)
            /\ x.votes = t.votes /\ x.round = t.round /\ x.step = t.step
    BY <1>1, <1>4, <1>6, TryUpdateValidMatch
  <2> QED
    BY <1>4, <1>5, <2>1
<1> HIDE DEF u
<1>8. KeepsBlocks(u, k)
  <2>1. KeepsBlocks(u, u)
    BY <1>7 DEF KeepsBlocks
  <2> QED
    BY <1>2, <1>7, <2>1, EnterNewRoundKeeps, EnterPrecommitKeeps, EnterPrevoteKeeps, WaitsKeep
<1>9. SameVotes(u, k) /\ u.round <= k.round /\ u.round \in RoundNumbers /\ k.round \in RoundNumbers
  <2>1. SameVotes(u, k)
    BY <1>3, <1>7 DEF MovesOn, SameVotes
  <2> QED
    BY <1>1, <1>3, <1>7, <2>1, MovesOnRound, NodeFacts
<1> QED
  BY <1>7, <1>8, <1>9, KeptMatch DEF k

LEMMA AfterPrecommitMatch ==
  ASSUME NEW m, NEW q, NodeInv(m, q), BlocksMatch(m), NEW r \in RoundNumbers
  PROVE  BlocksMatch(AfterPrecommit(m, r))
<1> DEFINE maj == Precommits(m, r).maj23
           e == EnterNewRound(m, r)
           p == EnterPrecommit(e, r)
           c == EnterCommit(p, r)
           k == AfterPrecommit(m, r)
<1>1. m \in Nodes /\ VoteSetsOK(m.votes) /\ 0 \in RoundNumbers /\ IsObject(m)
  BY Constants, NodeIsObject DEF NodeInv
<1>2. maj \notin {None, Nil} => maj \in Blocks
  <2>1. VoteSetInv(Precommits(m, r))
    BY <1>1, GetVoteSetInv, Constants DEF Precommits
  <2> QED
    BY <2>1 DEF VoteSetInv, VoteSetType, Hashes
<1>3. \/ k \in {EnterPrecommitWait(p, r), EnterPrecommitWait(e, r), m}
      \/ maj \notin {None, Nil} /\ k = EnterNewRound(c, 0)
  BY DEF AfterPrecommit
<1> HIDE DEF maj, k
<1>4. NodeInv(e, q) /\ MovesOn(m, e) /\ r <= e.round /\ e \in Nodes /\ BlocksMatch(e)
  <2>1. LET l == EnterNewRound(m, r)
        IN  NodeInv(l, q) /\ MovesOn(m, l) /\ r <= l.round
    BY EnterNewRoundInv
  <2>2. KeepsBlocks(m, e)
    BY <1>1, EnterNewRoundKeeps
  <2> QED
    BY <2>1, <2>2, MethodMatch DEF NodeInv
<1> HIDE DEF e
<1>5. NodeInv(p, q) /\ MovesOn(e, p) /\ r <= p.round /\ p \in Nodes /\ BlocksMatch(p)
  <2>1. NodeInv(p, q) /\ MovesOn(e, p)
    BY <1>4, EnterPrecommitInv
  <2>2. KeepsBlocks(e, p)
    BY <1>4, NodeIsObject, EnterPrecommitKeeps
  <2> HIDE DEF p
  <2>3. p \in Nodes
    BY <2>1 DEF NodeInv
  <2>4. r <= p.round
    BY <1>4, <2>1, <2>3, MovesOnRound, NodeFacts DEF RoundNumbers
  <2> QED
    BY <1>4, <2>1, <2>2, <2>3, <2>4, MethodMatch
<1> HIDE DEF p
<1>6. ASSUME NEW z, NodeInv(z, q), r <= z.round, BlocksMatch(z)
      PROVE  BlocksMatch(EnterPrecommitWait(z, r))
  <2>1. NodeInv(EnterPrecommitWait(z, r), q) /\ MovesOn(z, EnterPrecommitWait(z, r))
    BY <1>6, EnterPrecommitWaitInv
  <2>2. KeepsBlocks(z, EnterPrecommitWait(z, r))
    BY <1>6, NodeIsObject, WaitsKeep DEF NodeInv
  <2> QED
    BY <1>6, <2>1, <2>2, MethodMatch
<1>7. ASSUME maj \notin {None, Nil}
      PROVE  BlocksMatch(EnterNewRound(c, 0))
  <2>1. Precommits(p, r) = Precommits(m, r)
    <3>1. Precommits(p, r) = Precommits(e, r)
      BY <1>5, SamePolkas DEF MovesOn
    <3>2. Precommits(e, r) = Precommits(m, r)
      BY <1>4, SamePolkas DEF MovesOn
    <3> QED
      BY <3>1, <3>2
  <2>2. Precommits(p, r).maj23 \in Blocks
    BY <1>2, <1>7, <2>1 DEF maj
  <2>3. NodeInv(c, q)
    BY <1>5, <2>2, EnterCommitInv
  <2>4. BlocksMatch(c)
    BY <1>5, EnterCommitMatch
  <2> HIDE DEF c
  <2>5. LET l == EnterNewRound(c, 0)
        IN  NodeInv(l, q) /\ MovesOn(c, l) /\ 0 <= l.round
    BY <1>1, <2>3, EnterNewRoundInv
  <2>6. KeepsBlocks(c, EnterNewRound(c, 0))
    BY <2>3, NodeIsObject, EnterNewRoundKeeps DEF NodeInv
  <2> QED
    BY <2>3, <2>4, <2>5, <2>6, MethodMatch
<1> HIDE DEF c
<1>8. BlocksMatch(k)
  BY <1>3, <1>4, <1>5, <1>6, <1>7
<1> QED
  BY <1>8 DEF k

(* tryAddVote, when the votes up to this one come from a network in which  *)
(* decisions lock.                                                         *)
LEMMA TryAddVoteMatch ==
  ASSUME NEW m \in Nodes, VoteSetsOK(m.votes), BlocksMatch(m), NEW q,
         NEW t \in VoteTypes, NEW r \in RoundNumbers, NEW v \in Validators, NEW h \in Hashes,
         NEW p \in Peers \cup {Local},
         NodeInv(Added(m, t, r, v, h, p), q),
         DecisionsLock(TryAddVote(m, t, r, v, h, p))
  PROVE  BlocksMatch(TryAddVote(m, t, r, v, h, p))
<1> DEFINE a == Added(m, t, r, v, h, p)
           k == TryAddVote(m, t, r, v, h, p)
<1>1. k \in {a, AfterPrevote(a, r), AfterPrecommit(a, r)}
  BY DEF TryAddVote, Added
<1>2. VotesGrow(m, a) /\ a.round = m.round
  BY AddedVote
<1>3. MovesOn(a, k)
  <2>1. LET l == TryAddVote(m, t, r, v, h, p)
        IN  NodeInv(l, q) /\ MovesOn(a, l)
    BY TryAddVoteInv
  <2> QED
    BY <2>1
<1>4. KeepsBlocks(m, a) /\ a.proposalBlock = m.proposalBlock /\ a.proposal = m.proposal
      /\ a.proposalBlockHash = m.proposalBlockHash
  <2> DEFINE vs == AddVoteFrom(m.votes, r, t, v, h, p)
  <2>1. a = [m EXCEPT !.votes = vs]
    BY DEF Added
  <2> HIDE DEF a, vs
  <2> QED
    BY <2>1, NodeIsObject DEF KeepsBlocks, IsObject
<1> HIDE DEF k
<1>5. DecisionsLock(a)
  <2>1. \A s \in RoundNumbers : Prevotes(k, s) = Prevotes(a, s) /\ Precommits(k, s) = Precommits(a, s)
    BY <1>3, SamePolkas DEF MovesOn
  <2> QED
    BY <2>1 DEF DecisionsLock, k
<1>6. BlocksMatch(a)
  <2> HIDE DEF a
  <2>1. ValidHasPolka(a)
    BY <1>2, <1>4 DEF BlocksMatch, ValidHasPolka, VotesGrow, KeepsBlocks
  <2>2. BlockMatches(a)
    BY <1>2, <1>4 DEF BlocksMatch, BlockMatches, VotesGrow
  <2> QED
    BY <2>1, <2>2 DEF BlocksMatch
<1> HIDE DEF a
<1>7. BlocksMatch(k)
  BY <1>1, <1>5, <1>6, AfterPrevoteMatch, AfterPrecommitMatch DEF a
<1> QED
  BY <1>7 DEF k

(* A decision that the node has seen is one of the public precommits.      *)
LEMMA SeenDecision ==
  ASSUME IInv, NEW r \in RoundNumbers, Precommits(n, r).maj23 \in Blocks
  PROVE  C!IsQuorum(C!Precommitters(r, Precommits(n, r).maj23))
<1> DEFINE b == Precommits(n, r).maj23
<1>1. VoteSetInv(Precommits(n, r))
  BY GetVoteSetInv, Constants DEF IInv, NodeInv, Precommits
<1>2. IsQuorum(VotersOf(n.votes, r, "precommits", b)) /\ b \in Hashes
  BY <1>1, Constants DEF VoteSetInv, VoteSetType, Maj23OK, VotersOf, Precommits
<1>3. VotersOf(n.votes, r, "precommits", b) \in SUBSET Validators
  BY <1>1, <1>2 DEF VoteSetInv, VoteSetType, BlockVotes, VotersOf, Precommits
<1> HIDE DEF b
<1>4. \A v \in Validators : C!Vote(v, r, b) \in PublicVotes("precommits")
                               <=> v \in VotersOf(n.votes, r, "precommits", b)
  BY <1>2, PublicVotesOf DEF VotesOf, C!Vote
<1>5. C!Precommitters(r, b) = VotersOf(n.votes, r, "precommits", b)
  BY <1>3, <1>4 DEF C!Precommitters
<1> QED
  BY <1>2, <1>5, SameQuorum DEF b

(* In a network in which decisions lock, those the node has seen do.       *)
LEMMA NetworkDecisionsLock == IInv /\ C!DecisionLocksLaterRounds => DecisionsLock(n)
<1> SUFFICES ASSUME IInv, C!DecisionLocksLaterRounds,
                    NEW r \in RoundNumbers, NEW s \in RoundNumbers, r <= s,
                    Precommits(n, r).maj23 \in Blocks, Prevotes(n, s).maj23 # None
             PROVE  Prevotes(n, s).maj23 = Precommits(n, r).maj23
  BY DEF DecisionsLock
<1> DEFINE b == Precommits(n, r).maj23
           h == Prevotes(n, s).maj23
<1>1. C!IsQuorum(C!Precommitters(r, b))
  BY SeenDecision
<1>2. Polka(n, s, h) /\ h \in Hashes
  BY MajorityIsPolka DEF IInv, NodeInv
<1> HIDE DEF h
<1>3. C!Polka(s, h)
  BY <1>2, SeenPolka
<1>4. b \in Blocks /\ s >= r
  BY DEF RoundNumbers
<1>5. r \in C!Rounds /\ s \in C!Rounds /\ h \in C!Hashes
  BY <1>2 DEF RoundNumbers, C!Rounds, Hashes, C!Hashes
<1> HIDE DEF b
<1>6. h = b
  BY <1>1, <1>3, <1>4, <1>5 DEF C!DecisionLocksLaterRounds
<1> QED
  BY <1>6 DEF b, h

LEMMA SettleMatch ==
  ASSUME NEW m, IsObject(m), NEW q, Settle(m, q)
  PROVE  /\ BlocksMatch(n') <=> BlocksMatch(m)
         /\ DecisionsLock(n') <=> DecisionsLock(m)
<1> DEFINE k == [m EXCEPT !.sent = <<>>]
<1>1. n' = k
  BY DEF Settle
<1>2. /\ k.votes = m.votes /\ k.round = m.round /\ k.proposal = m.proposal
      /\ k.proposalBlock = m.proposalBlock /\ k.proposalBlockHash = m.proposalBlockHash
      /\ k.validRound = m.validRound /\ k.validBlock = m.validBlock
  BY DEF IsObject
<1> HIDE DEF k
<1>3. BlocksMatch(k) <=> BlocksMatch(m)
  BY <1>2 DEF BlocksMatch, BlockMatches, ValidHasPolka, Prevotes, Precommits
<1>4. DecisionsLock(k) <=> DecisionsLock(m)
  BY <1>2 DEF DecisionsLock, Prevotes, Precommits
<1> QED
  BY <1>1, <1>3, <1>4

(* A vote of a peer, or of the node itself.                                *)
LEMMA VoteMatch ==
  ASSUME IInv, BlocksMatch(n), DecisionsLock(n'), NEW q,
         NEW t \in VoteTypes, NEW r \in RoundNumbers, NEW v \in Validators, NEW h \in Hashes,
         NEW p \in Peers \cup {Local},
         NodeInv(Added(n, t, r, v, h, p), q),
         Settle(TryAddVote(n, t, r, v, h, p), q)
  PROVE  BlocksMatch(n')
<1> DEFINE k == TryAddVote(n, t, r, v, h, p)
<1>1. n \in Nodes /\ VoteSetsOK(n.votes)
  BY DEF IInv, NodeInv
<1>2. NodeInv(k, q)
  <2>1. LET l == TryAddVote(n, t, r, v, h, p)
        IN  NodeInv(l, q) /\ MovesOn(Added(n, t, r, v, h, p), l)
    BY TryAddVoteInv
  <2> QED
    BY <2>1
<1> HIDE DEF k
<1>3. IsObject(k) /\ Settle(k, q)
  BY <1>2, NodeIsObject DEF NodeInv, k
<1>4. DecisionsLock(k)
  BY <1>3, SettleMatch
<1>5. BlocksMatch(k)
  BY <1>1, <1>4, TryAddVoteMatch DEF k
<1> QED
  BY <1>3, <1>5, SettleMatch

LEMMA HandleOwnMatch ==
  ASSUME IInv, BlocksMatch(n), DecisionsLock(n'), HandleOwn
  PROVE  BlocksMatch(n')
<1> DEFINE msg == Head(msgQueue)
           q == Tail(msgQueue)
           k == HandleOwnMessage(n, msg)
<1>1. msgQueue # <<>> /\ n \in Nodes /\ Settle(k, q) /\ IsObject(n)
  BY NodeIsObject DEF HandleOwn, IInv, NodeInv
<1>2. /\ NodeInv(n, q) /\ msg \in Messages
      /\ msg \in Timeouts => /\ msg.round <= n.round
                             /\ msg.step = PrecommitWait => msg.round < MaxRound
      /\ \A t \in VoteTypes, r \in RoundNumbers, h \in Hashes :
           msg = OwnVote(t, r, h) =>
              Self \in Validators /\ NodeInv(Added(n, t, r, Self, h, Local), q)
  BY <1>1, Dequeued
<1> HIDE DEF k, msg, q
<1>3. CASE msg \in OwnVotes
  <2> DEFINE t == msg.type
             r == msg.round
             h == msg.hash
  <2>1. /\ t \in VoteTypes /\ r \in RoundNumbers /\ h \in Hashes /\ msg = OwnVote(t, r, h)
    BY <1>3 DEF OwnVotes, OwnVote
  <2>2. Self \in Validators /\ NodeInv(Added(n, t, r, Self, h, Local), q)
    BY <1>2, <2>1
  <2>3. k = TryAddVote(n, t, r, Self, h, Local)
    BY <2>1 DEF HandleOwnMessage, k, VoteTypes
  <2> HIDE DEF t, r, h
  <2> QED
    BY <1>1, <2>1, <2>2, <2>3, VoteMatch
<1>4. CASE msg \in OwnProposals
  <2>1. k = SetProposal(n, msg.round, msg.POLRound, msg.hash)
    BY <1>4 DEF OwnProposals, HandleOwnMessage, k, VoteTypes
  <2>2. BlocksMatch(k)
    BY <1>1, <2>1, SetProposalMatch
  <2>3. IsObject(k)
    <3>1. /\ msg.round \in RoundNumbers /\ msg.POLRound \in RoundOrNone /\ msg.hash \in Blocks
      BY <1>4 DEF OwnProposals
    <3>2. NodeInv(k, q)
      BY <1>2, <2>1, <3>1, SetProposalInv
    <3> QED
      BY <3>2, NodeIsObject DEF NodeInv
  <2> QED
    BY <1>1, <2>2, <2>3, SettleMatch
<1>5. CASE msg \in OwnBlocks
  <2>1. msg.type = "block" /\ msg.hash \in Blocks
    BY <1>5 DEF OwnBlocks
  <2>2. k = AddProposalBlock(n, msg.hash)
    BY <2>1 DEF HandleOwnMessage, k, VoteTypes
  <2>3. BlocksMatch(k) /\ NodeInv(k, q)
    BY <1>2, <2>1, <2>2, AddProposalBlockMatch, AddProposalBlockInv
  <2> QED
    BY <1>1, <2>3, NodeIsObject, SettleMatch DEF NodeInv
<1>6. CASE msg \in Timeouts
  <2>1. msg.type = "timeout" /\ msg.round \in RoundNumbers /\ msg.step \in TimedSteps
    BY <1>6 DEF Timeouts
  <2>2. k = HandleTimeout(n, msg.round, msg.step)
    BY <2>1 DEF HandleOwnMessage, k, VoteTypes
  <2>3. NodeInv(k, q) /\ MovesOn(n, k)
    BY <1>2, <1>6, <2>1, <2>2, HandleTimeoutInv
  <2>4. KeepsBlocks(n, k)
    BY <1>1, <2>1, <2>2, HandleTimeoutKeeps
  <2>5. BlocksMatch(k)
    BY <1>2, <2>3, <2>4, MethodMatch
  <2> QED
    BY <1>1, <2>3, <2>5, NodeIsObject, SettleMatch DEF NodeInv
<1> QED
  BY <1>2, <1>3, <1>4, <1>5, <1>6 DEF Messages

(* Steps that add no vote and change no block.                             *)
LEMMA OtherMatch ==
  ASSUME IInv, BlocksMatch(n),
         \/ TimerFires
         \/ \E c \in n.creating : BlockCreated(c)
         \/ n' = n
  PROVE  BlocksMatch(n')
<1>1. IsObject(n)
  BY NodeIsObject DEF IInv, NodeInv
<1>2. ASSUME NEW m, IsObject(m), NEW q, Settle(m, q),
             m.votes = n.votes, m.round = n.round, m.proposal = n.proposal,
             m.proposalBlock = n.proposalBlock, m.proposalBlockHash = n.proposalBlockHash,
             m.validRound = n.validRound, m.validBlock = n.validBlock
      PROVE  BlocksMatch(n')
  <2>1. BlocksMatch(m)
    BY <1>2 DEF BlocksMatch, BlockMatches, ValidHasPolka, Prevotes, Precommits
  <2> QED
    BY <1>2, <2>1, SettleMatch
<1>3. CASE TimerFires
  <2> DEFINE k == [Push(n, Timeout(n.timer.round, n.timer.step)) EXCEPT !.timer = NoTimer]
  <2>1. Settle(k, msgQueue)
    BY <1>3 DEF TimerFires
  <2>2. /\ IsObject(k) /\ k.votes = n.votes /\ k.round = n.round /\ k.proposal = n.proposal
        /\ k.proposalBlock = n.proposalBlock /\ k.proposalBlockHash = n.proposalBlockHash
        /\ k.validRound = n.validRound /\ k.validBlock = n.validBlock
    BY <1>1 DEF IsObject, Push
  <2> HIDE DEF k
  <2> QED
    BY <1>2, <2>1, <2>2
<1>4. ASSUME NEW c \in n.creating, BlockCreated(c) PROVE BlocksMatch(n')
  <2> DEFINE d == [n EXCEPT !.creating = @ \ {c}]
             w == OwnProposal(c.round, c.POLRound, OwnBlock[c.round])
             x == OwnProposalBlock(OwnBlock[c.round])
             k == Push(Push(d, w), x)
  <2>1. Settle(k, msgQueue) \/ Settle(d, msgQueue)
    BY <1>4 DEF BlockCreated
  <2>2. /\ IsObject(d) /\ d.votes = n.votes /\ d.round = n.round /\ d.proposal = n.proposal
        /\ d.proposalBlock = n.proposalBlock /\ d.proposalBlockHash = n.proposalBlockHash
        /\ d.validRound = n.validRound /\ d.validBlock = n.validBlock
    BY <1>1 DEF IsObject
  <2> HIDE DEF d, w, x
  <2>3. /\ IsObject(k) /\ k.votes = n.votes /\ k.round = n.round /\ k.proposal = n.proposal
        /\ k.proposalBlock = n.proposalBlock /\ k.proposalBlockHash = n.proposalBlockHash
        /\ k.validRound = n.validRound /\ k.validBlock = n.validBlock
    BY <2>2 DEF IsObject, Push
  <2> HIDE DEF k
  <2> QED
    BY <1>2, <2>1, <2>2, <2>3
<1> QED
  BY <1>3, <1>4

LEMMA NextMatch ==
  ASSUME IInv, BlocksMatch(n), DecisionsLock(n'), [Next]_vars
  PROVE  BlocksMatch(n')
<1>1. ASSUME NEW t \in VoteTypes, NEW r \in RoundNumbers, NEW h \in Hashes, NEW p \in Peers,
             NEW v \in Validators \ {Self}, PeerVote(t, r, v, h, p)
      PROVE  BlocksMatch(n')
  <2>1. NodeInv(Added(n, t, r, v, h, p), msgQueue)
    BY PeerVoteAdded
  <2> QED
    BY <1>1, <2>1, VoteMatch DEF PeerVote
<1>2. ASSUME NEW r \in RoundNumbers, NEW pol \in -1 .. MaxRound - 1, NEW h \in Blocks,
             PeerProposal(r, pol, h)
      PROVE  BlocksMatch(n')
  <2>1. pol \in RoundOrNone
    BY Constants DEF RoundOrNone
  <2>2. NodeInv(SetProposal(n, r, pol, h), msgQueue)
    BY <2>1, SetProposalInv DEF IInv
  <2>3. BlocksMatch(SetProposal(n, r, pol, h))
    BY SetProposalMatch DEF IInv, NodeInv
  <2> QED
    BY <1>2, <2>2, <2>3, NodeIsObject, SettleMatch DEF PeerProposal, NodeInv
<1>3. ASSUME NEW b \in Blocks, PeerBlock(b) PROVE BlocksMatch(n')
  <2>1. NodeInv(AddProposalBlock(n, b), msgQueue) /\ BlocksMatch(AddProposalBlock(n, b))
    BY AddProposalBlockInv, AddProposalBlockMatch DEF IInv
  <2> QED
    BY <1>3, <2>1, NodeIsObject, SettleMatch DEF PeerBlock, NodeInv
<1>4. CASE HandleOwn
  BY <1>4, HandleOwnMatch
<1>5. CASE TimerFires \/ (\E c \in n.creating : BlockCreated(c)) \/ n' = n
  BY <1>5, OtherMatch
<1>6. (\E b \in Valid : SyncCommit(b)) \/ NewBlockHeader \/ UNCHANGED vars => n' = n
  BY DEF SyncCommit, NewBlockHeader, vars
<1> QED
  BY <1>1, <1>2, <1>3, <1>4, <1>5, <1>6 DEF Next

(* In a network in which decisions lock their round and the later ones     *)
(* (which ConsensusProofs proves of every network whose faulty validators  *)
(* have less than a third of the power), what the node is locked on, what  *)
(* it would propose again as valid and what it commits has the votes that  *)
(* justify it: no order of proposals, blocks, votes and timeouts makes     *)
(* addVote take a proposal block for one that +2/3 prevoted.               *)
THEOREM BlocksBacked == Spec /\ []C!DecisionLocksLaterRounds => []VotesBackBlocks
<1>1. IInv /\ C!DecisionLocksLaterRounds => DecisionsLock(n)
  BY NetworkDecisionsLock
<1>2. Init => BlocksMatch(n)
  BY DEF Init, InitNode, BlocksMatch, BlockMatches, ValidHasPolka
<1>3. IInv /\ BlocksMatch(n) /\ DecisionsLock(n)' /\ [Next]_vars => BlocksMatch(n)'
  <2>1. DecisionsLock(n)' = DecisionsLock(n') /\ BlocksMatch(n)' = BlocksMatch(n')
    BY DEF DecisionsLock, BlocksMatch, BlockMatches, ValidHasPolka, Prevotes, Precommits
  <2> QED
    BY <2>1, NextMatch
<1>4. IInv /\ BlocksMatch(n) => VotesBackBlocks
  BY DEF IInv, NodeInv, LockHasPolka, ExecutedIsValid, BlocksMatch, ValidHasPolka,
         VotesBackBlocks, LockBacked, ValidBlockBacked, CommitBacked
<1> QED
  BY <1>1, <1>2, <1>3, <1>4, Invariance, PTL DEF Spec

=============================================================================
