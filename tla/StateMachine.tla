---------------------------- MODULE StateMachine ----------------------------
(***************************************************************************)
(* The consensus state machine of state.ts at one height: one node, Self,  *)
(* against a network that sends it any proposals, blocks and votes.        *)
(*                                                                         *)
(* The fields of the StateMachine object are one record, n, and every      *)
(* method of the class is an operator from records to records, so that a   *)
(* handler calls the others in the order the code does.  msgLoop holds a   *)
(* lock while it handles a message: a handler is one step.                 *)
(*                                                                         *)
(* msgQueue carries the node's own messages and its timeouts in order.     *)
(* Messages of peers share that queue, but since they may arrive at any    *)
(* time they are handled directly.  A block and its hash are one value.    *)
(***************************************************************************)
EXTENDS VoteSets, Sequences

CONSTANTS
    Self,       \* this node; it need not be a validator
    Proposer,   \* Proposer[r]: validators.proposer in round r
    Valid,      \* the blocks preValidate and preprocessBlock accept
    OwnBlock,   \* OwnBlock[r]: the block this node builds in round r
    Local,      \* the peer id '' of its own messages
    MaxRound    \* bound: the height ends before round MaxRound + 1

ASSUME MaxRoundAssumption == MaxRound \in Nat
ASSUME ProposerAssumption == Proposer \in [0 .. MaxRound -> Validators]
ASSUME OwnBlockAssumption == OwnBlock \in [0 .. MaxRound -> Valid] /\ Valid \subseteq Blocks
ASSUME LocalAssumption == Local \notin Peers

NewHeight == 1      (* RoundStepType *)
NewRound == 2
Propose == 3
Prevote == 4
PrevoteWait == 5
Precommit == 6
PrecommitWait == 7
Commit == 8

RoundNumbers == 0 .. MaxRound

VARIABLES
    n,          \* the StateMachine object
    msgQueue,   \* own votes, proposals, blocks and expired timeouts, in order
    synced,     \* the block of this height imported by sync, or None
    over        \* newBlockHeader has moved on to the next height

vars == <<n, msgQueue, synced, over>>

NoProposal == [round |-> -1, POLRound |-> -1, hash |-> None]
NoTimer == [round |-> -1, step |-> 0]

(* newBlockHeader: the object at the start of a height, its NewHeight      *)
(* timer running.                                                          *)
InitNode ==
    [round |-> 0, step |-> NewHeight,
     proposal |-> NoProposal, proposalBlockHash |-> None,
     proposalBlock |-> None, executed |-> FALSE,
     lockedRound |-> -1, lockedBlock |-> None, lockedExecuted |-> FALSE,
     validRound |-> -1, validBlock |-> None,
     votes |-> EmptyHeightVoteSet,
     commitRound |-> -1, triggeredTimeoutPrecommit |-> FALSE,
     timer |-> [round |-> 0, step |-> NewHeight],
     maxRound |-> 0, maxStep |-> NewHeight,
     creating |-> {}, sent |-> <<>>, committed |-> None]

-----------------------------------------------------------------------------
(* Messages of the queue.                                                  *)
OwnVote(t, r, h) == [type |-> t, round |-> r, hash |-> h]
OwnProposal(r, pol, h) == [type |-> "proposal", round |-> r, POLRound |-> pol, hash |-> h]
OwnProposalBlock(h) == [type |-> "block", hash |-> h]
Timeout(r, st) == [type |-> "timeout", round |-> r, step |-> st]

(* _newMessage: what a handler pushes is appended to the queue when it is  *)
(* done.                                                                   *)
Push(m, msg) == [m EXCEPT !.sent = Append(@, msg)]

(* TimeoutTicker.schedule: one timer; only a schedule beyond every earlier *)
(* one is accepted, and replaces the pending one.                          *)
Schedule(m, r, st) ==
    IF m.maxRound < r
    THEN [m EXCEPT !.maxRound = r, !.maxStep = st, !.timer = [round |-> r, step |-> st]]
    ELSE IF m.maxStep < st
    THEN [m EXCEPT !.maxStep = st, !.timer = [round |-> r, step |-> st]]
    ELSE m

Prevotes(m, r) == GetVoteSet(m.votes, r, "prevotes")
Precommits(m, r) == GetVoteSet(m.votes, r, "precommits")

(* The method's arguments are behind (or at) the current round and step.   *)
IsPast(m, r, st) == r < m.round \/ (r = m.round /\ st <= m.step)

(* signVote: only a validator has an index to sign with.                   *)
SignVote(m, t, h) ==
    IF Self \notin Validators THEN m ELSE Push(m, OwnVote(t, m.round, h))

IsProposalComplete(m) ==
    /\ m.proposal # NoProposal
    /\ m.proposalBlock # None
    /\ m.proposal.POLRound >= 0 => HasTwoThirdsMajority(Prevotes(m, m.proposal.POLRound))

Unlock_KeepsRound(m) == [m EXCEPT !.lockedBlock = None, !.lockedExecuted = FALSE]

Unlock(m) == [m EXCEPT !.lockedRound = -1, !.lockedBlock = None, !.lockedExecuted = FALSE]

DropProposalBlock(m) == [m EXCEPT !.proposalBlock = None, !.executed = FALSE]

-----------------------------------------------------------------------------
(* enterPrevote: the locked block, or the valid proposal block, or nil; no *)
(* step at all if the block turns out to be committed already.             *)
EnterPrevote(m, r) ==
    LET update(k) == [k EXCEPT !.round = r, !.step = Prevote]
    IN  IF IsPast(m, r, Prevote) THEN m
        ELSE IF m.lockedBlock # None THEN update(SignVote(m, "prevotes", m.lockedBlock))
        ELSE IF m.proposalBlock = None THEN update(SignVote(m, "prevotes", Nil))
        ELSE IF m.proposalBlock = synced THEN m
        ELSE IF m.proposalBlock \in Valid
        THEN update(SignVote([m EXCEPT !.executed = TRUE], "prevotes", m.proposalBlock))
        ELSE update(SignVote(m, "prevotes", Nil))

(* decideProposal: the valid block again, or a new block, built while the  *)
(* loop goes on with the parameters saved now.                             *)
DecideProposal(m, r) ==
    IF Self \notin Validators THEN m
    ELSE IF m.validBlock # None
    THEN Push(Push(m, OwnProposal(r, m.validRound, m.validBlock)),
              OwnProposalBlock(m.validBlock))
    ELSE [m EXCEPT !.creating = @ \cup {[round |-> m.round, POLRound |-> m.validRound]}]

EnterPropose(m, r) ==
    LET timed    == Schedule(m, r, Propose)
        proposed == IF Proposer[r] = Self THEN DecideProposal(timed, r) ELSE timed
        updated  == [proposed EXCEPT !.round = r, !.step = Propose]
    IN  IF IsPast(m, r, Propose) THEN m
        ELSE IF IsProposalComplete(updated) THEN EnterPrevote(updated, r)
        ELSE updated

EntersRound_SameRound(m, r) == r >= m.round

(* enterNewRound returns early unless this is a later round or the first.  *)
EntersRound(m, r) == r > m.round \/ (r = m.round /\ m.step = NewHeight)

(* enterNewRound: a later round, or round 0 of a new height.  With the     *)
(* constants of state.ts round 0 waits for no transactions.                *)
EnterNewRound(m, r) ==
    LET entered == [m EXCEPT !.round = r, !.step = NewRound,
                             !.votes = SetRound(@, r + 1),
                             !.triggeredTimeoutPrecommit = FALSE]
        cleared == IF r = 0 THEN entered
                   ELSE [DropProposalBlock(entered) EXCEPT
                           !.proposal = NoProposal, !.proposalBlockHash = None]
    IN  IF EntersRound(m, r) THEN EnterPropose(cleared, r) ELSE m

(* enterPrevoteWait; it throws without +2/3 of any prevotes.               *)
EnterPrevoteWait(m, r) ==
    IF IsPast(m, r, PrevoteWait) \/ ~ HasTwoThirdsAny(Prevotes(m, r)) THEN m
    ELSE [Schedule(m, r, PrevoteWait) EXCEPT !.round = r, !.step = PrevoteWait]

(* enterPrecommit: nil without a polka; a polka for nil unlocks; a polka   *)
(* for the locked or the proposed block locks it and precommits it; one    *)
(* for an unknown block unlocks, asks for that block and precommits nil.   *)
EnterPrecommit(m, r) ==
    LET maj == Prevotes(m, r).maj23
        update(k) == [k EXCEPT !.round = r, !.step = Precommit]
        unlocked == Unlock(m)
    IN  IF IsPast(m, r, Precommit) THEN m
        ELSE IF maj = None THEN update(SignVote(m, "precommits", Nil))
        ELSE IF POLRound(m.votes) \in 0 .. (r - 1) THEN m
        ELSE IF maj = Nil THEN update(SignVote(unlocked, "precommits", Nil))
        ELSE IF m.lockedBlock = maj
        THEN update(SignVote([m EXCEPT !.lockedRound = r], "precommits", maj))
        ELSE IF m.proposalBlock = maj
        THEN update(SignVote([m EXCEPT !.lockedRound = r,
                                       !.lockedBlock = m.proposalBlock,
                                       !.lockedExecuted = m.executed], "precommits", maj))
        ELSE update(SignVote([DropProposalBlock(unlocked) EXCEPT !.proposalBlockHash = maj],
                             "precommits", Nil))

(* enterPrecommitWait; it throws without +2/3 of any precommits.           *)
EnterPrecommitWait(m, r) ==
    IF \/ r < m.round \/ (r = m.round /\ m.triggeredTimeoutPrecommit)
       \/ ~ HasTwoThirdsAny(Precommits(m, r))
    THEN m
    ELSE [Schedule(m, r, PrecommitWait) EXCEPT !.triggeredTimeoutPrecommit = TRUE]

(* finalizeCommit: every condition under which it returns early, then the  *)
(* block is handed to commitBlock.                                         *)
CanFinalize(m) ==
    LET maj == Precommits(m, m.commitRound).maj23
    IN  /\ m.commitRound # -1
        /\ maj \notin {None, Nil}
        /\ m.proposal # NoProposal /\ m.proposal.hash = maj
        /\ m.proposalBlock = maj
        /\ m.executed \/ (maj \in Valid /\ maj # synced)

FinalizeCommit(m) ==
    IF CanFinalize(m) THEN [m EXCEPT !.executed = TRUE, !.committed = m.proposalBlock] ELSE m

(* enterCommit: the decided block is the locked one, the proposed one, or  *)
(* has to be asked for.                                                    *)
EnterCommit(m, cr) ==
    LET maj == Precommits(m, cr).maj23
        fromLock == IF m.lockedBlock = maj
                    THEN [m EXCEPT !.proposalBlockHash = m.lockedBlock,
                                   !.proposalBlock = m.lockedBlock,
                                   !.executed = m.lockedExecuted]
                    ELSE m
        ready == IF fromLock.proposalBlock = maj THEN fromLock
                 ELSE [DropProposalBlock(fromLock) EXCEPT !.proposalBlockHash = maj]
    IN  IF Commit <= m.step \/ maj = None THEN m
        ELSE FinalizeCommit([ready EXCEPT !.step = Commit, !.commitRound = cr])

-----------------------------------------------------------------------------
(* Handlers of messages and timeouts.                                      *)

(* setProposal: the first one of the current round.                        *)
SetProposal(m, r, pol, h) ==
    IF m.proposal # NoProposal \/ m.round # r THEN m
    ELSE [m EXCEPT !.proposal = [round |-> r, POLRound |-> pol, hash |-> h],
                   !.proposalBlockHash = h]

(* addProposalBlock: the block that was proposed or that has +2/3 votes.   *)
AddProposalBlock(m, b) ==
    LET maj     == Prevotes(m, m.round).maj23
        added   == [m EXCEPT !.proposalBlock = b]
        updated == IF m.validRound < m.round /\ maj = b
                   THEN [added EXCEPT !.validRound = m.round, !.validBlock = b]
                   ELSE added
        prevoted == EnterPrevote(updated, m.round)
    IN  IF \/ m.proposalBlock # None \/ m.proposal = NoProposal
           \/ m.proposalBlockHash # b
        THEN m
        ELSE IF m.step <= Propose /\ IsProposalComplete(updated)
        THEN IF maj = None THEN prevoted ELSE EnterPrecommit(prevoted, m.round)
        ELSE IF m.step = Commit THEN FinalizeCommit(updated)
        ELSE updated

(* addVote, "try to unlock ourself": +2/3 prevotes of a later round are    *)
(* for something else.                                                     *)
TryUnlock(m, r, maj) ==
    IF /\ maj # None /\ m.lockedBlock \notin {None, maj}
       /\ m.lockedRound < r /\ r <= m.round
    THEN Unlock(m) ELSE m

(* addVote, "try to update valid block": with the proposed block, whether  *)
(* it has arrived or not, or else by asking for the block of the polka.    *)
TryUpdateValid(m, r, maj) ==
    IF maj \in {None, Nil} \/ m.validRound >= r \/ r # m.round THEN m
    ELSE IF m.proposalBlockHash = maj
    THEN [m EXCEPT !.validRound = r, !.validBlock = m.proposalBlock]
    ELSE [DropProposalBlock(m) EXCEPT !.proposalBlockHash = maj]

AfterPrevote(m, r) ==
    LET maj == Prevotes(m, r).maj23
        any == HasTwoThirdsAny(Prevotes(m, r))
        u   == TryUpdateValid(TryUnlock(m, r, maj), r, maj)
    IN  IF u.round < r /\ any THEN EnterNewRound(u, r)
        ELSE IF u.round = r /\ Prevote <= u.step
        THEN IF maj = Nil \/ (maj # None /\ IsProposalComplete(u)) THEN EnterPrecommit(u, r)
             ELSE IF any THEN EnterPrevoteWait(u, r)
             ELSE u
        ELSE IF u.proposal.POLRound = r /\ IsProposalComplete(u)
        THEN EnterPrevote(u, u.round)
        ELSE u

(* With SkipTimeoutCommit the code then calls enterNewRound(height, 0).    *)
AfterPrecommit(m, r) ==
    LET maj == Precommits(m, r).maj23
        precommitted == EnterPrecommit(EnterNewRound(m, r), r)
    IN  IF maj = Nil THEN EnterPrecommitWait(precommitted, r)
        ELSE IF maj # None THEN EnterNewRound(EnterCommit(precommitted, r), 0)
        ELSE IF m.round <= r /\ HasTwoThirdsAny(Precommits(m, r))
        THEN EnterPrecommitWait(EnterNewRound(m, r), r)
        ELSE m

(* tryAddVote: a duplicate, a conflicting or an unwanted vote is thrown    *)
(* out before it can move the state machine.                               *)
TryAddVote(m, t, r, v, h, p) ==
    LET added == [m EXCEPT !.votes = AddVoteFrom(@, r, t, v, h, p)]
    IN  IF ~ AddVoteSucceeds(m.votes, r, t, v, h, p) THEN added
        ELSE IF t = "prevotes" THEN AfterPrevote(added, r)
        ELSE AfterPrecommit(added, r)

HandleTimeout_SameRound(m, r, st) ==
    IF r < m.round \/ (r = m.round /\ st < m.step) THEN m
    ELSE CASE st = NewHeight     -> EnterNewRound(m, 0)
           [] st = Propose       -> EnterPrevote(m, r)
           [] st = PrevoteWait   -> EnterPrecommit(m, r)
           [] st = PrecommitWait -> EnterNewRound(EnterPrecommit(m, r), r)

HandleTimeout(m, r, st) ==
    IF r < m.round \/ (r = m.round /\ st < m.step) THEN m
    ELSE CASE st = NewHeight     -> EnterNewRound(m, 0)
           [] st = Propose       -> EnterPrevote(m, r)
           [] st = PrevoteWait   -> EnterPrecommit(m, r)
           [] st = PrecommitWait -> EnterNewRound(EnterPrecommit(m, r), r + 1)

HandleOwnMessage(m, msg) ==
    CASE msg.type \in VoteTypes  -> TryAddVote(m, msg.type, msg.round, Self, msg.hash, Local)
      [] msg.type = "proposal"   -> SetProposal(m, msg.round, msg.POLRound, msg.hash)
      [] msg.type = "block"      -> AddProposalBlock(m, msg.hash)
      [] msg.type = "timeout"    -> HandleTimeout(m, msg.round, msg.step)

-----------------------------------------------------------------------------
Init == n = InitNode /\ msgQueue = <<>> /\ synced = None /\ over = FALSE

(* A handler has turned the object into m; the messages it pushed go to    *)
(* the end of the queue q.                                                 *)
Settle(m, q) ==
    /\ n' = [m EXCEPT !.sent = <<>>]
    /\ msgQueue' = q \o m.sent
    /\ UNCHANGED <<synced, over>>

(* A correctly signed vote of another validator.                           *)
PeerVote(t, r, v, h, p) ==
    /\ ~ over
    /\ Settle(TryAddVote(n, t, r, v, h, p), msgQueue)

(* A proposal signed by the proposer of its round; the signature of a      *)
(* proposal with a POL round that is not earlier is not even looked at.    *)
PeerProposal(r, pol, h) ==
    /\ ~ over
    /\ Proposer[r] # Self
    /\ pol < r
    /\ Settle(SetProposal(n, r, pol, h), msgQueue)

PeerBlock(b) == ~ over /\ Settle(AddProposalBlock(n, b), msgQueue)

(* msgLoop takes the next own message or timeout.                          *)
HandleOwn ==
    /\ ~ over
    /\ msgQueue # <<>>
    /\ Settle(HandleOwnMessage(n, Head(msgQueue)), Tail(msgQueue))

(* Bound: the last round of the model never times out into another one.    *)
IsBeyondBound(t) == t.step = PrecommitWait /\ t.round = MaxRound

(* The ticker's callback.                                                  *)
TimerFires ==
    /\ ~ over
    /\ n.timer # NoTimer
    /\ ~ IsBeyondBound(n.timer)
    /\ Settle([Push(n, Timeout(n.timer.round, n.timer.step)) EXCEPT !.timer = NoTimer],
              msgQueue)

(* createBlockAndProposal ends: with a block for the round it was called   *)
(* in, or with an error that is logged.                                    *)
BlockCreated(c) ==
    LET done == [n EXCEPT !.creating = @ \ {c}]
        b    == OwnBlock[c.round]
    IN  /\ ~ over
        /\ \/ Settle(Push(Push(done, OwnProposal(c.round, c.POLRound, b)),
                          OwnProposalBlock(b)), msgQueue)
           \/ Settle(done, msgQueue)

(* The block of this height is imported by sync or from a new-block        *)
(* message: it carries +2/3 precommits, so it is no other than the one     *)
(* this node committed.                                                    *)
SyncCommit(b) ==
    /\ ~ over
    /\ synced = None
    /\ n.committed \in {None, b}
    /\ synced' = b
    /\ UNCHANGED <<n, msgQueue, over>>

(* newBlockHeader: the chain has a block of this height; the engine moves  *)
(* the state machine on and its queue is cleared.                          *)
NewBlockHeader ==
    /\ ~ over
    /\ n.committed # None \/ synced # None
    /\ over' = TRUE
    /\ msgQueue' = <<>>
    /\ UNCHANGED <<n, synced>>

Next ==
    \/ \E t \in VoteTypes, r \in RoundNumbers, h \in Hashes, p \in Peers :
          \E v \in Validators \ {Self} : PeerVote(t, r, v, h, p)
    \/ \E r \in RoundNumbers, pol \in -1 .. MaxRound - 1, h \in Blocks : PeerProposal(r, pol, h)
    \/ \E b \in Blocks : PeerBlock(b)
    \/ HandleOwn
    \/ TimerFires
    \/ \E c \in n.creating : BlockCreated(c)
    \/ \E b \in Valid : SyncCommit(b)
    \/ NewBlockHeader

(* The message loop goes on, a set timer fires, and the engine follows the *)
(* chain: weak fairness of three actions, with ENABLED written out (TLC    *)
(* evaluates the handlers too slowly under ENABLED).  Nothing is assumed   *)
(* of the peers.                                                           *)
Fairness ==
    /\ []<>(over \/ msgQueue = <<>>) \/ []<><<HandleOwn>>_vars
    /\ []<>(over \/ n.timer = NoTimer \/ IsBeyondBound(n.timer)) \/ []<><<TimerFires>>_vars
    /\ []<>(over \/ (n.committed = None /\ synced = None)) \/ []<><<NewBlockHeader>>_vars

Spec == Init /\ [][Next]_vars /\ Fairness

-----------------------------------------------------------------------------
RoundOrNone == -1 .. MaxRound
BlockOrNone == Blocks \cup {None}

(* The fields of the object hold what their declarations say.              *)
TypeOK ==
    /\ n.round \in RoundNumbers /\ n.step \in NewHeight .. Commit
    /\ n.lockedRound \in RoundOrNone /\ n.lockedBlock \in BlockOrNone
    /\ n.validRound \in RoundOrNone /\ n.validBlock \in BlockOrNone
    /\ n.commitRound \in RoundOrNone /\ n.committed \in BlockOrNone
    /\ n.proposalBlock \in BlockOrNone /\ n.proposalBlockHash \in BlockOrNone
    /\ n.sent = <<>>
    /\ synced \in BlockOrNone /\ over \in BOOLEAN

(* A locked block has +2/3 of the prevotes of the round it is locked in,   *)
(* whatever unlocked and relocked it: the lock is the proof a later round  *)
(* is argued with.                                                         *)
LockBacked ==
    /\ n.lockedBlock = None <=> n.lockedRound = -1
    /\ n.lockedBlock # None =>
          n.lockedRound <= n.round /\ Prevotes(n, n.lockedRound).maj23 = n.lockedBlock

(* A valid block has +2/3 of the prevotes of its valid round, so a later   *)
(* proposal of it can show that proof-of-lock round.                       *)
ValidBlockBacked ==
    n.validBlock # None => Prevotes(n, n.validRound).maj23 = n.validBlock

(* What finalizeCommit hands to the chain has +2/3 precommits of the       *)
(* commit round and was executed: no path through locks, dropped blocks    *)
(* and late proposals commits anything else.                               *)
CommitBacked ==
    n.committed # None =>
        /\ \E r \in RoundNumbers : Precommits(n, r).maj23 = n.committed
        /\ n.committed \in Valid

(* What the node locked, holds as valid or commits has the votes that      *)
(* justify it.                                                             *)
VotesBackBlocks == LockBacked /\ ValidBlockBacked /\ CommitBacked

(* Round and step of one height never go back: enterNewRound out of Commit *)
(* goes to a later round.                                                  *)
RoundStepMonotone ==
    [][ \/ n'.round > n.round
        \/ n'.round = n.round /\ n'.step >= n.step ]_vars

(* The node never stays in a step it waits in on a clock: the timeout that *)
(* ends the step is not replaced, ignored as outdated or lost before it is *)
(* handled.  (Round and step only grow, so returning to such a step means  *)
(* a later one.)                                                           *)
TimedStepEnds == []<>(n.step \notin {NewHeight, Propose, PrevoteWait} \/ over)

(* +2/3 of any precommits lead to another round or to the commit step: the *)
(* ticker keeps the wait's timeout although the node moves through other   *)
(* steps of the round while it runs.                                       *)
PrecommitWaitEnds ==
    []<>(~ n.triggeredTimeoutPrecommit \/ n.step = Commit \/ n.round = MaxRound \/ over)

-----------------------------------------------------------------------------
(* The votes this node has seen, its own among them once it has handled    *)
(* (and broadcast) them.                                                   *)
PublicVotes(t) ==
    UNION {{[validator |-> v, round |-> r, hash |-> h] :
               v \in Validators \cap GetVoteSet(n.votes, r, t).votesByBlock[h].votes} :
           r \in RoundNumbers, h \in Hashes}

C == INSTANCE Consensus WITH
        prevotes   <- PublicVotes("prevotes"),
        precommits <- PublicVotes("precommits"),
        Faulty     <- Validators \ {Self}

(* Against any network, even one without another honest validator, the     *)
(* node keeps the promises of Consensus.tla: one vote per type and round,  *)
(* no precommit without a polka, no vote against its lock without a later  *)
(* polka.                                                                  *)
ImplementsConsensus == C!Spec

-----------------------------------------------------------------------------
(* hasMaj23Precommit(height) as sync asks it.                              *)
HasMaj23Precommit == Precommits(n, n.round).maj23 \notin {None, Nil}

(* FullSync ignores the network's best block because "our consensus engine *)
(* has collected enough votes for this height": such a node, once it has   *)
(* the decided block and the proposal and nothing left to handle, has      *)
(* committed the block.                                                    *)
EnoughVotesCommit ==
    (/\ HasMaj23Precommit /\ n.step = Commit /\ msgQueue = <<>>
     /\ n.proposalBlock = Precommits(n, n.commitRound).maj23
     /\ n.proposalBlock \in Valid \ {synced}
     /\ n.proposal.hash = n.proposalBlock)
        => n.committed # None
=============================================================================
