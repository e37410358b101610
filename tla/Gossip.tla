------------------------------- MODULE Gossip -------------------------------
(***************************************************************************)
(* How two nodes tell each other what they know of the consensus           *)
(* (core/src/protocols/consensus/handler.ts, with what the handler asks of *)
(* reimint/state.ts and the bit arrays of reimint/bitArray.ts).  Each      *)
(* keeps a record of the other, its PeerRoundState: where it is and which  *)
(* votes it has.  From the record it picks what to send, and it marks as   *)
(* had what it sends; a vote that is marked is never sent again, so a mark *)
(* that is not true withholds the vote for good.                           *)
(*                                                                         *)
(* What the state machines decide is left open (modules StateMachine and   *)
(* Consensus): they move on, vote, hear votes of others.  The messages     *)
(* nothing sends (VoteSetMaj23, VoteSetBits, ProposalPOL) are left out,    *)
(* and NewValidBlock, which changes nothing that is read.                  *)
(***************************************************************************)
EXTENDS Integers, FiniteSets, Sequences, Functions, TLC

CONSTANTS Node,         \* two, each a validator: the natural is its index
          Size,         \* validators at each height
          Steps,        \* of RoundStepType, from Propose on
          Start,        \* the states in which the nodes' state machines may be when they meet
          MaxRound, MaxMessages, MaxMoves, MaxLinks,   \* bounds of the model
          None

VARIABLES st,    \* height, round, step, votes, proposal, block and msgQueue of the state machines
          rec,   \* PeerRoundState of the other
          up,    \* the handshake has succeeded: the gossip loops run
          net,   \* messages on the way to a node, in order
          moves, links   \* of the state machines, and connections, so far
vars == <<st, rec, up, net, moves, links>>

Prevote == "prevote"
Precommit == "precommit"
NewHeight == 1
NewRound == 2
Propose == 3
PrevoteWait == 5
PrecommitWait == 7
MaxHeight == Len(Size)
Other(n) == CHOOSE m \in Node : m # n

-----------------------------------------------------------------------------
(* BitArray. *)
Empty(size) == [size |-> size, bits |-> {}]
\* setIndex(i, true): an index beyond the array is refused.
InRange(a, i) == a # None /\ i < a.size
SetBit(a, i) == IF InRange(a, i) THEN [a EXCEPT !.bits = @ \cup {i}] ELSE a

-----------------------------------------------------------------------------
(* PeerRoundState.  catchupCommit may be the very array of precommits.     *)
NewRecord ==
  [height |-> 0, round |-> -1, step |-> NewHeight, proposal |-> FALSE, polRound |-> -1,
   pol |-> None, prevotes |-> None, precommits |-> None,
   catchupRound |-> -1, catchup |-> None, shared |-> FALSE]
Catchup(r) == IF r.shared THEN r.precommits ELSE r.catchup

\* getVoteBitArray: the field that holds the votes of a round.
FieldOf(r, v) ==
  CASE r.height # v.height -> "none"
    [] v.round = r.round -> IF v.type = Prevote THEN "prevotes" ELSE "precommits"
    [] v.round = r.catchupRound -> IF v.type = Precommit THEN "catchup" ELSE "none"
    [] v.round = r.polRound -> IF v.type = Prevote THEN "pol" ELSE "none"
    [] OTHER -> "none"
BitArray(r, v) ==
  LET f == FieldOf(r, v)
  IN  CASE f = "none" -> None [] f = "catchup" -> Catchup(r) [] OTHER -> r[f]
HasVote(r, v) == BitArray(r, v) # None /\ v.index \in BitArray(r, v).bits
\* setHasVote; it says whether there was a place to mark.
CanMark(r, v) == InRange(BitArray(r, v), v.index)
Marked(r, v) ==
  LET f == FieldOf(r, v)
      field == IF f = "catchup" /\ r.shared THEN "precommits" ELSE f
  IN  IF CanMark(r, v) THEN [r EXCEPT ![field] = SetBit(@, v.index)] ELSE r

\* setHasProposal.
WithProposal(r, p) ==
  IF r.height # p.height \/ r.round # p.round \/ r.proposal THEN r
  ELSE [r EXCEPT !.proposal = TRUE, !.polRound = p.pol, !.pol = None]

\* ensureVoteBitArrays and ensureCatchupCommitRound.
Ensured(r, height, size) ==
  LET Or(a) == IF a = None THEN Empty(size) ELSE a
  IN  IF r.height # height THEN r
      ELSE [r EXCEPT !.prevotes = Or(@), !.precommits = Or(@), !.pol = Or(@),
                     !.catchup = IF Catchup(r) = None THEN Empty(size) ELSE @,
                     !.shared = @ /\ Catchup(r) # None]
CatchupEnsured(r, height, round, size) ==
  IF r.height # height \/ r.catchupRound = round THEN r
  ELSE [r EXCEPT !.catchupRound = round, !.shared = (r.round = round),
                 !.catchup = IF r.round = round THEN None ELSE Empty(size)]

\* applyNewRoundStepMessage.
Older(r, m) ==
  \/ m.height < r.height
  \/ m.height = r.height /\ m.round < r.round
  \/ m.height = r.height /\ m.round = r.round /\ m.step < r.step
\* Mutant: the precommits of the round before are kept.
RoundStep_KeepsPrecommits(r, m) ==
  IF Older(r, m) THEN r
  ELSE [r EXCEPT !.height = m.height, !.round = m.round, !.step = m.step]
RoundStep(r, m) ==
  LET moved == r.height # m.height \/ r.round # m.round
      back == r.height = m.height /\ r.round # m.round /\ r.catchupRound = m.round
      reset == [r EXCEPT !.proposal = FALSE, !.polRound = -1, !.pol = None, !.prevotes = None,
                         !.precommits = IF back THEN Catchup(r) ELSE None,
                         !.catchup = Catchup(r), !.shared = back]
      cleared == IF r.height = m.height THEN reset
                 ELSE [reset EXCEPT !.catchup = None, !.catchupRound = -1, !.shared = FALSE]
  IN  IF Older(r, m) THEN r
      ELSE [IF moved THEN cleared ELSE r EXCEPT !.height = m.height, !.round = m.round, !.step = m.step]

-----------------------------------------------------------------------------
(* What the state machine tells the handler. *)
NewState == [height |-> 1, round |-> 0, step |-> NewHeight, votes |-> {}, proposal |-> None,
             block |-> FALSE, queue |-> <<>>]
VotesOf(n, round, type) == {v \in st[n].votes : v.round = round /\ v.type = type}
\* VoteSet.isCommit, for the votes of one block.
IsCommit(n, round, type) ==
  type = Precommit /\ 3 * Cardinality(VotesOf(n, round, type)) > 2 * Size[st[n].height]
RoundStepMessage(s) == [kind |-> "step", height |-> s.height, round |-> s.round, step |-> s.step]
\* Mutant: only a peer of an earlier round is helped on.
PickVoteSet_Earlier(n) ==
  IF rec[n].height = st[n].height /\ rec[n].round < st[n].round THEN <<rec[n].round, Prevote>> ELSE <<-1, "none">>
\* pickVoteSetToSend: the round and type of the votes, or "none".
PickVoteSet(n) ==
  LET r == rec[n]
      follows == r.round # -1 /\ r.round <= st[n].round
  IN  CASE r.height # st[n].height \/ r.step = NewHeight -> <<-1, "none">>
        [] r.step <= Propose /\ follows /\ r.polRound # -1 -> <<r.polRound, Prevote>>
        [] r.step <= PrevoteWait /\ follows -> <<r.round, Prevote>>
        [] r.step <= PrecommitWait /\ follows -> <<r.round, Precommit>>
        [] follows -> <<r.round, Prevote>>
        [] r.polRound # -1 -> <<r.polRound, Prevote>>
        [] OTHER -> <<-1, "none">>

-----------------------------------------------------------------------------
(* Messages; a connection that is not open takes none. *)
Fits(n) == Len(net[n]) < MaxMessages
Send(n, m) == net' = [net EXCEPT ![n] = Append(@, m)]
VoteMessage(v) == [kind |-> "vote", vote |-> v]

\* sendVote.
SendVote(n, r, v) ==
  /\ rec' = [rec EXCEPT ![n] = Marked(r, v)]
  /\ IF CanMark(r, v) THEN Send(Other(n), VoteMessage(v)) ELSE UNCHANGED net

\* The record from which gossipVotesLoop picks, and the votes it may pick.
Prepared(n) ==
  LET p == PickVoteSet(n)
      votes == VotesOf(n, p[1], p[2])
      size == Size[st[n].height]
      c == IF IsCommit(n, p[1], p[2]) THEN CatchupEnsured(rec[n], st[n].height, p[1], size) ELSE rec[n]
  IN  IF votes = {} THEN rec[n] ELSE Ensured(c, st[n].height, size)
Picks(n, r) ==
  LET p == PickVoteSet(n)
  IN  {v \in VotesOf(n, p[1], p[2]) : BitArray(r, v) # None /\ ~HasVote(r, v)}
GossipVotes(n) ==
  /\ up[n] /\ Fits(Other(n))
  /\ \E r \in {Prepared(n)} :
       \/ \E v \in Picks(n, r) : SendVote(n, r, v)
       \/ Picks(n, r) = {} /\ r # rec[n] /\ rec' = [rec EXCEPT ![n] = r] /\ UNCHANGED net
  /\ UNCHANGED <<st, up, moves, links>>

\* gossipDataLoop with genProposalMessage.
GossipData(n) ==
  LET p == [height |-> st[n].height, round |-> st[n].round, pol |-> st[n].proposal]
  IN  /\ up[n] /\ Fits(Other(n)) /\ ~rec[n].proposal
      /\ rec[n].height = st[n].height /\ rec[n].round = st[n].round
      /\ st[n].proposal # None /\ st[n].block
      /\ Send(Other(n), [kind |-> "proposal", proposal |-> p])
      /\ rec' = [rec EXCEPT ![n] = WithProposal(@, p)]
      /\ UNCHANGED <<st, up, moves, links>>

-----------------------------------------------------------------------------
(* handle. *)
Receive(n) ==
  LET rest == [net EXCEPT ![n] = Tail(@)]
      Queue(x) == st' = [st EXCEPT ![n].queue = Append(@, x)]
      Learn(r) == rec' = [rec EXCEPT ![n] = r]
  IN  /\ net[n] # <<>> /\ UNCHANGED <<moves, links>>
      /\ \E m \in {Head(net[n])} :
           CASE m.kind = "handshake" ->  \* applyHandshakeMessage, the first time
                /\ IF up[n] THEN UNCHANGED rec
                   ELSE Learn([rec[n] EXCEPT !.height = m.height, !.round = m.round, !.step = m.step,
                                             !.prevotes = m.prevotes, !.precommits = m.precommits])
                /\ up' = [up EXCEPT ![n] = TRUE]
                /\ net' = IF up[n] THEN rest
                          ELSE [rest EXCEPT ![Other(n)] = Append(@, RoundStepMessage(st[n]))]
                /\ UNCHANGED st
           [] m.kind = "step" -> Learn(RoundStep(rec[n], m)) /\ net' = rest /\ UNCHANGED <<st, up>>
           [] m.kind = "hasVote" -> Learn(Marked(rec[n], m.vote)) /\ net' = rest /\ UNCHANGED <<st, up>>
           [] m.kind = "proposal" ->
                LET p == m.proposal
                IN  /\ Learn(WithProposal(rec[n], p))
                    /\ IF st[n].proposal = None /\ p.height = st[n].height /\ p.round = st[n].round
                       THEN Queue(m) ELSE UNCHANGED st
                    /\ net' = rest /\ UNCHANGED up
           [] m.kind = "vote" ->  \* the arrays are as long as the validators of the own height
                LET v == m.vote
                IN  /\ Learn(Marked(Ensured(rec[n], v.height, Size[st[n].height]), v))
                    /\ IF v.height = st[n].height /\ v \notin st[n].votes THEN Queue(m) ELSE UNCHANGED st
                    /\ net' = rest /\ UNCHANGED up
           [] m.kind = "getBlock" ->
                /\ net' = IF st[n].block /\ m.proposal = [height |-> st[n].height, round |-> st[n].round]
                          THEN [rest EXCEPT ![Other(n)] = Append(@, [m EXCEPT !.kind = "block"])] ELSE rest
                /\ UNCHANGED <<st, rec, up>>
           [] OTHER ->
                /\ IF ~st[n].block /\ st[n].proposal # None THEN Queue(m) ELSE UNCHANGED st
                /\ net' = rest /\ UNCHANGED <<rec, up>>

\* handleMsg: addVote, setProposal, addProposalBlock.  Who sent a vote is not told of it.
HandleMsg(n) ==
  LET m == Head(st[n].queue)
      Done(x) == st' = [st EXCEPT ![n] = [x EXCEPT !.queue = Tail(@)]]
      at == [height |-> st[n].height, round |-> st[n].round]
  IN  /\ st[n].queue # <<>> /\ Fits(Other(n)) /\ UNCHANGED <<rec, up, moves, links>>
      /\ CASE m.kind = "vote" ->
                /\ Done(IF m.vote.height = st[n].height THEN [st[n] EXCEPT !.votes = @ \cup {m.vote}] ELSE st[n])
                /\ UNCHANGED net
           [] m.kind = "proposal" ->
                LET p == m.proposal
                IN  IF st[n].proposal = None /\ p.height = at.height /\ p.round = at.round
                    THEN /\ Done([st[n] EXCEPT !.proposal = p.pol])
                         /\ Send(Other(n), [kind |-> "getBlock", proposal |-> at])
                    ELSE Done(st[n]) /\ UNCHANGED net
           [] OTHER -> /\ Done(IF st[n].proposal # None /\ m.proposal = at THEN [st[n] EXCEPT !.block = TRUE] ELSE st[n])
                       /\ UNCHANGED net

-----------------------------------------------------------------------------
(* The state machine. *)
Broadcast(n, m) == IF up[n] THEN Send(Other(n), m) ELSE UNCHANGED net
Free(n) == (up[n] => Fits(Other(n))) /\ moves < MaxMoves /\ moves' = moves + 1
Moves(n, s) ==
  /\ Free(n) /\ st' = [st EXCEPT ![n] = s]
  /\ Broadcast(n, RoundStepMessage(s))
  /\ UNCHANGED <<rec, up, links>>
\* A new round is told of by its first step.
EnterNewRound(n, r) ==
  /\ Free(n) /\ (r > st[n].round \/ (r = 0 /\ st[n].step = NewHeight))
  /\ st' = [st EXCEPT ![n] = [@ EXCEPT !.round = r, !.step = NewRound,
                                       !.proposal = IF r = 0 THEN @ ELSE None, !.block = IF r = 0 THEN @ ELSE FALSE]]
  /\ UNCHANGED <<rec, up, net, links>>
EnterStep(n, k) == st[n].step # NewHeight /\ st[n].step < k /\ Moves(n, [st[n] EXCEPT !.step = k])
NewBlockHeader(n) ==
  /\ st[n].height < MaxHeight
  /\ Moves(n, [NewState EXCEPT !.height = st[n].height + 1])
\* Its own vote (broadcastVote), once it votes for the type.
Vote(n, type) ==
  LET v == [height |-> st[n].height, round |-> st[n].round, type |-> type, index |-> n]
  IN  /\ Free(n) /\ v \notin st[n].votes /\ n < Size[st[n].height]
      /\ st[n].step > IF type = Prevote THEN Propose ELSE PrevoteWait
      /\ st' = [st EXCEPT ![n].votes = @ \cup {v}]
      /\ IF up[n] THEN SendVote(n, rec[n], v) ELSE UNCHANGED <<rec, net>>
      /\ UNCHANGED <<up, links>>
\* The vote of a third validator, from another peer (HasVoteMessage).
Hear(n, round, type, i) ==
  LET v == [height |-> st[n].height, round |-> round, type |-> type, index |-> i]
  IN  /\ Free(n) /\ v \notin st[n].votes /\ st[n].step # NewHeight /\ round <= st[n].round
      /\ st' = [st EXCEPT ![n].votes = @ \cup {v}]
      /\ Broadcast(n, [kind |-> "hasVote", vote |-> v])
      /\ UNCHANGED <<rec, up, links>>
\* The round's proposal and its block, its own or from another peer.
GetProposal(n, pol) ==
  /\ Free(n) /\ st[n].proposal = None /\ st[n].step # NewHeight
  /\ st' = [st EXCEPT ![n].proposal = pol, ![n].block = TRUE]
  /\ UNCHANGED <<rec, up, net, links>>

\* A new connection: both send a handshake with the votes of their round.
Bits(n, type) == [size |-> Size[st[n].height], bits |-> {v.index : v \in VotesOf(n, st[n].round, type)}]
HandshakeMessage(n) ==
  [RoundStepMessage(st[n]) EXCEPT !.kind = "handshake"] @@
  [prevotes |-> Bits(n, Prevote), precommits |-> Bits(n, Precommit)]
Reconnect ==
  /\ links < MaxLinks /\ links' = links + 1
  /\ rec' = [n \in Node |-> NewRecord] /\ up' = [n \in Node |-> FALSE]
  /\ net' = [n \in Node |-> <<HandshakeMessage(Other(n))>>]
  /\ UNCHANGED <<st, moves>>

Init ==
  /\ st \in {s \in [Node -> UNION Range(Start)] : \A n \in Node : s[n] \in Start[n]}
  /\ rec = [n \in Node |-> NewRecord] /\ up = [n \in Node |-> FALSE]
  /\ net = [n \in Node |-> <<HandshakeMessage(Other(n))>>] /\ moves = 0 /\ links = 1
Third(h) == (0 .. Size[h] - 1) \ Node
Next ==
  \/ Reconnect
  \/ \E n \in Node :
       \/ GossipVotes(n) \/ GossipData(n) \/ Receive(n) \/ HandleMsg(n) \/ NewBlockHeader(n)
       \/ \E r \in 0 .. MaxRound : EnterNewRound(n, r)
       \/ \E k \in Steps : EnterStep(n, k)
       \/ \E t \in {Prevote, Precommit} :
            Vote(n, t) \/ \E r \in 0 .. MaxRound, i \in Third(st[n].height) : Hear(n, r, t, i)
       \/ \E pol \in -1 .. st[n].round - 1 : GetProposal(n, pol)
\* The loops and the streams go on.
Works(n) == Receive(n) \/ HandleMsg(n) \/ GossipVotes(n)
Spec == Init /\ [][Next]_vars /\ \A n \in Node : WF_vars(Works(n))

-----------------------------------------------------------------------------
\* Votes and proposals on the way to a node or in its queue.
Coming(n, kind) == {m \in Range(net[n]) \cup Range(st[n].queue) : m.kind = kind}
VoteComes(n, v) == v \in st[n].votes \/ VoteMessage(v) \in Coming(n, "vote")

\* What a node has marked of the other is true: as long as the other is at that height, it has
\* the vote or the vote is on its way, for a node never sends again what it has marked (sendVote,
\* pickRandom).
Votes(n) == [height : {rec[n].height}, round : 0 .. MaxRound, type : {Prevote, Precommit},
             index : 0 .. Size[rec[n].height] - 1]
RecordIsTrue ==
  \A n \in Node :
    LET m == Other(n)
    IN  rec[n].height = st[m].height =>
          /\ \A v \in Votes(n) : HasVote(rec[n], v) => VoteComes(m, v)
          /\ rec[n].proposal /\ rec[n].round = st[m].round =>
               st[m].proposal # None \/ Coming(m, "proposal") # {}

\* gossipVotesLoop goes on at once when it has picked a vote: the vote must have been sent, or
\* the loop never gives way.
GossipNeverSpins ==
  \A n \in Node : up[n] => \A r \in {Prepared(n)} : \A v \in Picks(n, r) : CanMark(r, v)

\* The votes a node has and the other, in the same round or an earlier one, waits for.
Due(n) ==
  LET s == st[Other(n)]
      type == IF s.step > PrevoteWait /\ s.step <= PrecommitWait THEN Precommit ELSE Prevote
  IN  IF s.height = st[n].height /\ s.round <= st[n].round /\ s.step > Propose
      THEN VotesOf(n, s.round, type) \ s.votes ELSE {}
\* No vote that the other waits for stays behind.
Delivered(n) == up[n] /\ up[Other(n)] => Due(n) = {}
VotesGetThrough == \A n \in Node : []<>Delivered(n)
=============================================================================
