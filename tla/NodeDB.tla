------------------------------- MODULE NodeDB -------------------------------
(***************************************************************************)
(* What the network manager keeps on disk (network/src/nodedb.ts): the     *)
(* records (ENR) of the nodes it discovered, when each node last answered  *)
(* from which address, and the sequence number of its own record.  A loop  *)
(* deletes the nodes that have not answered for too long, in steps between *)
(* which answers and discoveries are written.                              *)
(***************************************************************************)
EXTENDS Integers, FiniteSetsExt, SequencesExt

CONSTANTS NodeOrder, \* the nodes, in the order of their keys
          IP,
          MaxSeq,    \* bound of the model: sequence numbers, and the clock
          None

VARIABLES enr,       \* the address in the record stored for each node
          pong,      \* the last answer of a node from an address: "none", "fresh" or "stale"
          checking,  \* checkTimeout: the keys of its iterator that are left, None between rounds
          seeds,     \* querySeeds at the last start
          storedSeq, \* the sequence number on disk
          me,        \* the own record: its sequence number and address; None before the start
          clock      \* Date.now(), in the unit of the sequence numbers

vars == <<enr, pong, checking, seeds, storedSeq, me, clock>>
Node == Range(NodeOrder)

Init ==
  /\ enr = [n \in Node |-> None] /\ pong = [n \in Node |-> [i \in IP |-> "none"]]
  /\ checking = None /\ seeds = {} /\ storedSeq = 0 /\ me = None /\ clock = 1

-----------------------------------------------------------------------------
Persist(n, i) ==
  /\ me # None /\ enr' = [enr EXCEPT ![n] = i]
  /\ UNCHANGED <<pong, checking, seeds, storedSeq, me, clock>>
UpdatePong(n, i) ==
  /\ me # None /\ pong' = [pong EXCEPT ![n][i] = "fresh"]
  /\ UNCHANGED <<enr, checking, seeds, storedSeq, me, clock>>
Ages(n, i) ==
  /\ pong[n][i] = "fresh" /\ pong' = [pong EXCEPT ![n][i] = "stale"]
  /\ UNCHANGED <<enr, checking, seeds, storedSeq, me, clock>>

\* The iterator of checkTimeout reads the database as it is when it is created.
CheckTimeout ==
  /\ me # None /\ checking = None
  /\ checking' = SetToSeq({n \in Node : \E i \in IP : pong[n][i] = "stale"})
  /\ UNCHANGED <<enr, pong, seeds, storedSeq, me, clock>>
\* _deleteRange: every key with the node's prefix.
DeleteRange_RecordOnly(n) == enr' = [enr EXCEPT ![n] = None] /\ UNCHANGED pong
DeleteRange(n) == enr' = [enr EXCEPT ![n] = None] /\ pong' = [pong EXCEPT ![n] = [i \in IP |-> "none"]]
CheckNext ==
  /\ checking # None
  /\ IF checking = <<>> THEN checking' = None /\ UNCHANGED <<enr, pong>>
     ELSE checking' = Tail(checking) /\ DeleteRange(Head(checking))
  /\ UNCHANGED <<seeds, storedSeq, me, clock>>

\* querySeeds: one iterator only moves forward.  Seeking uses up the first key that is not
\* before the random one, so that the first record of the database is never returned; the
\* next record counts if its node has answered from the address it names.
Answered(n) == enr[n] # None /\ pong[n][enr[n]] = "fresh"
FirstKey == SelectInSeq(NodeOrder, LAMBDA n : enr[n] # None \/ \E i \in IP : pong[n][i] # "none")
SeedSets == SUBSET {NodeOrder[k] : k \in {j \in DOMAIN NodeOrder :
                      Answered(NodeOrder[j]) /\ j > FirstKey}}

\* loadLocalENR: the sequence number on disk, or the time; a new address does not change it.
LocalSeq == IF storedSeq = 0 THEN clock ELSE storedSeq
Start(i) ==
  /\ me = None
  /\ me' = [seq |-> LocalSeq, ip |-> i]
  /\ seeds' \in SeedSets
  /\ UNCHANGED <<enr, pong, checking, storedSeq, clock>>
\* discv5 learns another address from its peers: the record gets the next number and is
\* announced, and stored once the message of the event is handled.
LearnsAddress(i) ==
  /\ me # None /\ me.ip # i /\ me.seq < MaxSeq
  /\ me' = [seq |-> me.seq + 1, ip |-> i]
  /\ UNCHANGED <<enr, pong, checking, seeds, storedSeq, clock>>
MultiaddrUpdated ==
  /\ me # None /\ storedSeq' = me.seq
  /\ UNCHANGED <<enr, pong, checking, seeds, me, clock>>
\* The node stops, or crashes at any point; deletions that are not done are not resumed.
Stop ==
  /\ me # None /\ me' = None /\ checking' = None /\ seeds' = {}
  /\ UNCHANGED <<enr, pong, storedSeq, clock>>
Tick == clock < MaxSeq /\ clock' = clock + 1 /\ UNCHANGED <<enr, pong, checking, seeds, storedSeq, me>>

Next ==
  \/ \E n \in Node, i \in IP : Persist(n, i) \/ UpdatePong(n, i) \/ Ages(n, i)
  \/ CheckTimeout \/ CheckNext \/ MultiaddrUpdated \/ Stop \/ Tick
  \/ \E i \in IP : Start(i) \/ LearnsAddress(i)
Spec == Init /\ [][Next]_vars

-----------------------------------------------------------------------------
\* A deletion takes a node's record and its answers together (_deleteRange), whatever was
\* written meanwhile: no answer outlives the record it is about.
AnswersGoToo == \A n \in Node : enr[n] # None /\ enr'[n] = None => \A i \in IP : pong'[n][i] = "none"

\* A seed has answered from the address its record names (querySeeds).
SeedsAnswered == \A n \in seeds' \ seeds : enr[n] # None /\ pong[n][enr[n]] = "fresh"
RecordsMatchAnswers == [][AnswersGoToo /\ SeedsAnswered]_vars

\* Claim of checkTimeout, "delete the data about the timeout node": a node that has answered
\* lately from the address of its record is kept.
FreshNodesKept == [][\A n \in Node : Answered(n) => enr'[n] # None]_vars
=============================================================================
