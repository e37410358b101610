--------------------------- MODULE NetworkProofs ---------------------------
(***************************************************************************)
(* The safety of the network's parts (MCNetwork), proved for every set of  *)
(* nodes, peers, users, announcers and heights: what the node database     *)
(* forgets and answers (NodeDB), whose root the snap scheduler downloads   *)
(* (Synchronizer), the pool of handlers that the users of the wire         *)
(* protocol share (Wire), and the order in which a fetch commits blocks    *)
(* (BlockSync).  The parts run apart, so each invariant is one of its      *)
(* part, and a step of the composition is a step of the part or a stutter. *)
(* What is assumed of the constants is stated in MCNetwork.                *)
(***************************************************************************)
EXTENDS MCNetwork, FiniteSetTheorems, SequenceTheorems, WellFoundedInduction, TLAPS

-----------------------------------------------------------------------------
(* The parts run apart.                                                    *)
LEMMA StepOfNodes == [Next]_vars => [Nodes!Next]_nodeVars
  BY DEF Next, vars, nodeVars, OnlyNetwork, OnlyNodes, OnlyBlocks, OnlyWire, OnlySync

LEMMA StepOfSync == [Next]_vars => [Sync!Next]_syncVars
  BY DEF Next, vars, syncVars, OnlyNetwork, OnlyNodes, OnlyBlocks, OnlyWire, OnlySync

LEMMA StepOfWire == [Next]_vars => [TheWire!Next]_wireVars
  BY DEF Next, vars, wireVars, OnlyNetwork, OnlyNodes, OnlyBlocks, OnlyWire, OnlySync

LEMMA StepOfBlocks == [Next]_vars => [Blocks!Next]_blockVars
  BY DEF Next, vars, blockVars, OnlyNetwork, OnlyNodes, OnlyBlocks, OnlyWire, OnlySync

-----------------------------------------------------------------------------
(* The node database.                                                      *)
NodesTyped ==
    /\ enr \in [Nodes!Node -> IP \cup {None}]
    /\ pong \in [Nodes!Node -> [IP -> {"none", "fresh", "stale"}]]

LEMMA NodesTypedInit == Nodes!Init => NodesTyped
  BY DEF Nodes!Init, NodesTyped

LEMMA NodesTypedStep == NodesTyped /\ [Nodes!Next]_nodeVars => NodesTyped'
<1> SUFFICES ASSUME NodesTyped, [Nodes!Next]_nodeVars PROVE NodesTyped'
  OBVIOUS
<1> USE DEF NodesTyped
<1>1. ASSUME NEW n \in Nodes!Node, NEW i \in IP,
             Nodes!Persist(n, i) \/ Nodes!UpdatePong(n, i) \/ Nodes!Ages(n, i)
      PROVE  NodesTyped'
  BY <1>1 DEF Nodes!Persist, Nodes!UpdatePong, Nodes!Ages
<1>2. CASE Nodes!CheckNext
  BY <1>2 DEF Nodes!CheckNext, Nodes!DeleteRange
<1>3. CASE UNCHANGED <<enr, pong>>
  BY <1>3
<1> QED
  BY <1>1, <1>2, <1>3 DEF Nodes!Next, Nodes!CheckTimeout, Nodes!MultiaddrUpdated, Nodes!Stop,
     Nodes!Tick, Nodes!Start, Nodes!LearnsAddress, nodeVars

LEMMA NodesStep ==
  ASSUME NodesTyped, Nodes!Next
  PROVE  Nodes!AnswersGoToo /\ Nodes!SeedsAnswered
<1>1. Nodes!AnswersGoToo
  <2> SUFFICES ASSUME NEW n \in Nodes!Node, enr[n] # None, enr'[n] = None, NEW i \in IP
               PROVE  pong'[n][i] = "none"
    BY DEF Nodes!AnswersGoToo
  <2>1. ASSUME NEW m \in Nodes!Node, NEW j \in IP, Nodes!Persist(m, j) PROVE FALSE
    BY <2>1, NoneIsNoAddress DEF Nodes!Persist, NodesTyped
  <2>2. CASE Nodes!CheckNext
    <3>1. Nodes!DeleteRange(Head(checking))
      BY <2>2 DEF Nodes!CheckNext
    <3>2. Head(checking) = n
      BY <3>1 DEF Nodes!DeleteRange, NodesTyped
    <3> QED
      BY <3>1, <3>2 DEF Nodes!DeleteRange, NodesTyped
  <2>3. CASE UNCHANGED enr
    BY <2>3
  <2> QED
    BY <2>1, <2>2, <2>3 DEF Nodes!Next, Nodes!UpdatePong, Nodes!Ages, Nodes!CheckTimeout,
       Nodes!MultiaddrUpdated, Nodes!Stop, Nodes!Tick, Nodes!Start, Nodes!LearnsAddress
<1>2. Nodes!SeedsAnswered
  <2>1. ASSUME NEW i \in IP, Nodes!Start(i) PROVE Nodes!SeedsAnswered
    BY <2>1 DEF Nodes!Start, Nodes!SeedSets, Nodes!Answered, Nodes!SeedsAnswered
  <2>2. CASE seeds' \in {seeds, {}}
    BY <2>2 DEF Nodes!SeedsAnswered
  <2> QED
    BY <2>1, <2>2 DEF Nodes!Next, Nodes!Persist, Nodes!UpdatePong, Nodes!Ages, Nodes!CheckTimeout,
       Nodes!CheckNext, Nodes!MultiaddrUpdated, Nodes!Stop, Nodes!Tick, Nodes!LearnsAddress
<1> QED
  BY <1>1, <1>2

(* The deletion of a node takes its answers with it, and a seed has        *)
(* answered from the address of its record.                                *)
THEOREM RecordsCorrect == Spec => RecordsMatchAnswers
<1>1. Init => NodesTyped
  BY NodesTypedInit DEF Init
<1>2. NodesTyped /\ [Next]_vars => NodesTyped'
  BY StepOfNodes, NodesTypedStep
<1>3. NodesTyped /\ [Next]_vars => [Nodes!AnswersGoToo /\ Nodes!SeedsAnswered]_nodeVars
  BY StepOfNodes, NodesStep
<1> QED
  BY <1>1, <1>2, <1>3, PTL DEF Spec, RecordsMatchAnswers

-----------------------------------------------------------------------------
(* The synchronizer.  What the loop knows while it asks the others whether *)
(* they have the announced block: if it is not of the honest chain, its    *)
(* announcer lies, and so does whoever has agreed, each of them once.      *)
Liars == SyncPeer \ HonestAnnouncer
LoopTyped ==
    syncLoop \in [st : {"wait", "ended", "data", "trusted", "others", "resetting"},
                  ann : {None} \cup [peer : SyncPeer, height : Int],
                  why : {"none", "start", "reset"}, good : BOOLEAN, left : SUBSET SyncPeer,
                  confirmed : Nat]
SnapTyped ==
    snap \in [st : {"idle", "running", "ended"}, height : Int, good : BOOLEAN, snapped : BOOLEAN,
              preRoot : BOOLEAN, healed : BOOLEAN, finished : BOOLEAN, stop : BOOLEAN]
ChanTyped == announcements \in Seq([peer : SyncPeer, height : Int])
SyncTyped == LoopTyped /\ SnapTyped /\ ChanTyped /\ top \in Int

OnlyLiarsAgree ==
    syncLoop.st = "others" /\ ~ syncLoop.good =>
        LET a == syncLoop.ann.peer
        IN  /\ a \in Liars /\ a \notin syncLoop.left
            /\ syncLoop.confirmed <= Cardinality((Liars \ {a}) \ syncLoop.left)
NothingAgreedYet == syncLoop.st = "data" => syncLoop.confirmed = 0
ResetsToGood == syncLoop.st = "resetting" => syncLoop.good
AnnouncementKept ==
    syncLoop.st \in {"data", "trusted", "others", "resetting"} =>
        syncLoop.ann \in [peer : SyncPeer, height : Int]
SyncInv ==
    /\ SyncTyped /\ AnnouncementKept
    /\ OnlyLiarsAgree /\ NothingAgreedYet /\ ResetsToGood /\ snap.good

LEMMA SyncInit == Sync!Init => SyncInv
<1> SUFFICES ASSUME Sync!Init PROVE SyncInv
  OBVIOUS
<1>1. syncLoop = Sync!Waits /\ snap = Sync!NoSnap /\ announcements = <<>> /\ top = 1
  BY DEF Sync!Init
<1>2. SyncTyped
  BY <1>1 DEF SyncTyped, LoopTyped, SnapTyped, ChanTyped, Sync!Waits, Sync!NoSnap
<1> QED
  BY <1>1, <1>2 DEF SyncInv, AnnouncementKept, OnlyLiarsAgree, NothingAgreedYet, ResetsToGood, Sync!Waits, Sync!NoSnap

(* A block that enough others confirm is good.                             *)
LEMMA EnoughIsGood ==
  ASSUME SyncInv, syncLoop.st = "others", Sync!Enough
  PROVE  syncLoop.good
<1> SUFFICES ASSUME ~ syncLoop.good PROVE FALSE
  OBVIOUS
<1> DEFINE a == syncLoop.ann.peer
           Agreed == (Liars \ {a}) \ syncLoop.left
<1>1. a \in Liars /\ syncLoop.confirmed <= Cardinality(Agreed)
  BY DEF SyncInv, OnlyLiarsAgree
<1>2. IsFiniteSet(Liars) /\ Cardinality(Liars) <= 2
  BY FewLiars DEF Liars
<1>3. IsFiniteSet(Liars \ {a}) /\ Cardinality(Liars \ {a}) = Cardinality(Liars) - 1
  BY <1>1, <1>2, FS_RemoveElement
<1>4. Agreed \in SUBSET (Liars \ {a})
  OBVIOUS
<1>5. Cardinality(Agreed) <= Cardinality(Liars \ {a}) /\ IsFiniteSet(Agreed)
  BY <1>3, <1>4, FS_Subset
<1>6. Cardinality(Agreed) \in Nat /\ Cardinality(Liars) \in Nat
  BY <1>2, <1>5, FS_CardinalityType
<1>7. syncLoop.confirmed \in Nat /\ syncLoop.confirmed >= 2
  BY DEF SyncInv, SyncTyped, LoopTyped, Sync!Enough, Sync!MinConfirmed
<1> HIDE DEF Agreed
<1> QED
  BY <1>1, <1>2, <1>3, <1>5, <1>6, <1>7

LEMMA SnapToGood ==
  ASSUME NEW n \in Int, NEW good \in BOOLEAN, Sync!SnapTo(n, good)
  PROVE  SnapTyped' /\ (snap.good)' = good
<1>1. snap' = [Sync!NoSnap EXCEPT !.st = "running", !.height = n, !.good = good,
                                  !.preRoot = n - 1 \in saved]
  BY DEF Sync!SnapTo
<1> DEFINE known1 == n - 1 \in saved
<1>2. snap' = [st |-> "running", height |-> n, good |-> good, snapped |-> FALSE, preRoot |-> known1,
               healed |-> FALSE, finished |-> FALSE, stop |-> FALSE]
  BY <1>1 DEF Sync!NoSnap
<1>3. known1 \in BOOLEAN
  OBVIOUS
<1> HIDE DEF known1
<1>4. SnapTyped'
  BY <1>2, <1>3 DEF SnapTyped
<1>5. (snap.good)' = good
  BY <1>2
<1> QED
  BY <1>4, <1>5

(* The records the loop goes on with when it asks no others.               *)
LEMMA ConfirmsRecord ==
  ASSUME NEW a, NEW why, NEW c,
         c \in {Sync!Confirms(a, why), [Sync!Confirms(a, why) EXCEPT !.st = "trusted"]}
  PROVE  \E st \in {"data", "trusted"} :
           c = [st |-> st, ann |-> a, why |-> why, good |-> FALSE, left |-> {}, confirmed |-> 0]
<1> DEFINE r(st) == [st |-> st, ann |-> a, why |-> why, good |-> FALSE, left |-> {}, confirmed |-> 0]
<1>1. ASSUME NEW d, d = Sync!Confirms(a, why) PROVE d = r("data")
  BY <1>1 DEF Sync!Waits, Sync!Confirms
<1>2. ASSUME NEW d, d = [r("data") EXCEPT !.st = "trusted"] PROVE d = r("trusted")
  BY <1>2
<1> HIDE DEF r
<1>3. Sync!Confirms(a, why) = r("data")
  BY <1>1, Zenon
<1>4. [Sync!Confirms(a, why) EXCEPT !.st = "trusted"] = r("trusted")
  BY <1>2, <1>3, Zenon
<1>5. c = r("data") \/ c = r("trusted")
  BY <1>3, <1>4, Zenon
<1> QED
  BY <1>5, Zenon DEF r

(* A loop that asks no others, beside a synchronization of a good root.    *)
LEMMA QuietLoop ==
  ASSUME SnapTyped', (snap.good)', ChanTyped', top' \in Int, LoopTyped',
         syncLoop'.st \notin {"others", "resetting"}, syncLoop'.confirmed = 0,
         syncLoop'.st \in {"data", "trusted"} =>
             syncLoop'.ann \in [peer : SyncPeer, height : Int]
  PROVE  SyncInv'
  BY DEF SyncInv, SyncTyped, AnnouncementKept, OnlyLiarsAgree, NothingAgreedYet, ResetsToGood

LEMMA LoopWaits ==
  ASSUME SnapTyped', (snap.good)', ChanTyped', top' \in Int,
         syncLoop' \in {Sync!Waits, Sync!Ended}
  PROVE  SyncInv'
<1>1. PICK st \in {"wait", "ended"} :
        syncLoop' = [st |-> st, ann |-> None, why |-> "none", good |-> FALSE, left |-> {}, confirmed |-> 0]
  BY DEF Sync!Waits, Sync!Ended
<1>2. /\ LoopTyped' /\ syncLoop'.st \notin {"others", "resetting"} /\ syncLoop'.confirmed = 0
      /\ syncLoop'.st \in {"data", "trusted"} => syncLoop'.ann \in [peer : SyncPeer, height : Int]
  BY <1>1 DEF LoopTyped
<1> QED
  BY <1>2, QuietLoop

LEMMA LoopAsks ==
  ASSUME SnapTyped', (snap.good)', ChanTyped', top' \in Int,
         NEW a \in [peer : SyncPeer, height : Int], NEW why \in {"start", "reset"},
         syncLoop' \in {Sync!Confirms(a, why), [Sync!Confirms(a, why) EXCEPT !.st = "trusted"]}
  PROVE  SyncInv'
<1>1. PICK st \in {"data", "trusted"} :
        syncLoop' = [st |-> st, ann |-> a, why |-> why, good |-> FALSE, left |-> {}, confirmed |-> 0]
  BY ConfirmsRecord
<1>2. /\ LoopTyped' /\ syncLoop'.st \notin {"others", "resetting"} /\ syncLoop'.confirmed = 0
      /\ syncLoop'.st \in {"data", "trusted"} => syncLoop'.ann \in [peer : SyncPeer, height : Int]
  BY <1>1 DEF LoopTyped
<1> QED
  BY <1>2, QuietLoop

(* The steps of the synchronizations leave the loop as it is.              *)
LEMMA LoopGoesOn ==
  ASSUME SyncInv, UNCHANGED syncLoop, ChanTyped', top' \in Int, SnapTyped', (snap.good)'
  PROVE  SyncInv'
<1>1. LoopTyped' /\ SyncTyped'
  BY DEF SyncInv, SyncTyped, LoopTyped
<1>2. AnnouncementKept' /\ OnlyLiarsAgree' /\ NothingAgreedYet' /\ ResetsToGood'
  BY DEF SyncInv, AnnouncementKept, OnlyLiarsAgree, NothingAgreedYet, ResetsToGood
<1> QED
  BY <1>1, <1>2 DEF SyncInv

LEMMA StartsStep ==
  ASSUME SyncInv, NEW a \in [peer : SyncPeer, height : Int], Sync!Starts(a), ChanTyped', UNCHANGED top
  PROVE  SyncInv'
<1>1. SnapTyped' /\ (snap.good)' /\ top' \in Int
  BY DEF SyncInv, SyncTyped, SnapTyped, Sync!Starts
<1>2. \/ syncLoop' = Sync!Waits
      \/ syncLoop' \in {Sync!Confirms(a, "start"), [Sync!Confirms(a, "start") EXCEPT !.st = "trusted"]}
  BY DEF Sync!Starts
<1>3. CASE syncLoop' = Sync!Waits
  BY <1>1, <1>3, LoopWaits
<1>4. CASE syncLoop' \in {Sync!Confirms(a, "start"), [Sync!Confirms(a, "start") EXCEPT !.st = "trusted"]}
  BY <1>1, <1>4, LoopAsks
<1> QED
  BY <1>2, <1>3, <1>4

LEMMA AppendTyped ==
  ASSUME ChanTyped, NEW p \in SyncPeer, NEW n \in Int, Sync!Pushes(p, n)
  PROVE  ChanTyped'
  BY AppendProperties DEF ChanTyped, Sync!Pushes

LEMMA SnapAbortedTyped ==
  ASSUME SnapTyped, snap.good, snap' = Sync!SnapAborted
  PROVE  SnapTyped' /\ (snap.good)'
  BY DEF SnapTyped, Sync!SnapAborted

LEMMA TakeAnnouncementStep == SyncInv /\ Sync!TakeAnnouncement => SyncInv'
<1> SUFFICES ASSUME SyncInv, Sync!TakeAnnouncement PROVE SyncInv'
  OBVIOUS
<1> DEFINE a == Head(announcements)
<1>1. announcements # <<>> /\ announcements' = Tail(announcements) /\ UNCHANGED top
  BY DEF Sync!TakeAnnouncement
<1>2. a \in [peer : SyncPeer, height : Int] /\ ChanTyped'
  BY <1>1, HeadTailProperties DEF SyncInv, SyncTyped, ChanTyped
<1> HIDE DEF a
<1>3. CASE UNCHANGED <<syncLoop, snap>>
  BY <1>1, <1>2, <1>3, LoopGoesOn DEF SyncInv, SyncTyped, SnapTyped
<1>4. CASE syncLoop' \in {Sync!Confirms(a, "reset"), Sync!Waits} /\ UNCHANGED snap
  BY <1>1, <1>2, <1>4, LoopAsks, LoopWaits DEF SyncInv, SyncTyped, SnapTyped
<1>5. CASE Sync!Starts(a)
  BY <1>1, <1>2, <1>5, StartsStep
<1> QED
  BY <1>3, <1>4, <1>5 DEF Sync!TakeAnnouncement, a

LEMMA OtherAnswersStep ==
  ASSUME SyncInv, NEW p \in SyncPeer, Sync!OtherAnswers(p)
  PROVE  SyncInv'
<1> DEFINE l == syncLoop
<1>1. /\ l.st = "others" /\ p \in l.left
      /\ UNCHANGED <<snap, announcements, top>>
  BY DEF Sync!OtherAnswers
<1>2. PICK same \in BOOLEAN :
        /\ same => Sync!Gives(p, l.ann.height, l.good)
        /\ l' = [l EXCEPT !.left = @ \ {p}, !.confirmed = IF same THEN @ + 1 ELSE @]
  BY DEF Sync!OtherAnswers
<1>3. LoopTyped
  BY DEF SyncInv, SyncTyped
<1> DEFINE n == IF same THEN l.confirmed + 1 ELSE l.confirmed
<1>4. n \in Nat /\ l' = [l EXCEPT !.left = l.left \ {p}, !.confirmed = n]
  BY <1>2, <1>3 DEF LoopTyped
<1> HIDE DEF n
<1>5. LoopTyped'
  BY <1>3, <1>4 DEF LoopTyped
<1>6. /\ LoopTyped' /\ l'.st = "others" /\ l'.good = l.good /\ l'.ann = l.ann
      /\ l'.left = l.left \ {p}
      /\ l'.confirmed = IF same THEN l.confirmed + 1 ELSE l.confirmed
  BY <1>1, <1>3, <1>4, <1>5 DEF LoopTyped, n
<1>7. SnapTyped' /\ ChanTyped' /\ top' \in Int /\ (snap.good)'
  BY <1>1 DEF SyncInv, SyncTyped, SnapTyped, ChanTyped
<1>8. OnlyLiarsAgree'
  <2> SUFFICES ASSUME ~ l.good
               PROVE  LET a == l.ann.peer
                      IN  /\ a \in Liars /\ a \notin l.left \ {p}
                          /\ (IF same THEN l.confirmed + 1 ELSE l.confirmed)
                               <= Cardinality((Liars \ {a}) \ (l.left \ {p}))
    BY <1>6 DEF OnlyLiarsAgree
  <2> DEFINE a == l.ann.peer
             Before == (Liars \ {a}) \ l.left
             After == (Liars \ {a}) \ (l.left \ {p})
  <2>1. a \in Liars /\ a \notin l.left /\ l.confirmed <= Cardinality(Before)
    BY <1>1 DEF SyncInv, OnlyLiarsAgree
  <2>2. IsFiniteSet(Before) /\ IsFiniteSet(After)
    BY FewLiars, FS_Subset DEF Liars
  <2>3. Cardinality(Before) \in Nat /\ Cardinality(After) \in Nat /\ l.confirmed \in Nat
    BY <2>2, FS_CardinalityType DEF SyncInv, SyncTyped, LoopTyped
  <2>4. CASE ~ same
    <3>1. Before \in SUBSET After
      OBVIOUS
    <3>2. Cardinality(Before) <= Cardinality(After)
      BY <2>2, <3>1, FS_Subset
    <3> HIDE DEF Before
    <3> QED
      BY <2>1, <2>3, <2>4, <3>2
  <2>5. CASE same
    <3>1. p \in Liars /\ p # a
      BY <1>1, <1>2, <2>1, <2>5 DEF Sync!Gives, Liars
    <3>2. After = Before \cup {p} /\ p \notin Before
      BY <1>1, <3>1
    <3>3. Cardinality(After) = Cardinality(Before) + 1
      BY <2>2, <3>2, FS_AddElement
    <3> HIDE DEF Before
    <3> QED
      BY <2>1, <2>3, <2>5, <3>3
  <2> QED
    BY <2>4, <2>5
<1>9. AnnouncementKept' /\ NothingAgreedYet' /\ ResetsToGood'
  BY <1>1, <1>6 DEF SyncInv, AnnouncementKept, NothingAgreedYet, ResetsToGood
<1> QED
  BY <1>6, <1>7, <1>8, <1>9 DEF SyncInv, SyncTyped

LEMMA DataArrivesStep == SyncInv /\ Sync!DataArrives => SyncInv'
<1> SUFFICES ASSUME SyncInv, Sync!DataArrives PROVE SyncInv'
  OBVIOUS
<1> DEFINE l == syncLoop
           a == l.ann.peer
<1>1. l.st = "data" /\ UNCHANGED <<snap, announcements, top>>
  BY DEF Sync!DataArrives
<1>2. PICK good \in BOOLEAN :
        /\ Sync!Gives(a, l.ann.height, good)
        /\ l' = [l EXCEPT !.st = "others", !.good = good, !.left = SyncPeer \ {a}]
  BY DEF Sync!DataArrives, Sync!Others
<1>3. LoopTyped /\ l.confirmed = 0
  BY <1>1 DEF SyncInv, SyncTyped, NothingAgreedYet
<1>4. LoopTyped'
  BY <1>2, <1>3 DEF LoopTyped
<1>5. /\ l'.st = "others" /\ l'.good = good /\ l'.ann = l.ann
      /\ l'.left = SyncPeer \ {a} /\ l'.confirmed = 0
  BY <1>2, <1>3 DEF LoopTyped
<1>6. SnapTyped' /\ ChanTyped' /\ top' \in Int /\ (snap.good)'
  BY <1>1 DEF SyncInv, SyncTyped, SnapTyped, ChanTyped
<1>7. ~ good => a \in Liars
  BY <1>2 DEF Sync!Gives, Liars
<1>8. Cardinality((Liars \ {a}) \ (SyncPeer \ {a})) = 0
  BY FS_EmptySet DEF Liars
<1>9. OnlyLiarsAgree'
  BY <1>5, <1>7, <1>8 DEF OnlyLiarsAgree
<1>10. AnnouncementKept' /\ NothingAgreedYet' /\ ResetsToGood'
  BY <1>1, <1>5 DEF SyncInv, AnnouncementKept, NothingAgreedYet, ResetsToGood
<1> QED
  BY <1>4, <1>6, <1>9, <1>10 DEF SyncInv, SyncTyped

LEMMA SnapStarts ==
  ASSUME SyncInv, NEW n \in Int, NEW good \in BOOLEAN, good, Sync!SnapTo(n, good),
         syncLoop' = Sync!Waits, UNCHANGED <<announcements, top>>
  PROVE  SyncInv'
<1>1. SnapTyped' /\ (snap.good)'
  BY SnapToGood
<1>2. ChanTyped' /\ top' \in Int
  BY DEF SyncInv, SyncTyped, ChanTyped
<1> QED
  BY <1>1, <1>2, LoopWaits

LEMMA ConfirmedStep ==
  SyncInv /\ (Sync!TrustedArrives \/ Sync!StartConfirmed \/ Sync!ResetStarts) => SyncInv'
<1> SUFFICES ASSUME SyncInv, Sync!TrustedArrives \/ Sync!StartConfirmed \/ Sync!ResetStarts
             PROVE  SyncInv'
  OBVIOUS
<1>1. syncLoop' = Sync!Waits /\ UNCHANGED <<announcements, top>>
  BY DEF Sync!TrustedArrives, Sync!StartConfirmed, Sync!ResetStarts
<1>2. CASE Sync!TrustedArrives
  <2>1. Sync!SnapTo(Trusted, TRUE)
    BY <1>2, Zenon DEF Sync!TrustedArrives
  <2>2. Trusted \in Int
    BY SyncConstants
  <2> QED
    BY <1>1, <2>1, <2>2, SnapStarts
<1>3. ASSUME syncLoop.good, Sync!SnapTo(syncLoop.ann.height, syncLoop.good),
             syncLoop.ann.height \in Int
      PROVE  SyncInv'
  <2>1. syncLoop.good \in BOOLEAN
    BY DEF SyncInv, SyncTyped, LoopTyped
  <2> QED
    BY <1>1, <1>3, <2>1, SnapStarts
<1>4. CASE Sync!StartConfirmed /\ Sync!Enough
  <2>1. syncLoop.good
    BY <1>4, EnoughIsGood DEF Sync!StartConfirmed, Sync!Asked
  <2> QED
    BY <1>3, <1>4, <2>1 DEF Sync!StartConfirmed, Sync!Asked, SyncInv, AnnouncementKept
<1>5. CASE Sync!StartConfirmed /\ ~ Sync!Enough
  <2>1. SnapTyped' /\ (snap.good)' /\ ChanTyped' /\ top' \in Int
    BY <1>1, <1>5 DEF Sync!StartConfirmed, SyncInv, SyncTyped, SnapTyped, ChanTyped
  <2> QED
    BY <1>1, <2>1, LoopWaits
<1>6. CASE Sync!ResetStarts
  BY <1>3, <1>6 DEF Sync!ResetStarts, SyncInv, AnnouncementKept, ResetsToGood
<1> QED
  BY <1>2, <1>4, <1>5, <1>6

LEMMA ResetConfirmedStep == SyncInv /\ Sync!ResetConfirmed => SyncInv'
<1> SUFFICES ASSUME SyncInv, Sync!ResetConfirmed PROVE SyncInv'
  OBVIOUS
<1>1. UNCHANGED <<announcements, top>> /\ syncLoop.st = "others"
  BY DEF Sync!ResetConfirmed, Sync!Asked
<1>2. ChanTyped' /\ top' \in Int
  BY <1>1 DEF SyncInv, SyncTyped, ChanTyped
<1>3. CASE syncLoop' = Sync!Waits /\ UNCHANGED snap
  BY <1>2, <1>3, LoopWaits DEF SyncInv, SyncTyped, SnapTyped
<1>4. CASE Sync!Starts(syncLoop.ann)
  BY <1>1, <1>2, <1>4, StartsStep DEF SyncInv, AnnouncementKept
<1>5. CASE Sync!Enough /\ syncLoop' = [syncLoop EXCEPT !.st = "resetting"] /\ snap' = Sync!SnapAborted
  <2>1. syncLoop.good /\ LoopTyped /\ syncLoop.ann \in [peer : SyncPeer, height : Int]
    BY <1>1, <1>5, EnoughIsGood DEF SyncInv, SyncTyped, AnnouncementKept
  <2>2. LoopTyped'
    BY <1>5, <2>1 DEF LoopTyped
  <2>3. syncLoop'.st = "resetting" /\ syncLoop'.good = syncLoop.good /\ syncLoop'.ann = syncLoop.ann
    BY <1>5, <2>1 DEF LoopTyped
  <2>4. SnapTyped' /\ (snap.good)'
    BY <1>5, SnapAbortedTyped DEF SyncInv, SyncTyped
  <2>5. AnnouncementKept' /\ NothingAgreedYet' /\ ResetsToGood' /\ OnlyLiarsAgree'
    BY <2>1, <2>3 DEF AnnouncementKept, NothingAgreedYet, ResetsToGood, OnlyLiarsAgree
  <2> QED
    BY <1>2, <2>2, <2>4, <2>5 DEF SyncInv, SyncTyped
<1> QED
  BY <1>3, <1>4, <1>5 DEF Sync!ResetConfirmed

LEMMA LoopQuits ==
  SyncInv /\ (Sync!DataFails \/ Sync!LoopEnds \/ Sync!Shutdown) => SyncInv'
<1> SUFFICES ASSUME SyncInv, Sync!DataFails \/ Sync!LoopEnds \/ Sync!Shutdown
             PROVE  SyncInv'
  OBVIOUS
<1>1. ChanTyped' /\ top' \in Int
  <2>1. UNCHANGED top /\ announcements' \in {announcements, <<>>}
    BY DEF Sync!DataFails, Sync!Fails, Sync!LoopEnds, Sync!Shutdown
  <2>2. <<>> \in Seq([peer : SyncPeer, height : Int])
    OBVIOUS
  <2> QED
    BY <2>1, <2>2 DEF SyncInv, SyncTyped, ChanTyped
<1>2. SnapTyped' /\ (snap.good)'
  <2>1. CASE UNCHANGED snap
    BY <2>1 DEF SyncInv, SyncTyped, SnapTyped
  <2>2. CASE snap' = Sync!SnapAborted
    BY <2>2, SnapAbortedTyped DEF SyncInv, SyncTyped
  <2> QED
    BY <2>1, <2>2 DEF Sync!DataFails, Sync!Fails, Sync!LoopEnds, Sync!Shutdown
<1>3. syncLoop' \in {Sync!Waits, Sync!Ended} \/ UNCHANGED syncLoop
  BY DEF Sync!DataFails, Sync!Fails, Sync!LoopEnds, Sync!Shutdown
<1> QED
  BY <1>1, <1>2, <1>3, LoopWaits, LoopGoesOn

LEMMA AnnouncedStep ==
  ASSUME SyncInv,
         \/ Sync!RandomPick
         \/ \E p \in SyncPeer, n \in 1..MaxHeight : Sync!Announce(p, n)
         \/ \E p \in HonestAnnouncer : Sync!AnnounceSnap(p)
  PROVE  SyncInv'
<1>1. UNCHANGED <<top, syncLoop, snap>>
  BY DEF Sync!RandomPick, Sync!Announce, Sync!AnnounceSnap
<1>2. \E p \in SyncPeer, n \in Int : Sync!Pushes(p, n)
  <2>1. ASSUME Sync!RandomPick PROVE \E p \in SyncPeer, n \in Int : Sync!Pushes(p, n)
    <3>1. PICK p \in SyncPeer : Sync!Pushes(p, IF p \in HonestAnnouncer THEN top ELSE MaxHeight)
      BY <2>1, Zenon DEF Sync!RandomPick
    <3>2. (IF p \in HonestAnnouncer THEN top ELSE MaxHeight) \in Int
      BY SyncConstants DEF SyncInv, SyncTyped
    <3> QED
      BY <3>1, <3>2, Zenon
  <2>2. ASSUME NEW p \in SyncPeer, NEW n \in 1..MaxHeight, Sync!Announce(p, n)
        PROVE  Sync!Pushes(p, n) /\ n \in Int
    BY <2>2, SyncConstants DEF Sync!Announce
  <2>3. ASSUME NEW p \in HonestAnnouncer, Sync!AnnounceSnap(p)
        PROVE  p \in SyncPeer /\ Sync!Pushes(p, 0)
    BY <2>3, SyncConstants DEF Sync!AnnounceSnap
  <2>4. 0 \in Int
    OBVIOUS
  <2> QED
    BY <2>1, <2>2, <2>3, <2>4, Zenon
<1>3. ChanTyped'
  BY <1>2, AppendTyped DEF SyncInv, SyncTyped
<1> QED
  BY <1>1, <1>3, LoopGoesOn DEF SyncInv, SyncTyped, SnapTyped

(* The synchronizations end or go on to heal: none gets another root.      *)
LEMMA SyncsStep == SyncInv /\ (Sync!Syncs \/ Sync!Grow) => SyncInv'
<1> SUFFICES ASSUME SyncInv, Sync!Syncs \/ Sync!Grow PROVE SyncInv'
  OBVIOUS
<1>1. UNCHANGED <<syncLoop, announcements>> /\ top' \in Int
  <2>1. CASE Sync!Grow
    BY <2>1 DEF SyncInv, SyncTyped, Sync!Grow
  <2>2. CASE Sync!SnapEnds \/ Sync!FullEnds
    BY <2>2 DEF SyncInv, SyncTyped, Sync!SnapEnds, Sync!FullEnds
  <2>3. CASE Sync!HeadersArrive \/ Sync!HeadersFail \/ Sync!HeadersAborted
    BY <2>3 DEF SyncInv, SyncTyped, Sync!HeadersArrive, Sync!HeadersFail, Sync!HeadersAborted
  <2> QED
    BY <2>1, <2>2, <2>3 DEF SyncInv, SyncTyped, Sync!Syncs, Sync!Snapped, Sync!RootHealed,
       Sync!Healed, Sync!SyncsEnded, Sync!ShutdownEnds
<1>2. \/ snap' \in {snap, Sync!NoSnap, [snap EXCEPT !.snapped = TRUE], [snap EXCEPT !.healed = TRUE],
                    [snap EXCEPT !.preRoot = TRUE]}
      \/ snap' = [snap EXCEPT !.st = "ended", !.finished = TRUE]
  BY DEF Sync!Syncs, Sync!Grow, Sync!Snapped, Sync!RootHealed, Sync!Healed,
     Sync!HeadersArrive, Sync!Told, Sync!HeadersFail, Sync!HeadersAborted, Sync!SnapEnds,
     Sync!FullEnds, Sync!SyncsEnded, Sync!ShutdownEnds
<1>3. SnapTyped' /\ (snap.good)'
  <2>1. CASE snap' = Sync!NoSnap
    BY <2>1 DEF SnapTyped, Sync!NoSnap
  <2>2. SnapTyped /\ snap.good
    BY DEF SyncInv, SyncTyped
  <2>3. CASE snap' = snap
    BY <2>2, <2>3 DEF SnapTyped
  <2>4. CASE snap' \in {[snap EXCEPT !.snapped = TRUE], [snap EXCEPT !.healed = TRUE],
                       [snap EXCEPT !.preRoot = TRUE]}
    BY <2>2, <2>4 DEF SnapTyped
  <2>5. CASE snap' = [snap EXCEPT !.st = "ended", !.finished = TRUE]
    BY <2>2, <2>5 DEF SnapTyped
  <2> QED
    BY <1>2, <2>1, <2>3, <2>4, <2>5
<1> QED
  BY <1>1, <1>3, LoopGoesOn DEF SyncInv, SyncTyped, ChanTyped

LEMMA SyncStep == SyncInv /\ [Sync!Next]_syncVars => SyncInv'
<1> SUFFICES ASSUME SyncInv, [Sync!Next]_syncVars PROVE SyncInv'
  OBVIOUS
<1>1. CASE UNCHANGED syncVars
  BY <1>1, LoopGoesOn DEF SyncInv, SyncTyped, SnapTyped, ChanTyped, syncVars
<1>2. CASE Sync!Works
  BY <1>2, TakeAnnouncementStep, DataArrivesStep, OtherAnswersStep, ConfirmedStep,
     ResetConfirmedStep, LoopQuits DEF Sync!Works
<1> QED
  BY <1>1, <1>2, LoopQuits, AnnouncedStep, SyncsStep DEF Sync!Next

(* A state is downloaded only of a block that enough peers confirm, as     *)
(* long as no more than two announcers lie.                                *)
THEOREM RootCorrect == Spec => []RootIsHonest
<1>1. Init => SyncInv
  BY SyncInit DEF Init
<1>2. SyncInv /\ [Next]_vars => SyncInv'
  BY StepOfSync, SyncStep
<1>3. SyncInv => RootIsHonest
  BY DEF SyncInv, RootIsHonest, Sync!RootIsHonest
<1> QED
  BY <1>1, <1>2, <1>3, PTL DEF Spec

-----------------------------------------------------------------------------
(* What RemoveAt leaves of a queue in which nobody waits twice.            *)
Distinct(s) == \A i, j \in 1..Len(s) : s[i] = s[j] => i = j

Without(s, i) == SubSeq(s, 1, i - 1) \o SubSeq(s, i + 1, Len(s))

LEMMA RemoveAtElements ==
  ASSUME NEW S, NEW s \in Seq(S), NEW i \in 1..Len(s)
  PROVE  /\ Without(s, i) \in Seq(S)
         /\ Len(Without(s, i)) = Len(s) - 1
         /\ \A j \in 1..Len(s) - 1 : Without(s, i)[j] = IF j < i THEN s[j] ELSE s[j + 1]
<1> DEFINE a == SubSeq(s, 1, i - 1)
           b == SubSeq(s, i + 1, Len(s))
<1>1. a \in Seq(S) /\ Len(a) = i - 1 /\ \A j \in 1..i - 1 : a[j] = s[j]
  BY SubSeqProperties
<1>2. b \in Seq(S) /\ Len(b) = Len(s) - i /\ \A j \in 1..Len(s) - i : b[j] = s[i + j]
  BY SubSeqProperties
<1>3. Without(s, i) = a \o b
  BY DEF Without
<1> HIDE DEF a, b
<1>4. /\ a \o b \in Seq(S) /\ Len(a \o b) = Len(a) + Len(b)
      /\ \A j \in 1..Len(a) + Len(b) : (a \o b)[j] = IF j <= Len(a) THEN a[j] ELSE b[j - Len(a)]
  BY <1>1, <1>2, ConcatProperties
<1> DEFINE r == a \o b
<1>5. r \in Seq(S) /\ Len(r) = Len(s) - 1 /\ Len(s) \in Nat
  BY <1>1, <1>2, <1>4
<1> HIDE DEF r
<1>6. ASSUME NEW j \in 1..Len(s) - 1 PROVE r[j] = IF j < i THEN s[j] ELSE s[j + 1]
  <2>1. CASE j < i
    <3>1. j \in 1..Len(a) + Len(b) /\ j <= Len(a) /\ j \in 1..i - 1
      BY <1>1, <1>2, <1>5, <2>1
    <3> QED
      BY <1>1, <1>4, <2>1, <3>1 DEF r
  <2>2. CASE ~ (j < i)
    <3>1. /\ j \in 1..Len(a) + Len(b) /\ ~ (j <= Len(a)) /\ j - Len(a) \in 1..Len(s) - i
          /\ i + (j - Len(a)) = j + 1
      BY <1>1, <1>2, <1>5, <2>2
    <3>2. r[j] = b[j - Len(a)]
      BY <1>4, <3>1 DEF r
    <3>3. b[j - Len(a)] = s[i + (j - Len(a))]
      BY <1>2, <3>1
    <3> QED
      BY <2>2, <3>1, <3>2, <3>3
  <2> QED
    BY <2>1, <2>2
<1> QED
  BY <1>3, <1>5, <1>6 DEF r

LEMMA RemoveAtDistinct ==
  ASSUME NEW S, NEW s \in Seq(S), Distinct(s), NEW i \in 1..Len(s)
  PROVE  /\ Without(s, i) \in Seq(S) /\ Distinct(Without(s, i))
         /\ Len(Without(s, i)) = Len(s) - 1
         /\ \A j \in 1..Len(Without(s, i)) : \E k \in 1..Len(s) \ {i} : Without(s, i)[j] = s[k]
<1> DEFINE r == Without(s, i)
<1>1. /\ r \in Seq(S) /\ Len(r) = Len(s) - 1 /\ Len(s) \in Nat
      /\ \A j \in 1..Len(s) - 1 : r[j] = IF j < i THEN s[j] ELSE s[j + 1]
  BY RemoveAtElements
<1> HIDE DEF r
<1>2. Distinct(r)
  BY <1>1 DEF Distinct
<1>3. ASSUME NEW j \in 1..Len(r) PROVE \E k \in 1..Len(s) \ {i} : r[j] = s[k]
  <2>1. CASE j < i
    BY <1>1, <2>1
  <2>2. CASE ~ (j < i)
    <3>1. j + 1 \in 1..Len(s) \ {i} /\ r[j] = s[j + 1]
      BY <1>1, <2>2
    <3> QED
      BY <3>1
  <2> QED
    BY <2>1, <2>2
<1> QED
  BY <1>1, <1>2, <1>3 DEF r

LEMMA TailDistinct ==
  ASSUME NEW S, NEW s \in Seq(S), Distinct(s), s # <<>>
  PROVE  /\ Tail(s) \in Seq(S) /\ Distinct(Tail(s)) /\ Head(s) = s[1] /\ Head(s) \in S
         /\ Len(s) >= 1
         /\ \A j \in 1..Len(Tail(s)) : j + 1 \in 2..Len(s) /\ Tail(s)[j] = s[j + 1] /\ Tail(s)[j] # Head(s)
<1>1. /\ Tail(s) \in Seq(S) /\ Len(Tail(s)) = Len(s) - 1 /\ Head(s) = s[1] /\ Len(s) \in Nat /\ Len(s) # 0
      /\ \A j \in 1..Len(Tail(s)) : Tail(s)[j] = s[j + 1]
  BY HeadTailProperties, EmptySeq
<1>2. 1 \in 1..Len(s) /\ s[1] \in S
  BY <1>1, ElementOfSeq
<1> DEFINE t == Tail(s)
<1> HIDE DEF t
<1>3. Distinct(t) /\ \A j \in 1..Len(t) : j + 1 \in 2..Len(s) /\ t[j] = s[j + 1] /\ t[j] # s[1]
  BY <1>1, <1>2 DEF Distinct, t
<1> QED
  BY <1>1, <1>2, <1>3 DEF t

LEMMA AppendDistinct ==
  ASSUME NEW S, NEW s \in Seq(S), Distinct(s), NEW e \in S, \A i \in 1..Len(s) : s[i] # e
  PROVE  /\ Append(s, e) \in Seq(S) /\ Distinct(Append(s, e)) /\ Len(Append(s, e)) = Len(s) + 1
         /\ \A j \in 1..Len(s) : Append(s, e)[j] = s[j]
         /\ Append(s, e)[Len(s) + 1] = e
<1>1. /\ Append(s, e) \in Seq(S) /\ Len(Append(s, e)) = Len(s) + 1 /\ Len(s) \in Nat
      /\ \A j \in 1..Len(s) : Append(s, e)[j] = s[j]
      /\ Append(s, e)[Len(s) + 1] = e
  BY AppendProperties
<1> DEFINE t == Append(s, e)
<1> HIDE DEF t
<1>2. Distinct(t)
  BY <1>1 DEF Distinct, t
<1> QED
  BY <1>1, <1>2 DEF t

-----------------------------------------------------------------------------
(* The pool of handlers.                                                   *)
HandlerRecord == [peer : BlockPeer, version : {1, 2}, st : {"shaking", "up", "down"}]
UserRecord == [st : {"free", "queued", "holding", "asking", "answered", "direct"},
               h : Nat, req : Nat, got : Nat]
RequestRecord == [h : TheWire!Handler, kind : TheWire!Kind, req : Nat]
(* Only peers of the same network get up, and only handlers that are up,   *)
(* or were, have served their peers.                                       *)
UpIsGood == \A h \in 1..Len(hs) : hs[h].st = "up" => hs[h].peer \in Good
HandlersOK == hs \in Seq(HandlerRecord) /\ Len(hs) <= MaxHandlers /\ UpIsGood
ServedIsGood == \A h \in served : h \in 1..Len(hs) /\ hs[h].peer \in Good

(* The pool and its users: a handler of the pool is of the peer it is kept *)
(* under; who waits in line is queued there once, and waits because no     *)
(* handler is idle; a busy handler has a user that will put it back.       *)
PoolTyped ==
    /\ wireIdle \in [BlockPeer -> Nat] /\ wireBusy \in [BlockPeer -> Nat]
    /\ wireGetters \in Seq(User) /\ user \in [User -> UserRecord] /\ hs \in Seq(HandlerRecord)
Holds(r) == r.st \in {"holding", "asking", "answered"}
UnderItsPeer(f) == \A p \in BlockPeer : f[p] # 0 => f[p] \in 1..Len(hs) /\ hs[f[p]].peer = p
Line ==
    /\ Distinct(wireGetters)
    /\ \A i \in 1..Len(wireGetters) : user[wireGetters[i]].st = "queued"
    /\ wireGetters # <<>> => \A p \in BlockPeer : wireIdle[p] = 0
BusyHeld == \A p \in BlockPeer : wireBusy[p] # 0 => \E u \in User : user[u].h = wireBusy[p] /\ Holds(user[u])
HeldAreMade == \A u \in User : Holds(user[u]) \/ user[u].st = "direct" => user[u].h \in 1..Len(hs)

(* A request that waits is numbered by the requests made, no two alike,    *)
(* and a user that asks nothing has none that waits.                       *)
RequestsTyped ==
    /\ user \in [User -> UserRecord] /\ waiting \in [TheWire!Handler -> [TheWire!Kind -> Nat]]
    /\ asked \in Nat
Waiting(n) == \E h \in TheWire!Handler, k \in TheWire!Kind : waiting[h][k] = n
RequestsNumbered ==
    /\ \A h \in TheWire!Handler, k \in TheWire!Kind : waiting[h][k] <= asked
    /\ \A u \in User : user[u].req <= asked
    /\ \A h, j \in TheWire!Handler : \A k, m \in TheWire!Kind :
         waiting[h][k] = waiting[j][m] /\ waiting[h][k] # 0 => h = j /\ k = m
    /\ \A u \in User : user[u].st \notin {"asking", "direct"} /\ user[u].req # 0 => ~ Waiting(user[u].req)

PoolInv == Line /\ UnderItsPeer(wireIdle) /\ UnderItsPeer(wireBusy) /\ BusyHeld /\ HeldAreMade
WireInv ==
    /\ HandlersOK /\ ServedIsGood /\ PoolTyped /\ PoolInv
    /\ RequestsTyped /\ flight \subseteq RequestRecord /\ RequestsNumbered

LEMMA WireInit == TheWire!Init => WireInv
<1> SUFFICES ASSUME TheWire!Init PROVE WireInv
  OBVIOUS
<1> USE DEF TheWire!Init, TheWire!NoHandler, TheWire!Free
<1>1. PoolTyped /\ RequestsTyped /\ flight \subseteq RequestRecord
  BY DEF PoolTyped, RequestsTyped, UserRecord
<1>2. HandlersOK /\ ServedIsGood
  BY WireConstants DEF HandlersOK, UpIsGood, ServedIsGood
<1>3. PoolInv
  BY DEF PoolInv, Line, Distinct, UnderItsPeer, BusyHeld, HeldAreMade, Holds
<1>4. RequestsNumbered
  BY DEF RequestsNumbered, Waiting
<1> QED
  BY <1>1, <1>2, <1>3, <1>4 DEF WireInv

-----------------------------------------------------------------------------
(* Handlers are made, get up and go down, and keep their peers.            *)
PeersKept ==
    /\ Len(hs') >= Len(hs)
    /\ \A h \in 1..Len(hs) : hs'[h].peer = hs[h].peer

LEMMA EndsHandlers ==
  ASSUME hs \in Seq(HandlerRecord), UpIsGood, NEW H
  PROVE  LET e == TheWire!Ends(H)
         IN  /\ e \in Seq(HandlerRecord) /\ Len(e) = Len(hs)
             /\ \A h \in 1..Len(hs) : e[h].peer = hs[h].peer /\ (e[h].st = "up" => hs[h].st = "up")
<1> DEFINE e == TheWire!Ends(H)
<1>1. e = [h \in 1..Len(hs) |-> IF h \in H THEN [hs[h] EXCEPT !.st = "down"] ELSE hs[h]]
  BY DEF TheWire!Ends, TheWire!Made
<1>2. \A h \in 1..Len(hs) : hs[h] \in HandlerRecord
  BY ElementOfSeq
<1>3. ASSUME NEW h \in 1..Len(hs)
      PROVE  /\ e[h] \in HandlerRecord /\ e[h].peer = hs[h].peer
             /\ e[h].st = "up" => hs[h].st = "up"
  BY <1>1, <1>2 DEF HandlerRecord
<1>4. Len(hs) \in Nat
  BY LenProperties
<1> HIDE DEF e
<1>5. e \in [1..Len(hs) -> HandlerRecord]
  BY <1>1, <1>3
<1>6. e \in Seq(HandlerRecord) /\ Len(e) = Len(hs)
  BY <1>4, <1>5
<1> QED
  BY <1>3, <1>6 DEF e

LEMMA HandlersEnd ==
  ASSUME HandlersOK, NEW H, hs' = TheWire!Ends(H)
  PROVE  HandlersOK' /\ PeersKept
  BY EndsHandlers DEF HandlersOK, UpIsGood, PeersKept

LEMMA HandlerMade ==
  ASSUME HandlersOK, NEW H, NEW p \in BlockPeer, NEW v \in {1, 2}, Len(hs) + 1 <= MaxHandlers,
         hs' = Append(TheWire!Ends(H), [peer |-> p, version |-> v, st |-> "shaking"])
  PROVE  HandlersOK' /\ PeersKept
<1> DEFINE e == TheWire!Ends(H)
           r == [peer |-> p, version |-> v, st |-> "shaking"]
<1>1. /\ e \in Seq(HandlerRecord) /\ Len(e) = Len(hs)
      /\ \A h \in 1..Len(hs) : e[h].peer = hs[h].peer /\ (e[h].st = "up" => hs[h].st = "up")
  BY EndsHandlers DEF HandlersOK
<1>2. r \in HandlerRecord /\ r.st = "shaking"
  BY DEF HandlerRecord
<1> HIDE DEF e, r
<1>3. /\ hs' \in Seq(HandlerRecord) /\ Len(hs') = Len(hs) + 1 /\ Len(hs) \in Nat
      /\ \A h \in 1..Len(hs) : hs'[h] = e[h]
      /\ hs'[Len(hs) + 1] = r
  BY <1>1, <1>2, AppendProperties, LenProperties DEF e, r
<1> QED
  BY <1>1, <1>2, <1>3 DEF HandlersOK, UpIsGood, PeersKept

LEMMA HandlerShaken ==
  ASSUME HandlersOK, NEW h \in 1..Len(hs),
         \/ hs' = [hs EXCEPT ![h].st = "down"]
         \/ hs' = [hs EXCEPT ![h].st = "up"] /\ hs[h].peer \in Good
  PROVE  HandlersOK' /\ PeersKept
<1>1. hs[h] \in HandlerRecord
  BY ElementOfSeq DEF HandlersOK
<1>2. PICK st \in {"up", "down"} :
        hs' = [hs EXCEPT ![h] = [hs[h] EXCEPT !.st = st]] /\ (st = "up" => hs[h].peer \in Good)
  OBVIOUS
<1> DEFINE r == [hs[h] EXCEPT !.st = st]
<1>3. r \in HandlerRecord /\ r.peer = hs[h].peer /\ r.st = st
  BY <1>1 DEF HandlerRecord
<1> HIDE DEF r
<1>4. /\ hs' \in Seq(HandlerRecord) /\ Len(hs') = Len(hs)
      /\ \A j \in 1..Len(hs) : hs'[j] = IF j = h THEN r ELSE hs[j]
  BY <1>2, <1>3, ExceptSeq DEF HandlersOK, r
<1> QED
  BY <1>2, <1>3, <1>4 DEF HandlersOK, UpIsGood, PeersKept

-----------------------------------------------------------------------------
(* What the steps do to the pool.  Most of them take handlers out of it,   *)
(* while those who hold one and those who wait in line go on doing so.     *)
UsersGoOn ==
    \A u \in User :
        /\ Holds(user[u]) => Holds(user'[u]) /\ user'[u].h = user[u].h
        /\ user[u].st = "queued" => user'[u].st = "queued"
        /\ Holds(user'[u]) \/ user'[u].st = "direct" => user'[u].h \in 1..Len(hs)
Shrinks(f, g) == \A p \in BlockPeer : g[p] \in {f[p], 0}

LEMMA PoolShrinks ==
  ASSUME PoolTyped, PoolInv, PoolTyped', PeersKept, UsersGoOn, UNCHANGED wireGetters,
         Shrinks(wireIdle, wireIdle'), Shrinks(wireBusy, wireBusy')
  PROVE  PoolInv'
<1>1. Len(hs) \in Nat /\ Len(hs') \in Nat
  BY LenProperties DEF PoolTyped
<1>2. UnderItsPeer(wireIdle)' /\ UnderItsPeer(wireBusy)'
  BY <1>1 DEF PoolInv, UnderItsPeer, PeersKept, Shrinks
<1>3. HeldAreMade'
  BY <1>1 DEF HeldAreMade, UsersGoOn, PeersKept
<1>4. BusyHeld'
  <2> SUFFICES ASSUME NEW p \in BlockPeer, wireBusy'[p] # 0
               PROVE  \E u \in User : user'[u].h = wireBusy'[p] /\ Holds(user'[u])
    BY Zenon DEF BusyHeld, Holds
  <2>1. wireBusy[p] # 0 /\ wireBusy'[p] = wireBusy[p]
    BY DEF Shrinks
  <2>2. PICK u \in User : user[u].h = wireBusy[p] /\ Holds(user[u])
    BY <2>1 DEF PoolInv, BusyHeld
  <2> QED
    BY <2>1, <2>2 DEF UsersGoOn
<1>5. Line'
  <2>1. \A i \in 1..Len(wireGetters) : wireGetters[i] \in User
    BY ElementOfSeq DEF PoolTyped
  <2> QED
    BY <2>1 DEF PoolInv, Line, UsersGoOn, Shrinks, Distinct
<1> QED
  BY <1>2, <1>3, <1>4, <1>5 DEF PoolInv

(* A handler is given to the first in line, or gets idle.  It is a new one *)
(* or one that its user puts back.                                         *)
LEMMA HandlerAdded ==
  ASSUME PoolTyped, PoolInv, PoolTyped', PeersKept,
         NEW h \in 1..Len(hs), NEW b, TheWire!AddIdle(h, b),
         \/ b = wireBusy /\ user' = TheWire!Resolved(h)
         \/ \E u \in User : /\ Holds(user[u]) /\ user[u].h = h
                            /\ b = [wireBusy EXCEPT ![hs[h].peer] = 0]
                            /\ user' = [TheWire!Resolved(h) EXCEPT ![u] = TheWire!Free]
  PROVE  PoolInv'
<1> DEFINE p == hs[h].peer
           first == Head(wireGetters)
<1>1. Len(hs) \in Nat /\ Len(hs') \in Nat /\ p \in BlockPeer
  <2>1. hs[h] \in HandlerRecord
    BY ElementOfSeq DEF PoolTyped
  <2> QED
    BY <2>1, LenProperties DEF PoolTyped, HandlerRecord
<1> HIDE DEF p
<1>2. /\ b \in [BlockPeer -> Nat] /\ \A q \in BlockPeer : b[q] \in {wireBusy[q], 0}
      /\ \A q \in BlockPeer : q # p => b[q] = wireBusy[q]
  <2>1. b = wireBusy \/ b = [wireBusy EXCEPT ![p] = 0]
    BY Zenon DEF p
  <2>2. wireBusy \in [BlockPeer -> Nat]
    BY DEF PoolTyped
  <2> QED
    BY <1>1, <2>1, <2>2
<1>3. \A q \in BlockPeer : q # p /\ b[q] # 0 => b[q] # h
  BY <1>2 DEF PoolInv, UnderItsPeer, p
<1>4. CASE wireGetters = <<>>
  <2>1. wireIdle' = [wireIdle EXCEPT ![p] = h] /\ wireBusy' = b /\ wireGetters' = <<>>
    BY <1>4 DEF TheWire!AddIdle, p
  <2>2. PICK U \in SUBSET User :
          /\ \A u \in User : user'[u] = IF u \in U THEN TheWire!Free ELSE user[u]
          /\ \A u \in U : user[u].h = h
          /\ U = {} => b = wireBusy
          /\ U # {} => b[p] = 0
    <3>1. CASE user' = user /\ b = wireBusy
      <4>1. {} \in SUBSET User
        OBVIOUS
      <4> QED
        BY <3>1, <4>1
    <3>2. ASSUME NEW u \in User, user[u].h = h, b = [wireBusy EXCEPT ![p] = 0],
                 user' = [user EXCEPT ![u] = TheWire!Free]
          PROVE  \E U \in SUBSET User :
                   /\ \A w \in User : user'[w] = IF w \in U THEN TheWire!Free ELSE user[w]
                   /\ \A w \in U : user[w].h = h
                   /\ U = {} => b = wireBusy
                   /\ U # {} => b[p] = 0
      <4>1. {u} \in SUBSET User
        OBVIOUS
      <4>2. /\ \A w \in User : user'[w] = IF w \in {u} THEN TheWire!Free ELSE user[w]
            /\ \A w \in {u} : user[w].h = h
            /\ {u} # {} /\ b[p] = 0
        BY <1>1, <3>2 DEF PoolTyped
      <4> QED
        BY <4>1, <4>2, Zenon
    <3>3. TheWire!Resolved(h) = user
      BY <1>4 DEF TheWire!Resolved
    <3> QED
      BY <3>1, <3>2, <3>3, Zenon DEF p
  <2>3. Line'
    BY <2>1 DEF Line, Distinct
  <2>4. UnderItsPeer(wireIdle)' /\ UnderItsPeer(wireBusy)'
    <3>1. /\ \A q \in BlockPeer : wireIdle'[q] # 0 => wireIdle'[q] = wireIdle[q] \/ (q = p /\ wireIdle'[q] = h)
          /\ \A q \in BlockPeer : wireBusy'[q] # 0 => wireBusy'[q] = wireBusy[q] \/ (q = p /\ wireBusy'[q] = h)
      BY <1>1, <1>2, <2>1 DEF PoolTyped
    <3>2. \A g \in 1..Len(hs) : g \in 1..Len(hs') /\ hs'[g].peer = hs[g].peer
      BY <1>1 DEF PeersKept
    <3> QED
      BY <3>1, <3>2 DEF PoolInv, UnderItsPeer, p
  <2>5. HeldAreMade'
    BY <1>1, <2>2 DEF PoolInv, HeldAreMade, Holds, PeersKept, TheWire!Free
  <2>6. BusyHeld'
    <3> SUFFICES ASSUME NEW q \in BlockPeer, b[q] # 0
                 PROVE  \E u \in User : user'[u].h = b[q] /\ Holds(user'[u])
      BY <2>1, Zenon DEF BusyHeld, Holds
    <3>1. b[q] = wireBusy[q]
      BY <1>2
    <3>2. PICK u \in User : user[u].h = wireBusy[q] /\ Holds(user[u])
      BY <3>1 DEF PoolInv, BusyHeld
    <3>3. u \notin U
      <4> SUFFICES ASSUME u \in U PROVE FALSE
        OBVIOUS
      <4>1. b[q] = h /\ b[p] = 0
        BY <2>2, <3>1, <3>2
      <4> QED
        BY <1>3, <4>1
    <3> QED
      BY <2>2, <3>1, <3>2, <3>3
  <2> QED
    BY <2>3, <2>4, <2>5, <2>6 DEF PoolInv
<1>5. CASE wireGetters # <<>>
  <2>1. /\ wireIdle' = wireIdle /\ wireBusy' = [b EXCEPT ![p] = h]
        /\ wireGetters' = Tail(wireGetters)
    BY <1>5 DEF TheWire!AddIdle, p
  <2>2. /\ Tail(wireGetters) \in Seq(User) /\ Distinct(Tail(wireGetters)) /\ first = wireGetters[1]
        /\ first \in User /\ Len(wireGetters) >= 1 /\ Len(wireGetters) \in Nat
        /\ \A j \in 1..Len(Tail(wireGetters)) :
             /\ j + 1 \in 2..Len(wireGetters) /\ Tail(wireGetters)[j] = wireGetters[j + 1]
             /\ Tail(wireGetters)[j] # first
    BY <1>5, TailDistinct, LenProperties DEF PoolTyped, PoolInv, Line
  <2>3. user[first].st = "queued"
    BY <2>2 DEF PoolInv, Line
  <2>4. PICK U \in SUBSET User :
          /\ \A u \in User : user'[u] = IF u \in U THEN TheWire!Free
                                      ELSE IF u = first
                                      THEN [TheWire!Free EXCEPT !.st = "holding", !.h = h]
                                      ELSE user[u]
          /\ \A u \in U : user[u].h = h /\ Holds(user[u])
    <3>1. TheWire!Resolved(h) = [user EXCEPT ![first] = [TheWire!Free EXCEPT !.st = "holding", !.h = h]]
      BY <1>5 DEF TheWire!Resolved
    <3>2. CASE user' = TheWire!Resolved(h)
      <4>1. {} \in SUBSET User
        OBVIOUS
      <4>2. \A u \in User : user'[u] = IF u = first
                                      THEN [TheWire!Free EXCEPT !.st = "holding", !.h = h]
                                      ELSE user[u]
        BY <3>1, <3>2 DEF PoolTyped
      <4> QED
        BY <4>1, <4>2
    <3>3. ASSUME NEW u \in User, user[u].h = h, Holds(user[u]),
                 user' = [TheWire!Resolved(h) EXCEPT ![u] = TheWire!Free]
          PROVE  \E U \in SUBSET User :
                   /\ \A w \in User : user'[w] = IF w \in U THEN TheWire!Free
                                               ELSE IF w = first
                                               THEN [TheWire!Free EXCEPT !.st = "holding", !.h = h]
                                               ELSE user[w]
                   /\ \A w \in U : user[w].h = h /\ Holds(user[w])
      <4>1. {u} \in SUBSET User
        OBVIOUS
      <4>2. /\ \A w \in User : user'[w] = IF w \in {u} THEN TheWire!Free
                                          ELSE IF w = first
                                          THEN [TheWire!Free EXCEPT !.st = "holding", !.h = h]
                                          ELSE user[w]
            /\ \A w \in {u} : user[w].h = h /\ Holds(user[w])
        BY <3>1, <3>3 DEF PoolTyped
      <4> QED
        BY <4>1, <4>2, Zenon
    <3> QED
      BY <3>2, <3>3
  <2>5. first \notin U
    BY <2>3, <2>4 DEF Holds
  <2> DEFINE r == [TheWire!Free EXCEPT !.st = "holding", !.h = h]
  <2>6. r.st = "holding" /\ r.h = h
    BY DEF TheWire!Free
  <2> HIDE DEF r
  <2>7. Line'
    <3>1. ASSUME NEW j \in 1..Len(Tail(wireGetters))
          PROVE  user'[Tail(wireGetters)[j]].st = "queued"
      <4> DEFINE w == Tail(wireGetters)[j]
      <4>1. w \in User /\ w # first /\ user[w].st = "queued"
        BY <2>2, ElementOfSeq DEF PoolInv, Line
      <4>2. w \notin U
        BY <2>4, <4>1 DEF Holds
      <4> HIDE DEF w
      <4>3. user'[w] = user[w]
        BY <2>4, <4>1, <4>2
      <4> QED
        BY <4>1, <4>3 DEF w
    <3>2. \A q \in BlockPeer : wireIdle'[q] = 0
      BY <1>5, <2>1 DEF PoolInv, Line
    <3> QED
      BY <2>1, <2>2, <3>1, <3>2 DEF Line
  <2>8. UnderItsPeer(wireIdle)' /\ UnderItsPeer(wireBusy)'
    <3>1. /\ \A q \in BlockPeer : wireIdle'[q] # 0 => wireIdle'[q] = wireIdle[q] \/ (q = p /\ wireIdle'[q] = h)
          /\ \A q \in BlockPeer : wireBusy'[q] # 0 => wireBusy'[q] = wireBusy[q] \/ (q = p /\ wireBusy'[q] = h)
      BY <1>1, <1>2, <2>1 DEF PoolTyped
    <3>2. \A g \in 1..Len(hs) : g \in 1..Len(hs') /\ hs'[g].peer = hs[g].peer
      BY <1>1 DEF PeersKept
    <3> QED
      BY <3>1, <3>2 DEF PoolInv, UnderItsPeer, p
  <2>9. HeldAreMade'
    <3>1. \A u \in User : \/ user'[u] = TheWire!Free
                          \/ user'[u] = r
                          \/ user'[u] = user[u]
      BY <2>4, Zenon DEF r
    <3>2. h \in 1..Len(hs') /\ \A g \in 1..Len(hs) : g \in 1..Len(hs')
      BY <1>1 DEF PeersKept
    <3>3. TheWire!Free.st = "free"
      BY DEF TheWire!Free
    <3> QED
      BY <2>6, <3>1, <3>2, <3>3 DEF PoolInv, HeldAreMade, Holds
  <2>10. BusyHeld'
    <3> SUFFICES ASSUME NEW q \in BlockPeer, wireBusy'[q] # 0
                 PROVE  \E u \in User : user'[u].h = wireBusy'[q] /\ Holds(user'[u])
      BY Zenon DEF BusyHeld, Holds
    <3>1. CASE q = p
      <4>1. user'[first] = r /\ wireBusy'[q] = h
        BY <1>1, <1>2, <2>1, <2>2, <2>4, <2>5, <3>1 DEF r
      <4> QED
        BY <2>2, <2>6, <4>1 DEF Holds
    <3>2. CASE q # p
      <4>1. wireBusy'[q] = b[q] /\ b[q] = wireBusy[q]
        BY <1>2, <2>1, <3>2
      <4>2. PICK u \in User : user[u].h = wireBusy[q] /\ Holds(user[u])
        BY <4>1 DEF PoolInv, BusyHeld
      <4>3. u \notin U /\ u # first
        BY <1>3, <2>3, <2>4, <3>2, <4>1, <4>2 DEF Holds
      <4> QED
        BY <2>4, <4>1, <4>2, <4>3
    <3> QED
      BY <3>1, <3>2
  <2> QED
    BY <2>7, <2>8, <2>9, <2>10 DEF PoolInv
<1> QED
  BY <1>4, <1>5

LEMMA GetPool ==
  ASSUME PoolTyped, PoolInv, PoolTyped', NEW u \in User, TheWire!Get(u)
  PROVE  PoolInv'
<1>1. user[u].st = "free" /\ UNCHANGED hs
  BY DEF TheWire!Get
<1>2. Len(hs) \in Nat /\ Len(hs') = Len(hs) /\ user[u] \in UserRecord
  BY <1>1, LenProperties DEF PoolTyped
<1>3. CASE wireGetters' = Append(wireGetters, u) /\ user' = [user EXCEPT ![u].st = "queued"]
           /\ UNCHANGED <<wireIdle, wireBusy>> /\ \A p \in BlockPeer : wireIdle[p] = 0
  <2>1. \A w \in User \ {u} : user'[w] = user[w]
    BY <1>3 DEF PoolTyped
  <2>2. user'[u].st = "queued"
    BY <1>2, <1>3 DEF PoolTyped, UserRecord
  <2>3. \A i \in 1..Len(wireGetters) : wireGetters[i] # u
    BY <1>1 DEF PoolInv, Line
  <2>4. /\ Distinct(wireGetters') /\ Len(wireGetters') = Len(wireGetters) + 1 /\ Len(wireGetters) \in Nat
        /\ \A j \in 1..Len(wireGetters) : wireGetters'[j] = wireGetters[j]
        /\ wireGetters'[Len(wireGetters) + 1] = u
    BY <1>3, <2>3, AppendDistinct, LenProperties DEF PoolTyped, PoolInv, Line
  <2>5. \A i \in 1..Len(wireGetters) : wireGetters[i] \in User \ {u}
    BY <2>3, ElementOfSeq DEF PoolTyped
  <2>6. Line'
    <3>1. ASSUME NEW j \in 1..Len(wireGetters') PROVE user'[wireGetters'[j]].st = "queued"
      <4>1. CASE j = Len(wireGetters) + 1
        BY <2>2, <2>4, <4>1
      <4>2. CASE j \in 1..Len(wireGetters)
        BY <2>1, <2>4, <2>5, <4>2 DEF PoolInv, Line
      <4> QED
        BY <2>4, <4>1, <4>2
    <3> QED
      BY <1>3, <2>4, <3>1 DEF Line
  <2>7. BusyHeld'
    BY <1>1, <1>3, <2>1 DEF PoolInv, BusyHeld, Holds
  <2>8. HeldAreMade'
    BY <1>1, <2>1, <2>2 DEF PoolInv, HeldAreMade, Holds
  <2> QED
    BY <1>1, <1>3, <2>6, <2>7, <2>8 DEF PoolInv, UnderItsPeer
<1>4. ASSUME NEW p \in BlockPeer, wireIdle[p] # 0, wireIdle' = [wireIdle EXCEPT ![p] = 0],
             wireBusy' = [wireBusy EXCEPT ![p] = wireIdle[p]],
             user' = [user EXCEPT ![u] = [@ EXCEPT !.st = "holding", !.h = wireIdle[p]]],
             UNCHANGED wireGetters
      PROVE  PoolInv'
  <2>1. \A w \in User \ {u} : user'[w] = user[w]
    BY <1>4 DEF PoolTyped
  <2>2. user'[u] = [user[u] EXCEPT !.st = "holding", !.h = wireIdle[p]]
    BY <1>4 DEF PoolTyped
  <2>3. user'[u].st = "holding" /\ user'[u].h = wireIdle[p]
    BY <1>2, <2>2 DEF UserRecord
  <2>4. /\ \A q \in BlockPeer : wireIdle'[q] = IF q = p THEN 0 ELSE wireIdle[q]
        /\ \A q \in BlockPeer : wireBusy'[q] = IF q = p THEN wireIdle[p] ELSE wireBusy[q]
    BY <1>4 DEF PoolTyped
  <2>5. wireGetters = <<>>
    BY <1>4 DEF PoolInv, Line
  <2>6. Line'
    BY <1>4, <2>5 DEF Line, Distinct
  <2>7. BusyHeld'
    BY <1>1, <2>1, <2>3, <2>4 DEF PoolInv, BusyHeld, Holds
  <2>8. wireIdle[p] \in 1..Len(hs) /\ hs[wireIdle[p]].peer = p
    BY <1>4 DEF PoolInv, UnderItsPeer
  <2>9. HeldAreMade'
    BY <1>1, <2>1, <2>3, <2>8 DEF PoolInv, HeldAreMade, Holds
  <2>10. UnderItsPeer(wireIdle)' /\ UnderItsPeer(wireBusy)'
    BY <1>1, <2>4, <2>8 DEF PoolInv, UnderItsPeer
  <2> QED
    BY <2>6, <2>7, <2>9, <2>10 DEF PoolInv
<1> QED
  BY <1>3, <1>4 DEF TheWire!Get, TheWire!NoHandler

LEMMA GetTimeoutPool ==
  ASSUME PoolTyped, PoolInv, PoolTyped', NEW u \in User, TheWire!GetTimeout(u)
  PROVE  PoolInv'
<1>1. /\ user[u].st = "queued" /\ user' = [user EXCEPT ![u] = TheWire!Free]
      /\ UNCHANGED <<hs, wireIdle, wireBusy>>
  BY DEF TheWire!GetTimeout
<1>2. PICK i \in 1..Len(wireGetters) : wireGetters[i] = u /\ wireGetters' = Without(wireGetters, i)
  <2>1. DOMAIN wireGetters = 1..Len(wireGetters)
    BY LenProperties DEF PoolTyped
  <2> QED
    BY <2>1, Zenon DEF TheWire!GetTimeout, TheWire!RemoveAt, Without
<1>3. /\ Distinct(wireGetters') /\ Len(wireGetters') = Len(wireGetters) - 1
      /\ \A j \in 1..Len(wireGetters') : \E k \in 1..Len(wireGetters) \ {i} : wireGetters'[j] = wireGetters[k]
  <2>1. wireGetters \in Seq(User) /\ Distinct(wireGetters)
    BY DEF PoolTyped, PoolInv, Line
  <2> DEFINE w == Without(wireGetters, i)
  <2>2. /\ Distinct(w) /\ Len(w) = Len(wireGetters) - 1
        /\ \A j \in 1..Len(w) : \E k \in 1..Len(wireGetters) \ {i} : w[j] = wireGetters[k]
    BY <2>1, RemoveAtDistinct
  <2> QED
    BY <1>2, <2>2, Zenon
<1>4. \A w \in User \ {u} : user'[w] = user[w]
  BY <1>1 DEF PoolTyped
<1>5. user'[u].st = "free"
  BY <1>1 DEF PoolTyped, TheWire!Free
<1>6. Line'
  <2>1. ASSUME NEW j \in 1..Len(wireGetters') PROVE user'[wireGetters'[j]].st = "queued"
    <3>1. PICK k \in 1..Len(wireGetters) \ {i} : wireGetters'[j] = wireGetters[k]
      BY <1>3
    <3>2. wireGetters[k] \in User /\ wireGetters[k] # u
      BY <1>2, ElementOfSeq DEF PoolTyped, PoolInv, Line, Distinct
    <3> QED
      BY <1>4, <3>1, <3>2 DEF PoolInv, Line
  <2>2. wireGetters # <<>>
    BY <1>2
  <2> QED
    BY <1>1, <1>3, <2>1, <2>2 DEF PoolInv, Line
<1>7. BusyHeld'
  BY <1>1, <1>4 DEF PoolInv, BusyHeld, Holds
<1>8. HeldAreMade'
  BY <1>1, <1>4, <1>5 DEF PoolInv, HeldAreMade, Holds
<1> QED
  BY <1>1, <1>6, <1>7, <1>8 DEF PoolInv, UnderItsPeer

-----------------------------------------------------------------------------
(* What the steps do to the requests: one is sent, or some end.            *)
Asks(r) == r.st \in {"asking", "direct"}

LEMMA RequestsEnd ==
  ASSUME RequestsTyped, RequestsNumbered, RequestsTyped', asked' = asked,
         \A h \in TheWire!Handler, k \in TheWire!Kind : waiting'[h][k] \in {waiting[h][k], 0},
         \A u \in User : user'[u].req \in {user[u].req, 0},
         \A u \in User : ~ Asks(user'[u]) /\ user'[u].req # 0
           => ~ Asks(user[u])
              \/ \A h \in TheWire!Handler, k \in TheWire!Kind : waiting'[h][k] # user'[u].req
  PROVE  RequestsNumbered'
<1>1. \A h \in TheWire!Handler, k \in TheWire!Kind : waiting'[h][k] <= asked'
  BY DEF RequestsTyped, RequestsNumbered
<1>2. \A u \in User : user'[u].req <= asked'
  BY DEF RequestsTyped, RequestsNumbered
<1>3. \A h, j \in TheWire!Handler : \A k, m \in TheWire!Kind :
         waiting'[h][k] = waiting'[j][m] /\ waiting'[h][k] # 0 => h = j /\ k = m
  BY DEF RequestsNumbered
<1>4. ASSUME NEW u \in User, ~ Asks(user'[u]), user'[u].req # 0,
             NEW h \in TheWire!Handler, NEW k \in TheWire!Kind, waiting'[h][k] = user'[u].req
      PROVE  FALSE
  <2>1. ~ Asks(user[u]) /\ user[u].req # 0 /\ waiting[h][k] = user[u].req
    BY <1>4
  <2> QED
    BY <2>1 DEF RequestsNumbered, Waiting, Asks
<1> QED
  BY <1>1, <1>2, <1>3, <1>4 DEF RequestsNumbered, Waiting, Asks

LEMMA RequestSent ==
  ASSUME RequestsTyped, RequestsNumbered, RequestsTyped', NEW u \in User,
         NEW h \in TheWire!Handler, NEW k \in TheWire!Kind, asked' = asked + 1,
         waiting' = [waiting EXCEPT ![h][k] = asked + 1],
         \A w \in User \ {u} : user'[w] = user[w],
         Asks(user'[u]), user'[u].req = asked + 1
  PROVE  RequestsNumbered'
<1>1. \A g \in TheWire!Handler, m \in TheWire!Kind :
        waiting'[g][m] = IF g = h /\ m = k THEN asked + 1 ELSE waiting[g][m]
  BY DEF RequestsTyped
<1>2. \A g \in TheWire!Handler, m \in TheWire!Kind : waiting[g][m] \in Nat /\ waiting[g][m] <= asked
  BY DEF RequestsTyped, RequestsNumbered
<1>3. \A w \in User : user[w].req \in Nat /\ user[w].req <= asked
  BY DEF RequestsTyped, RequestsNumbered, UserRecord
<1>4. asked \in Nat
  BY DEF RequestsTyped
<1>5. \A g, j \in TheWire!Handler : \A m, l \in TheWire!Kind :
         waiting'[g][m] = waiting'[j][l] /\ waiting'[g][m] # 0 => g = j /\ m = l
  BY <1>1, <1>2, <1>4 DEF RequestsNumbered
<1>6. ASSUME NEW w \in User, ~ Asks(user'[w]), user'[w].req # 0,
             NEW g \in TheWire!Handler, NEW m \in TheWire!Kind, waiting'[g][m] = user'[w].req
      PROVE  FALSE
  <2>1. w # u
    BY <1>6
  <2>2. user'[w] = user[w] /\ ~ (g = h /\ m = k)
    BY <1>1, <1>3, <1>4, <1>6, <2>1
  <2> QED
    BY <1>1, <1>6, <2>2 DEF RequestsNumbered, Waiting, Asks
<1>7. \A w \in User : user'[w].req <= asked'
  BY <1>3, <1>4
<1>8. \A g \in TheWire!Handler, m \in TheWire!Kind : waiting'[g][m] <= asked'
  BY <1>1, <1>2, <1>4
<1> QED
  BY <1>5, <1>6, <1>7, <1>8 DEF RequestsNumbered, Waiting, Asks

-----------------------------------------------------------------------------
(* The steps.                                                              *)
LEMMA FreeRecord ==
  /\ TheWire!Free \in UserRecord /\ TheWire!Free.st = "free" /\ TheWire!Free.req = 0
  /\ \A h \in Nat : LET r == [TheWire!Free EXCEPT !.st = "holding", !.h = h]
                    IN  r \in UserRecord /\ r.st = "holding" /\ r.h = h /\ r.req = 0
  /\ \A n, g \in Nat : LET r == [TheWire!Free EXCEPT !.got = g, !.req = n]
                    IN  r \in UserRecord /\ r.st = "free" /\ r.req = n
  BY DEF TheWire!Free, TheWire!NoHandler, UserRecord

LEMMA ServedStays ==
  ASSUME hs \in Seq(HandlerRecord), hs' \in Seq(HandlerRecord), ServedIsGood, PeersKept,
         \A h \in served' \ served : h \in 1..Len(hs) /\ hs[h].peer \in Good
  PROVE  ServedIsGood'
<1>1. Len(hs) \in Nat /\ Len(hs') \in Nat
  BY LenProperties
<1> QED
  BY <1>1 DEF ServedIsGood, PeersKept

LEMMA SameHandlers ==
  ASSUME hs \in Seq(HandlerRecord), HandlersOK, UNCHANGED hs
  PROVE  HandlersOK' /\ PeersKept
<1>1. Len(hs) \in Nat
  BY LenProperties
<1> QED
  BY <1>1 DEF HandlersOK, UpIsGood, PeersKept

(* Handlers end, and whoever waits for their answers is told.              *)
LEMMA RejectedUser ==
  ASSUME NEW H, NEW u \in User, user[u] \in UserRecord, user' = TheWire!Rejected(H)
  PROVE  \/ user'[u] = user[u]
         \/ /\ user[u].st = "asking"
            /\ user'[u] \in UserRecord /\ user'[u].st = "answered" /\ user'[u].req = 0 /\ user'[u].h = user[u].h
         \/ user[u].st = "direct" /\ user'[u] = TheWire!Free
<1>1. user'[u] = IF user[u].h \notin H THEN user[u]
                 ELSE IF user[u].st = "asking" THEN [user[u] EXCEPT !.st = "answered", !.req = 0]
                 ELSE IF user[u].st = "direct" THEN TheWire!Free ELSE user[u]
  BY DEF TheWire!Rejected
<1>2. [user[u] EXCEPT !.st = "answered", !.req = 0] \in UserRecord
  BY DEF UserRecord
<1>3. /\ [user[u] EXCEPT !.st = "answered", !.req = 0].st = "answered"
      /\ [user[u] EXCEPT !.st = "answered", !.req = 0].req = 0
      /\ [user[u] EXCEPT !.st = "answered", !.req = 0].h = user[u].h
  BY DEF UserRecord
<1> QED
  BY <1>1, <1>2, <1>3, Zenon

LEMMA AbortsStep ==
  ASSUME WireInv, NEW H, TheWire!Aborts(H), HandlersOK', PeersKept,
         wireIdle' \in [BlockPeer -> Nat], wireBusy' \in [BlockPeer -> Nat],
         Shrinks(wireIdle, wireIdle'), Shrinks(wireBusy, wireBusy')
  PROVE  WireInv'
<1>1. /\ HandlersOK /\ PoolTyped /\ RequestsTyped /\ flight \subseteq RequestRecord
      /\ ServedIsGood /\ PoolInv /\ RequestsNumbered
  BY DEF WireInv
<1>2. \A u \in User : user[u] \in UserRecord
  BY <1>1 DEF PoolTyped
<1>3. user' = TheWire!Rejected(H) /\ UNCHANGED <<asked, served, wireGetters>>
  BY DEF TheWire!Aborts
<1>4. \A u \in User :
        \/ user'[u] = user[u]
        \/ /\ user[u].st = "asking"
           /\ user'[u] \in UserRecord /\ user'[u].st = "answered" /\ user'[u].req = 0 /\ user'[u].h = user[u].h
        \/ user[u].st = "direct" /\ user'[u] = TheWire!Free
  BY <1>2, <1>3, RejectedUser
<1>5. user' \in [User -> UserRecord]
  <2>1. \A u \in User : user'[u] \in UserRecord
    BY <1>2, <1>4, FreeRecord
  <2>2. user' = [u \in User |-> user'[u]]
    BY <1>3 DEF TheWire!Rejected
  <2> QED
    BY <2>1, <2>2
<1>6. /\ waiting' \in [TheWire!Handler -> [TheWire!Kind -> Nat]]
      /\ \A h \in TheWire!Handler, k \in TheWire!Kind : waiting'[h][k] \in {waiting[h][k], 0}
  BY <1>1 DEF TheWire!Aborts, RequestsTyped
<1>7. UsersGoOn
  BY <1>1, <1>4, FreeRecord DEF UsersGoOn, Holds, PoolInv, HeldAreMade
<1>8. PoolTyped' /\ RequestsTyped' /\ flight' \subseteq RequestRecord
  BY <1>1, <1>3, <1>5, <1>6 DEF PoolTyped, RequestsTyped, HandlersOK, TheWire!Aborts
<1>9. PoolInv'
  BY <1>1, <1>3, <1>7, <1>8, PoolShrinks
<1>10. RequestsNumbered'
  <2>1. \A u \in User : user'[u].req \in {user[u].req, 0}
    BY <1>4, FreeRecord
  <2>2. \A u \in User : ~ Asks(user'[u]) /\ user'[u].req # 0 => ~ Asks(user[u])
    BY <1>4, FreeRecord DEF Asks
  <2> QED
    BY <1>1, <1>3, <1>6, <1>8, <2>1, <2>2, RequestsEnd
<1>11. ServedIsGood'
  BY <1>1, <1>3, ServedStays DEF HandlersOK
<1> QED
  BY <1>8, <1>9, <1>10, <1>11 DEF WireInv

(* HandlerPool.remove takes out what there is.                             *)
LEMMA RemovesShrinks ==
  ASSUME PoolTyped, NEW p, TheWire!Removes(p)
  PROVE  /\ wireIdle' \in [BlockPeer -> Nat] /\ wireBusy' \in [BlockPeer -> Nat]
         /\ Shrinks(wireIdle, wireIdle') /\ Shrinks(wireBusy, wireBusy')
<1>1. wireIdle \in [BlockPeer -> Nat] /\ wireBusy \in [BlockPeer -> Nat]
  BY DEF PoolTyped
<1>2. \/ wireIdle' = [wireIdle EXCEPT ![p] = 0] /\ wireBusy' = wireBusy
      \/ wireBusy' = [wireBusy EXCEPT ![p] = 0] /\ wireIdle' = wireIdle
  BY DEF TheWire!Removes, TheWire!NoHandler
<1> QED
  BY <1>1, <1>2 DEF Shrinks

LEMMA MakeStep ==
  ASSUME WireInv, NEW p \in BlockPeer, NEW v \in {1, 2}, TheWire!Make(p, v)
  PROVE  WireInv'
<1>1. PICK old : /\ Len(hs) + 1 <= MaxHandlers
                 /\ hs' = Append(TheWire!Ends(old), [peer |-> p, version |-> v, st |-> "shaking"])
                 /\ TheWire!Aborts(old)
                 /\ TheWire!Removes(p) \/ UNCHANGED <<wireIdle, wireBusy>>
  BY Zenon DEF TheWire!Make
<1>2. HandlersOK' /\ PeersKept
  BY <1>1, HandlerMade DEF WireInv
<1>3. /\ wireIdle' \in [BlockPeer -> Nat] /\ wireBusy' \in [BlockPeer -> Nat]
      /\ Shrinks(wireIdle, wireIdle') /\ Shrinks(wireBusy, wireBusy')
  <2>1. CASE TheWire!Removes(p)
    BY <2>1, RemovesShrinks DEF WireInv
  <2>2. CASE UNCHANGED <<wireIdle, wireBusy>>
    BY <2>2 DEF WireInv, PoolTyped, Shrinks
  <2> QED
    BY <1>1, <2>1, <2>2
<1> QED
  BY <1>1, <1>2, <1>3, AbortsStep

LEMMA HandlerEnds ==
  ASSUME WireInv, NEW h, hs' = TheWire!Ends({h}), TheWire!Aborts({h}), NEW p, TheWire!Removes(p)
  PROVE  WireInv'
<1>1. HandlersOK' /\ PeersKept
  BY HandlersEnd DEF WireInv
<1>2. /\ wireIdle' \in [BlockPeer -> Nat] /\ wireBusy' \in [BlockPeer -> Nat]
      /\ Shrinks(wireIdle, wireIdle') /\ Shrinks(wireBusy, wireBusy')
  BY RemovesShrinks DEF WireInv
<1> QED
  BY <1>1, <1>2, AbortsStep

(* Steps that leave the handlers and the pool as they are.                 *)
LEMMA PoolStays ==
  ASSUME WireInv, UNCHANGED <<hs, wireIdle, wireBusy, wireGetters>>,
         \A h \in served' \ served : h \in 1..Len(hs) /\ hs[h].peer \in Good,
         user' \in [User -> UserRecord], UsersGoOn, RequestsTyped', flight' \subseteq RequestRecord,
         RequestsNumbered'
  PROVE  WireInv'
<1>1. HandlersOK' /\ PeersKept
  BY SameHandlers DEF WireInv, HandlersOK
<1>2. PoolTyped' /\ Shrinks(wireIdle, wireIdle') /\ Shrinks(wireBusy, wireBusy')
  BY DEF WireInv, PoolTyped, Shrinks
<1>3. PoolInv'
  BY <1>1, <1>2, PoolShrinks DEF WireInv
<1>4. ServedIsGood'
  BY <1>1, ServedStays DEF WireInv, HandlersOK
<1> QED
  BY <1>1, <1>2, <1>3, <1>4 DEF WireInv

LEMMA UsersStay ==
  ASSUME WireInv, UNCHANGED <<hs, user, waiting, asked>>
  PROVE  UsersGoOn /\ user' \in [User -> UserRecord] /\ RequestsTyped' /\ RequestsNumbered'
<1>1. UsersGoOn
  BY DEF WireInv, PoolInv, HeldAreMade, UsersGoOn, Holds
<1>2. user' \in [User -> UserRecord] /\ RequestsTyped'
  BY DEF WireInv, RequestsTyped
<1>3. RequestsNumbered'
  BY DEF WireInv, RequestsNumbered, Waiting
<1> QED
  BY <1>1, <1>2, <1>3

LEMMA GetStep ==
  ASSUME WireInv, NEW u \in User, TheWire!Get(u) \/ TheWire!GetTimeout(u)
  PROVE  WireInv'
<1>1. UNCHANGED <<hs, waiting, flight, asked, served>>
  BY DEF TheWire!Get, TheWire!GetTimeout, TheWire!requests
<1>2. HandlersOK' /\ PeersKept
  BY <1>1, SameHandlers DEF WireInv, HandlersOK
<1>3. user[u] \in UserRecord /\ user[u].st \in {"free", "queued"}
  BY DEF WireInv, PoolTyped, TheWire!Get, TheWire!GetTimeout
<1>4. PICK r \in UserRecord : user' = [user EXCEPT ![u] = r] /\ r.req \in {user[u].req, 0}
  <2>1. CASE user' = [user EXCEPT ![u] = TheWire!Free]
    BY <2>1, FreeRecord
  <2>2. CASE user' = [user EXCEPT ![u].st = "queued"]
    <3>1. [user[u] EXCEPT !.st = "queued"] \in UserRecord /\ [user[u] EXCEPT !.st = "queued"].req = user[u].req
      BY <1>3 DEF UserRecord
    <3> QED
      BY <2>2, <3>1
  <2>3. ASSUME NEW p \in BlockPeer,
               user' = [user EXCEPT ![u] = [@ EXCEPT !.st = "holding", !.h = wireIdle[p]]]
        PROVE  \E r \in UserRecord : user' = [user EXCEPT ![u] = r] /\ r.req \in {user[u].req, 0}
    <3> DEFINE r == [user[u] EXCEPT !.st = "holding", !.h = wireIdle[p]]
    <3>1. wireIdle[p] \in Nat
      BY DEF WireInv, PoolTyped
    <3>2. r \in UserRecord /\ r.req = user[u].req
      BY <1>3, <3>1 DEF UserRecord
    <3>3. user' = [user EXCEPT ![u] = r]
      BY <2>3
    <3> QED
      BY <3>2, <3>3
  <2> QED
    BY <2>1, <2>2, <2>3, Zenon DEF TheWire!Get, TheWire!GetTimeout
<1>5. user' \in [User -> UserRecord] /\ \A w \in User : user'[w] = IF w = u THEN r ELSE user[w]
  BY <1>4 DEF WireInv, PoolTyped
<1>6. PoolTyped' /\ RequestsTyped'
  <2>1. wireIdle' \in [BlockPeer -> Nat] /\ wireBusy' \in [BlockPeer -> Nat]
    <3>1. wireIdle \in [BlockPeer -> Nat] /\ wireBusy \in [BlockPeer -> Nat]
      BY DEF WireInv, PoolTyped
    <3>2. CASE UNCHANGED <<wireIdle, wireBusy>>
      BY <3>1, <3>2
    <3>3. ASSUME NEW p \in BlockPeer, wireIdle' = [wireIdle EXCEPT ![p] = 0],
                 wireBusy' = [wireBusy EXCEPT ![p] = wireIdle[p]]
          PROVE  wireIdle' \in [BlockPeer -> Nat] /\ wireBusy' \in [BlockPeer -> Nat]
      BY <3>1, <3>3
    <3> QED
      BY <3>2, <3>3, Zenon DEF TheWire!Get, TheWire!GetTimeout, TheWire!NoHandler
  <2>2. wireGetters' \in Seq(User)
    <3>1. CASE TheWire!Get(u)
      <4>1. wireGetters \in Seq(User)
        BY DEF WireInv, PoolTyped
      <4>2. wireGetters' = wireGetters \/ wireGetters' = Append(wireGetters, u)
        BY <3>1, Zenon DEF TheWire!Get
      <4> QED
        BY <4>1, <4>2, AppendProperties
    <3>2. CASE TheWire!GetTimeout(u)
      <4>1. wireGetters \in Seq(User) /\ DOMAIN wireGetters = 1..Len(wireGetters)
        BY LenProperties DEF WireInv, PoolTyped
      <4>2. PICK i \in 1..Len(wireGetters) : wireGetters' = Without(wireGetters, i)
        BY <3>2, <4>1, Zenon DEF TheWire!GetTimeout, TheWire!RemoveAt, Without
      <4> QED
        BY <4>1, <4>2, RemoveAtElements
    <3> QED
      BY <3>1, <3>2
  <2> QED
    BY <1>1, <1>5, <2>1, <2>2 DEF WireInv, PoolTyped, RequestsTyped
<1>7. PoolInv'
  BY <1>6, GetPool, GetTimeoutPool DEF WireInv
<1>8. RequestsNumbered'
  <2>1. \A w \in User : user'[w].req \in {user[w].req, 0}
    BY <1>4, <1>5
  <2>2. \A w \in User : ~ Asks(user'[w]) => ~ Asks(user[w])
    BY <1>3, <1>5 DEF Asks
  <2>3. \A h \in TheWire!Handler, k \in TheWire!Kind : waiting'[h][k] \in {waiting[h][k], 0}
    BY <1>1
  <2> QED
    BY <1>1, <1>6, <2>1, <2>2, <2>3, RequestsEnd DEF WireInv
<1>9. ServedIsGood'
  BY <1>1, <1>2, ServedStays DEF WireInv, HandlersOK
<1> QED
  BY <1>1, <1>2, <1>6, <1>7, <1>8, <1>9 DEF WireInv

LEMMA ResolvedUsers ==
  ASSUME PoolTyped, NEW h \in Nat
  PROVE  /\ TheWire!Resolved(h) \in [User -> UserRecord]
         /\ \A w \in User : \/ TheWire!Resolved(h)[w] = user[w]
                            \/ TheWire!Resolved(h)[w].st = "holding" /\ TheWire!Resolved(h)[w].req = 0
<1> DEFINE r == [TheWire!Free EXCEPT !.st = "holding", !.h = h]
<1>1. r \in UserRecord /\ r.st = "holding" /\ r.req = 0
  BY FreeRecord
<1> HIDE DEF r
<1>2. user \in [User -> UserRecord]
  BY DEF PoolTyped
<1> DEFINE e == [user EXCEPT ![Head(wireGetters)] = r]
<1>3. TheWire!Resolved(h) \in {user, e}
  BY DEF TheWire!Resolved, r
<1>4. ASSUME NEW x
      PROVE  /\ [user EXCEPT ![x] = r] \in [User -> UserRecord]
             /\ \A w \in User : [user EXCEPT ![x] = r][w] \in {user[w], r}
  BY <1>1, <1>2
<1>5. e \in [User -> UserRecord] /\ \A w \in User : e[w] \in {user[w], r}
  BY <1>4, Zenon
<1> HIDE DEF e
<1> QED
  BY <1>1, <1>2, <1>3, <1>5

LEMMA AddIdleTyped ==
  ASSUME PoolTyped, NEW h \in 1..Len(hs), NEW b \in [BlockPeer -> Nat], TheWire!AddIdle(h, b)
  PROVE  /\ wireIdle' \in [BlockPeer -> Nat] /\ wireBusy' \in [BlockPeer -> Nat]
         /\ wireGetters' \in Seq(User)
<1>1. /\ wireIdle \in [BlockPeer -> Nat] /\ wireGetters \in Seq(User) /\ h \in Nat
  BY LenProperties DEF PoolTyped
<1>2. CASE wireGetters = <<>>
  BY <1>1, <1>2 DEF TheWire!AddIdle
<1>3. CASE wireGetters # <<>>
  <2>1. Tail(wireGetters) \in Seq(User)
    BY <1>1, <1>3, HeadTailProperties
  <2> QED
    BY <1>1, <1>3, <2>1 DEF TheWire!AddIdle
<1> QED
  BY <1>2, <1>3

(* A handler is added to the pool, by its handshake or by its last user.   *)
LEMMA AddsStep ==
  ASSUME WireInv, HandlersOK', PeersKept, NEW h \in 1..Len(hs), NEW b, TheWire!AddIdle(h, b),
         \/ b = wireBusy /\ user' = TheWire!Resolved(h)
         \/ \E u \in User : /\ Holds(user[u]) /\ user[u].h = h
                            /\ b = [wireBusy EXCEPT ![hs[h].peer] = 0]
                            /\ user' = [TheWire!Resolved(h) EXCEPT ![u] = TheWire!Free],
         UNCHANGED <<waiting, flight, asked>>,
         \A g \in served' \ served : g \in 1..Len(hs) /\ hs[g].peer \in Good
  PROVE  WireInv'
<1>1. PoolTyped /\ h \in Nat /\ hs \in Seq(HandlerRecord)
  BY LenProperties DEF WireInv, PoolTyped
<1>2. b \in [BlockPeer -> Nat]
  <2>1. b = wireBusy \/ b = [wireBusy EXCEPT ![hs[h].peer] = 0]
    BY Zenon
  <2>2. wireBusy \in [BlockPeer -> Nat]
    BY <1>1 DEF PoolTyped
  <2> QED
    BY <2>1, <2>2
<1>3. /\ user' \in [User -> UserRecord]
      /\ \A w \in User : \/ user'[w] = user[w]
                         \/ ~ Asks(user'[w]) /\ user'[w].req = 0
  <2> DEFINE R == TheWire!Resolved(h)
  <2>1. /\ R \in [User -> UserRecord]
        /\ \A w \in User : R[w] = user[w] \/ (R[w].st = "holding" /\ R[w].req = 0)
    BY <1>1, ResolvedUsers, Zenon
  <2>2. user' = R \/ \E u \in User : user' = [R EXCEPT ![u] = TheWire!Free]
    BY Zenon
  <2> HIDE DEF R
  <2>3. CASE user' = R
    BY <2>1, <2>3 DEF Asks
  <2>4. ASSUME NEW u \in User, user' = [R EXCEPT ![u] = TheWire!Free]
        PROVE  /\ user' \in [User -> UserRecord]
               /\ \A w \in User : user'[w] = R[w] \/ user'[w] = TheWire!Free
    BY <2>1, <2>4, FreeRecord
  <2>5. ~ Asks(TheWire!Free) /\ TheWire!Free.req = 0
    BY FreeRecord DEF Asks
  <2>6. \A w \in User : R[w] = user[w] \/ (~ Asks(R[w]) /\ R[w].req = 0)
    BY <2>1 DEF Asks
  <2> QED
    BY <2>1, <2>2, <2>3, <2>4, <2>5, <2>6
<1>4. PoolTyped' /\ RequestsTyped'
  BY <1>1, <1>2, <1>3, AddIdleTyped DEF WireInv, PoolTyped, RequestsTyped, HandlersOK
<1>5. PoolInv'
  BY <1>1, <1>4, HandlerAdded DEF WireInv
<1>6. RequestsNumbered'
  <2>1. \A w \in User : user'[w].req \in {user[w].req, 0}
    BY <1>3
  <2>2. \A w \in User : ~ Asks(user'[w]) /\ user'[w].req # 0 => ~ Asks(user[w])
    BY <1>3
  <2>3. \A g \in TheWire!Handler, k \in TheWire!Kind : waiting'[g][k] \in {waiting[g][k], 0}
    OBVIOUS
  <2> QED
    BY <1>4, <2>1, <2>2, <2>3, RequestsEnd DEF WireInv
<1>7. ServedIsGood'
  BY ServedStays DEF WireInv, HandlersOK
<1> QED
  BY <1>4, <1>5, <1>6, <1>7 DEF WireInv

LEMMA PutStep ==
  ASSUME WireInv, NEW u \in User, TheWire!Put(u)
  PROVE  WireInv'
<1> DEFINE h == user[u].h
<1>1. user[u].st = "answered" /\ UNCHANGED <<hs, waiting, flight, asked, served>>
  BY DEF TheWire!Put, TheWire!requests
<1>2. h \in 1..Len(hs) /\ Holds(user[u])
  BY <1>1 DEF WireInv, PoolInv, HeldAreMade, Holds
<1>3. HandlersOK' /\ PeersKept
  BY <1>1, SameHandlers DEF WireInv, HandlersOK
<1>4. CASE wireBusy[hs[h].peer] # 0
  <2>1. /\ TheWire!AddIdle(h, [wireBusy EXCEPT ![hs[h].peer] = 0])
        /\ user' = [TheWire!Resolved(h) EXCEPT ![u] = TheWire!Free]
    BY <1>4 DEF TheWire!Put, TheWire!NoHandler
  <2> HIDE DEF h
  <2>2. h = user[u].h
    BY DEF h
  <2> QED
    BY <1>1, <1>2, <1>3, <2>1, <2>2, AddsStep
<1>5. CASE wireBusy[hs[h].peer] = 0
  <2>1. user' = [user EXCEPT ![u] = TheWire!Free] /\ UNCHANGED <<wireIdle, wireBusy, wireGetters>>
    BY <1>5 DEF TheWire!Put, TheWire!NoHandler, TheWire!pool
  <2>2. user \in [User -> UserRecord] /\ Len(hs) \in Nat
    BY LenProperties DEF WireInv, PoolTyped
  <2>3. user' \in [User -> UserRecord] /\ \A w \in User : user'[w] = IF w = u THEN TheWire!Free ELSE user[w]
    BY <2>1, <2>2, FreeRecord
  <2>4. PoolTyped' /\ RequestsTyped'
    BY <1>1, <2>1, <2>3 DEF WireInv, PoolTyped, RequestsTyped
  <2>5. Line'
    <3>1. \A i \in 1..Len(wireGetters) : wireGetters[i] \in User /\ wireGetters[i] # u
      BY <1>1, ElementOfSeq DEF WireInv, PoolTyped, PoolInv, Line
    <3> QED
      BY <2>1, <2>3, <3>1 DEF WireInv, PoolInv, Line
  <2>6. HeldAreMade'
    <3>1. \A w \in User : Holds(user'[w]) \/ user'[w].st = "direct" => user'[w] = user[w]
      BY <2>3, FreeRecord DEF Holds
    <3>2. \A w \in User : Holds(user[w]) \/ user[w].st = "direct" => user[w].h \in 1..Len(hs)
      BY DEF WireInv, PoolInv, HeldAreMade
    <3>3. UNCHANGED hs
      BY <1>1
    <3> QED
      BY <3>1, <3>2, <3>3 DEF HeldAreMade, Holds
  <2>7. BusyHeld'
    <3> SUFFICES \A q \in BlockPeer : wireBusy[q] # 0
                   => \E w \in User : user'[w].h = wireBusy[q] /\ Holds(user'[w])
      BY <2>1, ZenonT(40) DEF BusyHeld, Holds
    <3> SUFFICES ASSUME NEW q \in BlockPeer, wireBusy[q] # 0
                 PROVE  \E w \in User : user'[w].h = wireBusy[q] /\ Holds(user'[w])
      OBVIOUS
    <3>1. PICK w \in User : user[w].h = wireBusy[q] /\ Holds(user[w])
      BY DEF WireInv, PoolInv, BusyHeld
    <3>2. hs[wireBusy[q]].peer = q
      BY DEF WireInv, PoolInv, UnderItsPeer
    <3>3. w # u
      BY <1>5, <3>1, <3>2
    <3> QED
      BY <2>3, <3>1, <3>3
  <2>8. PoolInv'
    BY <1>1, <2>1, <2>5, <2>6, <2>7 DEF WireInv, PoolInv, UnderItsPeer
  <2>9. RequestsNumbered'
    <3>1. \A w \in User : user'[w].req \in {user[w].req, 0}
      BY <2>3, FreeRecord
    <3>2. \A w \in User : ~ Asks(user'[w]) /\ user'[w].req # 0 => ~ Asks(user[w])
      BY <2>3, FreeRecord
    <3>3. \A g \in TheWire!Handler, k \in TheWire!Kind : waiting'[g][k] \in {waiting[g][k], 0}
      BY <1>1
    <3> QED
      BY <1>1, <2>4, <3>1, <3>2, <3>3, RequestsEnd DEF WireInv
  <2>10. ServedIsGood'
    BY <1>1, <1>3, ServedStays DEF WireInv, HandlersOK
  <2> QED
    BY <1>1, <1>3, <2>4, <2>8, <2>9, <2>10 DEF WireInv
<1> QED
  BY <1>4, <1>5

LEMMA HandlerDown ==
  ASSUME WireInv, NEW h \in 1..Len(hs), hs' = [hs EXCEPT ![h].st = "down"],
         UNCHANGED <<wireIdle, wireBusy, wireGetters, user, served, waiting, flight, asked>>
  PROVE  WireInv'
<1>1. HandlersOK' /\ PeersKept
  BY HandlerShaken DEF WireInv
<1>2. PoolTyped' /\ RequestsTyped' /\ Shrinks(wireIdle, wireIdle') /\ Shrinks(wireBusy, wireBusy')
  BY <1>1 DEF WireInv, PoolTyped, RequestsTyped, HandlersOK, Shrinks
<1>3. UsersGoOn
  BY DEF WireInv, PoolInv, HeldAreMade, UsersGoOn, Holds
<1>4. PoolInv'
  BY <1>1, <1>2, <1>3, PoolShrinks DEF WireInv
<1>5. ServedIsGood'
  BY <1>1, ServedStays DEF WireInv, HandlersOK
<1>6. RequestsNumbered'
  BY DEF WireInv, RequestsNumbered, Waiting
<1> QED
  BY <1>1, <1>2, <1>4, <1>5, <1>6 DEF WireInv

LEMMA HandshakeResponseStep ==
  ASSUME WireInv, NEW h \in 1..Len(hs), TheWire!HandshakeResponse(h)
  PROVE  WireInv'
<1>1. UNCHANGED <<waiting, flight, asked>>
  BY DEF TheWire!HandshakeResponse, TheWire!requests
<1>2. CASE hs[h].peer \in Good
  <2>1. /\ hs' = [hs EXCEPT ![h].st = "up"] /\ TheWire!AddIdle(h, wireBusy)
        /\ user' = TheWire!Resolved(h) /\ served' = served \cup (held \cap {h})
    BY <1>2 DEF TheWire!HandshakeResponse, TheWire!Accepts
  <2>2. HandlersOK' /\ PeersKept
    BY <1>2, <2>1, HandlerShaken DEF WireInv
  <2>3. \A g \in served' \ served : g \in 1..Len(hs) /\ hs[g].peer \in Good
    BY <1>2, <2>1
  <2> QED
    BY <1>1, <2>1, <2>2, <2>3, AddsStep
<1>3. CASE hs[h].peer \notin Good
  <2>1. /\ hs' = [hs EXCEPT ![h].st = "down"]
        /\ UNCHANGED <<wireIdle, wireBusy, wireGetters, user, served>>
    BY <1>3 DEF TheWire!HandshakeResponse, TheWire!Accepts, TheWire!pool
  <2> QED
    BY <1>1, <2>1, HandlerDown
<1> QED
  BY <1>2, <1>3

LEMMA HandlerInRange ==
  ASSUME HandlersOK, NEW h \in 1..Len(hs)
  PROVE  h \in TheWire!Handler
<1>1. Len(hs) \in Nat /\ Len(hs) <= MaxHandlers
  BY LenProperties DEF HandlersOK
<1> QED
  BY <1>1, WireConstants DEF TheWire!Handler

(* One user goes on, all others as before.                                 *)
LEMMA OneUserGoesOn ==
  ASSUME WireInv, NEW u \in User, NEW r \in UserRecord, user' = [user EXCEPT ![u] = r],
         user[u].st # "queued",
         Holds(user[u]) => Holds(r) /\ r.h = user[u].h,
         Holds(r) \/ r.st = "direct" => r.h \in 1..Len(hs)
  PROVE  /\ user' \in [User -> UserRecord] /\ UsersGoOn
         /\ \A w \in User : user'[w] = IF w = u THEN r ELSE user[w]
<1>1. user \in [User -> UserRecord]
  BY DEF WireInv, PoolTyped
<1>2. user' \in [User -> UserRecord] /\ \A w \in User : user'[w] = IF w = u THEN r ELSE user[w]
  BY <1>1
<1>3. UsersGoOn
  BY <1>2 DEF UsersGoOn, WireInv, PoolInv, HeldAreMade
<1> QED
  BY <1>2, <1>3

LEMMA RequestStep ==
  ASSUME WireInv, NEW u \in User, NEW h \in 1..Len(hs), NEW k \in TheWire!Kind,
         NEW st \in {"asking", "direct"}, TheWire!Request(u, h, k, st),
         st = "asking" => user[u].st = "holding" /\ h = user[u].h,
         st = "direct" => user[u].st = "free",
         UNCHANGED <<hs, wireIdle, wireBusy, wireGetters, held, served>>
  PROVE  WireInv'
<1>1. h \in TheWire!Handler /\ h \in Nat /\ user[u] \in UserRecord
  BY HandlerInRange DEF WireInv, PoolTyped, TheWire!Handler
<1>2. RequestsTyped /\ RequestsNumbered /\ flight \subseteq RequestRecord
  BY DEF WireInv
<1>3. CASE waiting[h][k] # 0
  <2>1. UNCHANGED <<waiting, flight, asked>>
    BY <1>3 DEF TheWire!Request, TheWire!requests
  <2>2. PICK r \in UserRecord :
          /\ user' = [user EXCEPT ![u] = r] /\ ~ Asks(r) /\ r.req \in {user[u].req, 0}
          /\ st = "asking" => r.st = "answered" /\ r.h = h
          /\ st = "direct" => r.st = "free"
    <3>1. CASE st = "direct"
      <4>1. user' = [user EXCEPT ![u] = TheWire!Free]
        BY <1>3, <3>1 DEF TheWire!Request
      <4>2. /\ TheWire!Free \in UserRecord /\ ~ Asks(TheWire!Free)
            /\ TheWire!Free.req = 0 /\ TheWire!Free.st = "free"
        BY FreeRecord DEF Asks
      <4> QED
        BY <3>1, <4>1, <4>2
    <3>2. CASE st = "asking"
      <4> DEFINE r == [user[u] EXCEPT !.st = "answered"]
      <4>1. user' = [user EXCEPT ![u] = r]
        BY <1>3, <3>2 DEF TheWire!Request
      <4>2. r \in UserRecord /\ ~ Asks(r) /\ r.req = user[u].req /\ r.st = "answered" /\ r.h = h
        BY <1>1, <3>2 DEF UserRecord, Asks
      <4> HIDE DEF r
      <4> QED
        BY <3>2, <4>1, <4>2
    <3> QED
      BY <3>1, <3>2
  <2>3. /\ user' \in [User -> UserRecord] /\ UsersGoOn
        /\ \A w \in User : user'[w] = IF w = u THEN r ELSE user[w]
    <3>1. /\ user[u].st # "queued" /\ (Holds(user[u]) => Holds(r) /\ r.h = user[u].h)
          /\ Holds(r) \/ r.st = "direct" => r.h \in 1..Len(hs)
      BY <2>2 DEF Holds
    <3> QED
      BY <2>2, <3>1, OneUserGoesOn
  <2>4. RequestsTyped'
    BY <1>2, <2>1, <2>3 DEF RequestsTyped
  <2>5. RequestsNumbered'
    <3>1. \A w \in User : user'[w].req \in {user[w].req, 0}
      BY <2>2, <2>3
    <3>2. \A w \in User : ~ Asks(user'[w]) /\ user'[w].req # 0 => ~ Asks(user[w])
      BY <2>2, <2>3 DEF Asks
    <3>3. \A g \in TheWire!Handler, m \in TheWire!Kind : waiting'[g][m] \in {waiting[g][m], 0}
      BY <2>1
    <3> QED
      BY <1>2, <2>1, <2>4, <3>1, <3>2, <3>3, RequestsEnd
  <2> QED
    BY <1>2, <2>1, <2>3, <2>4, <2>5, PoolStays
<1>4. CASE waiting[h][k] = 0
  <2> DEFINE r == [st |-> st, h |-> h, req |-> asked + 1, got |-> 0]
  <2>1. /\ asked' = asked + 1 /\ waiting' = [waiting EXCEPT ![h][k] = asked + 1]
        /\ user' = [user EXCEPT ![u] = r]
        /\ flight' \subseteq flight \cup {[h |-> h, kind |-> k, req |-> asked + 1]}
    BY <1>4 DEF TheWire!Request
  <2>2. asked + 1 \in Nat
    BY <1>2 DEF RequestsTyped
  <2>3. /\ r \in UserRecord /\ Asks(r) /\ r.req = asked + 1 /\ r.h = h /\ r.st = st
    BY <1>1, <2>2 DEF UserRecord, Asks
  <2> HIDE DEF r
  <2>4. /\ user' \in [User -> UserRecord] /\ UsersGoOn
        /\ \A w \in User : user'[w] = IF w = u THEN r ELSE user[w]
    <3>1. /\ user[u].st # "queued" /\ (Holds(user[u]) => Holds(r) /\ r.h = user[u].h)
          /\ Holds(r) \/ r.st = "direct" => r.h \in 1..Len(hs)
      BY <2>3 DEF Holds
    <3> QED
      BY <2>1, <2>3, <3>1, OneUserGoesOn
  <2>5. waiting' \in [TheWire!Handler -> [TheWire!Kind -> Nat]] /\ flight' \subseteq RequestRecord
    <3>1. [h |-> h, kind |-> k, req |-> asked + 1] \in RequestRecord
      BY <1>1, <2>2 DEF RequestRecord
    <3> QED
      BY <1>1, <1>2, <2>1, <2>2, <3>1 DEF RequestsTyped
  <2>6. RequestsTyped'
    BY <2>1, <2>2, <2>4, <2>5 DEF RequestsTyped
  <2>7. RequestsNumbered'
    BY <1>1, <1>2, <2>1, <2>3, <2>4, <2>6, RequestSent
  <2> QED
    BY <2>4, <2>5, <2>6, <2>7, PoolStays
<1> QED
  BY <1>3, <1>4

LEMMA AskStep ==
  ASSUME WireInv, NEW u \in User,
         TheWire!Ask(u) \/ \E h \in 1..Len(hs) : TheWire!AskDirectly(u, h)
  PROVE  WireInv'
<1>1. ASSUME TheWire!Ask(u) PROVE WireInv'
  <2>1. /\ user[u].st = "holding" /\ TheWire!Request(u, user[u].h, "bodies", "asking")
        /\ UNCHANGED <<hs, wireIdle, wireBusy, wireGetters, held, served>>
    BY <1>1, Zenon DEF TheWire!Ask, TheWire!pool
  <2>2. user[u].h \in 1..Len(hs) /\ "bodies" \in TheWire!Kind
    BY <2>1 DEF WireInv, PoolInv, HeldAreMade, Holds, TheWire!Kind
  <2> QED
    BY <2>1, <2>2, RequestStep
<1>2. ASSUME NEW h \in 1..Len(hs), TheWire!AskDirectly(u, h) PROVE WireInv'
  <2>1. /\ user[u].st = "free" /\ TheWire!Request(u, h, "headers", "direct")
        /\ UNCHANGED <<hs, wireIdle, wireBusy, wireGetters, held, served>>
    BY <1>2, Zenon DEF TheWire!AskDirectly, TheWire!pool
  <2>2. "headers" \in TheWire!Kind
    BY DEF TheWire!Kind
  <2> QED
    BY <2>1, <2>2, RequestStep
<1> QED
  BY <1>1, <1>2

LEMMA AnswerStep ==
  ASSUME WireInv, NEW f \in flight, TheWire!Answer(f)
  PROVE  WireInv'
<1> DEFINE n == waiting[f.h][f.kind]
<1>1. /\ RequestsTyped /\ RequestsNumbered /\ flight \subseteq RequestRecord
      /\ user \in [User -> UserRecord] /\ HeldAreMade
  BY DEF WireInv, RequestsTyped, PoolInv
<1>2. /\ waiting' = [waiting EXCEPT ![f.h][f.kind] = 0] /\ flight' = flight \ {f}
      /\ user' = [u \in User |-> IF n = 0 \/ user[u].req # n THEN user[u]
                                 ELSE IF user[u].st = "direct" THEN [TheWire!Free EXCEPT !.got = f.req, !.req = n]
                                 ELSE [user[u] EXCEPT !.st = "answered", !.got = f.req]]
      /\ UNCHANGED <<hs, wireIdle, wireBusy, wireGetters, asked, served>>
  BY DEF TheWire!Answer, TheWire!pool
<1>3. f.h \in TheWire!Handler /\ f.kind \in TheWire!Kind /\ f.req \in Nat
  BY <1>1 DEF RequestRecord
<1>4. n \in Nat
  BY <1>1, <1>3 DEF RequestsTyped
<1> HIDE DEF n
<1>5. waiting' \in [TheWire!Handler -> [TheWire!Kind -> Nat]]
  BY <1>1, <1>2, <1>3 DEF RequestsTyped
<1>6. \A h \in TheWire!Handler, k \in TheWire!Kind :
        /\ waiting'[h][k] \in {waiting[h][k], 0}
        /\ n # 0 => waiting'[h][k] # n
  <2>1. \A h \in TheWire!Handler, k \in TheWire!Kind :
          waiting'[h][k] = IF h = f.h /\ k = f.kind THEN 0 ELSE waiting[h][k]
    BY <1>1, <1>2, <1>3 DEF RequestsTyped
  <2> QED
    BY <1>1, <1>3, <2>1 DEF RequestsNumbered, n
<1>7. ASSUME NEW u \in User
      PROVE  \/ user'[u] = user[u]
             \/ /\ user[u].req = n /\ n # 0 /\ user[u].st = "direct"
                /\ user'[u] \in UserRecord /\ user'[u].st = "free" /\ user'[u].req = n
             \/ /\ user[u].req = n /\ n # 0 /\ user[u].st = "asking"
                /\ user'[u] \in UserRecord /\ user'[u].st = "answered" /\ user'[u].req = n
                /\ user'[u].h = user[u].h
  <2>1. user[u] \in UserRecord
    BY <1>1
  <2>2. CASE user'[u] # user[u]
    <3>1. user[u].req = n /\ n # 0
      BY <1>2, <2>2
    <3>2. Asks(user[u])
      BY <1>1, <1>3, <3>1 DEF RequestsNumbered, Waiting, Asks, n
    <3>3. CASE user[u].st = "direct"
      <4>1. user'[u] = [TheWire!Free EXCEPT !.got = f.req, !.req = n]
        BY <1>2, <3>1, <3>3
      <4>2. ASSUME NEW d, d = [TheWire!Free EXCEPT !.got = f.req, !.req = n]
            PROVE  d \in UserRecord /\ d.st = "free" /\ d.req = n
        <5>1. \A m, g \in Nat : [TheWire!Free EXCEPT !.got = g, !.req = m] \in UserRecord
                /\ [TheWire!Free EXCEPT !.got = g, !.req = m].st = "free"
                /\ [TheWire!Free EXCEPT !.got = g, !.req = m].req = m
          BY FreeRecord, Zenon
        <5> QED
          BY <1>3, <1>4, <4>2, <5>1, Zenon
      <4> QED
        BY <3>1, <3>3, <4>1, <4>2, Zenon
    <3>4. CASE user[u].st = "asking"
      <4>1. user'[u] = [user[u] EXCEPT !.st = "answered", !.got = f.req]
        BY <1>2, <3>1, <3>4
      <4>2. /\ user'[u] \in UserRecord /\ user'[u].st = "answered" /\ user'[u].req = user[u].req
            /\ user'[u].h = user[u].h
        BY <1>3, <2>1, <4>1 DEF UserRecord
      <4> QED
        BY <3>1, <3>4, <4>2
    <3> QED
      BY <3>2, <3>3, <3>4 DEF Asks
  <2> QED
    BY <2>2
<1>8. user' \in [User -> UserRecord]
  <2>1. \A u \in User : user'[u] \in UserRecord
    BY <1>1, <1>7
  <2>2. user' = [u \in User |-> user'[u]]
    BY <1>2
  <2> QED
    BY <2>1, <2>2
<1>9. UsersGoOn
  BY <1>1, <1>7 DEF UsersGoOn, Holds, HeldAreMade
<1>10. RequestsTyped' /\ flight' \subseteq RequestRecord
  BY <1>1, <1>2, <1>5, <1>8 DEF RequestsTyped
<1>11. RequestsNumbered'
  <2>1. \A u \in User : user'[u].req \in {user[u].req, 0}
    BY <1>7
  <2>2. \A u \in User : ~ Asks(user'[u]) /\ user'[u].req # 0
           => ~ Asks(user[u])
              \/ \A h \in TheWire!Handler, k \in TheWire!Kind : waiting'[h][k] # user'[u].req
    BY <1>6, <1>7
  <2> QED
    BY <1>1, <1>2, <1>6, <1>10, <2>1, <2>2, RequestsEnd
<1> QED
  BY <1>2, <1>8, <1>9, <1>10, <1>11, PoolStays

LEMMA RequestTimeoutStep ==
  ASSUME WireInv, NEW u \in User, TheWire!RequestTimeout(u)
  PROVE  WireInv'
<1> DEFINE h == user[u].h
<1>1. CASE hs' = TheWire!Ends({h}) /\ TheWire!Aborts({h}) /\ TheWire!Removes(hs[h].peer)
  <2> HIDE DEF h
  <2> QED
    BY <1>1, HandlerEnds
<1>2. CASE /\ waiting' = TheWire!Forgets(h, user[u].req) /\ Asks(user[u])
           /\ \/ user[u].st = "direct" /\ user' = [user EXCEPT ![u] = TheWire!Free]
              \/ user[u].st = "asking" /\ user' = [user EXCEPT ![u] = [@ EXCEPT !.st = "answered", !.req = 0]]
           /\ UNCHANGED <<hs, wireIdle, wireBusy, wireGetters, flight, asked, held, served>>
  <2>1. /\ RequestsTyped /\ RequestsNumbered /\ flight \subseteq RequestRecord
        /\ user \in [User -> UserRecord] /\ HeldAreMade
    BY DEF WireInv, RequestsTyped, PoolInv
  <2>2. PICK r \in UserRecord :
          /\ user' = [user EXCEPT ![u] = r] /\ r.req = 0
          /\ r.st = "free" \/ (r.st = "answered" /\ r.h = h)
          /\ user[u].st = "asking" => r.st = "answered"
    <3>1. CASE user' = [user EXCEPT ![u] = TheWire!Free] /\ user[u].st = "direct"
      BY <3>1, FreeRecord
    <3>2. CASE user' = [user EXCEPT ![u] = [@ EXCEPT !.st = "answered", !.req = 0]]
      <4> DEFINE r == [user[u] EXCEPT !.st = "answered", !.req = 0]
      <4>1. user' = [user EXCEPT ![u] = r]
        BY <3>2
      <4>2. r \in UserRecord /\ r.req = 0 /\ r.st = "answered" /\ r.h = h
        BY <2>1 DEF UserRecord
      <4> HIDE DEF r
      <4> QED
        BY <4>1, <4>2
    <3> QED
      BY <1>2, <3>1, <3>2
  <2>3. /\ user' \in [User -> UserRecord] /\ UsersGoOn
        /\ \A w \in User : user'[w] = IF w = u THEN r ELSE user[w]
    <3>1. /\ user[u].st # "queued" /\ (Holds(user[u]) => Holds(r) /\ r.h = user[u].h)
          /\ Holds(r) \/ r.st = "direct" => r.h \in 1..Len(hs)
      BY <1>2, <2>1, <2>2 DEF Holds, Asks, HeldAreMade
    <3> QED
      BY <2>2, <3>1, OneUserGoesOn
  <2>4. /\ waiting' \in [TheWire!Handler -> [TheWire!Kind -> Nat]]
        /\ \A g \in TheWire!Handler, k \in TheWire!Kind : waiting'[g][k] \in {waiting[g][k], 0}
    BY <1>2, <2>1 DEF TheWire!Forgets, RequestsTyped
  <2>5. RequestsTyped'
    BY <1>2, <2>1, <2>3, <2>4 DEF RequestsTyped
  <2>6. RequestsNumbered'
    <3>1. \A w \in User : user'[w].req \in {user[w].req, 0}
      BY <2>2, <2>3
    <3>2. \A w \in User : ~ Asks(user'[w]) /\ user'[w].req # 0 => ~ Asks(user[w])
      BY <2>2, <2>3
    <3> QED
      BY <1>2, <2>1, <2>4, <2>5, <3>1, <3>2, RequestsEnd
  <2> QED
    BY <1>2, <2>1, <2>3, <2>5, <2>6, PoolStays
<1> QED
  BY <1>1, <1>2 DEF TheWire!RequestTimeout, TheWire!pool, Asks

LEMMA QuietStep ==
  ASSUME WireInv,
         \/ \E h \in 1..Len(hs) : TheWire!Message(h) \/ TheWire!Announce(h)
         \/ \E h \in 1..Len(hs), t \in Tx : TheWire!PeerAnnounces(h, t)
         \/ \E t \in Tx : TheWire!AddTx(t)
         \/ UNCHANGED wireVars
  PROVE  WireInv'
<1>1. UNCHANGED <<hs, wireIdle, wireBusy, wireGetters, user, waiting, flight, asked>>
  BY Zenon DEF TheWire!Message, TheWire!Announce, TheWire!PeerAnnounces, TheWire!AddTx,
     TheWire!pool, TheWire!requests, wireVars
<1>2. \A h \in served' \ served : h \in 1..Len(hs) /\ hs[h].peer \in Good
  <2>1. CASE UNCHANGED served
    BY <2>1
  <2>2. ASSUME NEW h \in 1..Len(hs), hs[h].st = "up", served' = served \cup {h}
        PROVE  \A g \in served' \ served : g \in 1..Len(hs) /\ hs[g].peer \in Good
    BY <2>2 DEF WireInv, HandlersOK, UpIsGood
  <2> QED
    BY <2>1, <2>2, Zenon DEF TheWire!Message, TheWire!Announce, TheWire!PeerAnnounces,
       TheWire!AddTx, TheWire!Up, wireVars
<1>3. UsersGoOn /\ user' \in [User -> UserRecord] /\ RequestsTyped' /\ RequestsNumbered'
  BY <1>1, UsersStay
<1>4. flight' \subseteq RequestRecord
  BY <1>1 DEF WireInv
<1> QED
  BY <1>1, <1>2, <1>3, <1>4, PoolStays

LEMMA WireStep == WireInv /\ [TheWire!Next]_wireVars => WireInv'
<1> SUFFICES ASSUME WireInv, [TheWire!Next]_wireVars PROVE WireInv'
  OBVIOUS
<1> USE DEF TheWire!Made
<1>1. CASE TheWire!Environment
  <2>1. ASSUME NEW h \in 1..Len(hs), TheWire!Abort(h) PROVE WireInv'
    BY <2>1, HandlerEnds DEF TheWire!Abort
  <2> QED
    BY <1>1, <2>1, MakeStep, GetStep, AskStep, QuietStep DEF TheWire!Environment
<1>2. ASSUME NEW h \in 1..Len(hs), TheWire!HandshakeTimeout(h) PROVE WireInv'
  <2>1. /\ hs' = [hs EXCEPT ![h].st = "down"]
        /\ UNCHANGED <<wireIdle, wireBusy, wireGetters, user, served, waiting, flight, asked>>
    BY <1>2, Zenon DEF TheWire!HandshakeTimeout, TheWire!pool, TheWire!requests
  <2> QED
    BY <2>1, HandlerDown
<1> QED
  BY <1>1, <1>2, GetStep, RequestTimeoutStep, PutStep, AskStep, AnswerStep, HandshakeResponseStep,
     QuietStep DEF TheWire!Next

(* Nobody waits in line while a handler is idle, busy handlers are held,   *)
(* and only peers of the same network are served.                          *)
THEOREM PoolCorrect == Spec => []PoolIsFair
<1>1. Init => WireInv
  BY WireInit DEF Init
<1>2. WireInv /\ [Next]_vars => WireInv'
  BY StepOfWire, WireStep
<1>3. WireInv => PoolIsFair
  BY DEF WireInv, PoolInv, Line, BusyHeld, Holds, ServedIsGood, PoolIsFair,
     TheWire!GettersServed, TheWire!BusyIsHeld, TheWire!ServesItsNetwork, TheWire!NoHandler
<1> QED
  BY <1>1, <1>2, <1>3, PTL DEF Spec

-----------------------------------------------------------------------------
(* The least-number principle.                                             *)
LEMMA LeastNatural ==
  ASSUME NEW T \in SUBSET Nat, T # {}
  PROVE  \E x \in T : \A y \in T : x <= y
<1>1. \A R : IsWellFoundedOn(R, Nat) => \E x \in T : \A y \in T : ~ (<<y, x>> \in R)
  BY WFMin
<1>2. PICK Less : /\ IsWellFoundedOn(Less, Nat)
                  /\ \A x, y \in Nat : y < x => <<y, x>> \in Less
  <2>1. \A x, y \in Nat : y < x => <<y, x>> \in OpToRel(<, Nat)
    BY DEF OpToRel
  <2> QED
    BY <2>1, NatLessThanWellFounded, Zenon
<1>3. PICK x \in T : \A y \in T : ~ (<<y, x>> \in Less)
  BY <1>1, <1>2
<1>4. \A y \in T : x <= y
  <2> SUFFICES ASSUME NEW y \in T, ~ (x <= y) PROVE FALSE
    OBVIOUS
  <2>1. x \in Nat /\ y \in Nat /\ y < x
    OBVIOUS
  <2>2. <<y, x>> \in Less
    BY <1>2, <2>1, Zenon
  <2> QED
    BY <1>3, <2>2, Zenon
<1> QED
  BY <1>4

(* The multiples of a number, and what division makes of them.             *)
LEMMA MultiplesGrow ==
  ASSUME NEW a \in Nat, NEW b \in Nat, NEW M \in Nat, a <= b
  PROVE  a * M \in Nat /\ b * M \in Nat /\ a * M <= b * M
  OBVIOUS

LEMMA Division ==
  ASSUME NEW k \in Nat, NEW M \in Nat \ {0}, NEW n \in Nat, k * M <= n
  PROVE  /\ n \div M \in Nat /\ k <= n \div M
         /\ n < k * M + M => n \div M = k
<1> DEFINE q == n \div M
           r == n % M
<1>1. q \in Nat /\ r \in 0..M - 1 /\ n = M * q + r
  OBVIOUS
<1>2. n = q * M + r /\ q * M \in Nat /\ k * M \in Nat
  BY <1>1
<1> HIDE DEF q, r
<1>3. k <= q
  <2> SUFFICES ASSUME q < k PROVE FALSE
    BY <1>1
  <2>1. (q + 1) * M <= k * M /\ (q + 1) * M = q * M + M
    BY <1>1, MultiplesGrow
  <2> QED
    BY <1>1, <1>2, <2>1
<1>4. ASSUME n < k * M + M PROVE q = k
  <2> SUFFICES ASSUME k < q PROVE FALSE
    BY <1>1, <1>3
  <2>1. (k + 1) * M <= q * M /\ (k + 1) * M = k * M + M
    BY <1>1, MultiplesGrow
  <2> QED
    BY <1>1, <1>2, <1>4, <2>1
<1> QED
  BY <1>1, <1>3, <1>4 DEF q

(* The batches of a fetch follow one another.                              *)
LEMMA MinOfTwo ==
  ASSUME NEW a \in Int, NEW b \in Int
  PROVE  Blocks!Min({a, b}) = IF a <= b THEN a ELSE b
<1> DEFINE m == IF a <= b THEN a ELSE b
<1>1. m \in {a, b} /\ \A y \in {a, b} : m <= y
  OBVIOUS
<1>2. \A x \in {a, b} : (\A y \in {a, b} : x <= y) => x = m
  OBVIOUS
<1> HIDE DEF m
<1>3. Blocks!Min({a, b}) = CHOOSE x \in {a, b} : \A y \in {a, b} : x <= y
  BY DEF Blocks!Min
<1>4. Blocks!Min({a, b}) = m
  BY <1>1, <1>2, <1>3
<1> QED
  BY <1>4 DEF m

FirstAt(s, k) == s + k * MaxGetBlockHeaders
LastAt(s, k) == IF FirstAt(s, k) + MaxGetBlockHeaders <= Height
                THEN FirstAt(s, k) + MaxGetBlockHeaders - 1 ELSE Height
InBatch(s, k, n) == k \in Blocks!Batch /\ FirstAt(s, k) <= n /\ n <= LastAt(s, k)

LEMMA BatchesFollow ==
  ASSUME NEW s \in Nat \ {0}, NEW k \in Nat
  PROVE  /\ FirstAt(s, k) \in Nat \ {0} /\ FirstAt(s, 0) = s
         /\ FirstAt(s, k + 1) = FirstAt(s, k) + MaxGetBlockHeaders
         /\ \A j \in Nat : k <= j => FirstAt(s, k) <= FirstAt(s, j)
         /\ FirstAt(s, k) <= Height => k \in Blocks!Batch
<1> DEFINE M == MaxGetBlockHeaders
<1>1. M \in Nat \ {0} /\ Height \in Nat
  BY BlockConstants
<1>2. \A j \in Nat : FirstAt(s, j) = s + j * M /\ j * M \in Nat
  BY <1>1 DEF FirstAt
<1>3. FirstAt(s, 0) = s /\ (k + 1) * M = k * M + M
  BY <1>1, <1>2
<1>4. FirstAt(s, k + 1) = FirstAt(s, k) + M
  BY <1>1, <1>2, <1>3
<1>5. ASSUME NEW j \in Nat, k <= j PROVE FirstAt(s, k) <= FirstAt(s, j)
  <2>1. k * M <= j * M
    BY <1>1, <1>5, MultiplesGrow
  <2> QED
    BY <1>2, <2>1
<1>6. ASSUME FirstAt(s, k) <= Height PROVE k \in Blocks!Batch
  <2>1. k * M <= Height
    BY <1>1, <1>2, <1>6
  <2>2. Height \div M \in Nat /\ k <= Height \div M
    BY <1>1, <2>1, Division
  <2> QED
    BY <2>2 DEF Blocks!Batch
<1> QED
  BY <1>1, <1>2, <1>3, <1>4, <1>5, <1>6

LEMMA BatchesOf ==
  ASSUME start \in Nat \ {0}, NEW k \in Nat
  PROVE  /\ Blocks!First(k) = FirstAt(start, k) /\ Blocks!LastOf(k) = LastAt(start, k)
         /\ \A n \in Int : InBatch(start, k, n) => Blocks!BatchOf(n) = k
<1> DEFINE M == MaxGetBlockHeaders
<1>1. M \in Nat \ {0} /\ Height \in Nat
  BY BlockConstants
<1>2. Blocks!First(k) = FirstAt(start, k)
  BY DEF Blocks!First, FirstAt
<1>3. FirstAt(start, k) \in Nat
  BY BatchesFollow
<1>4. Blocks!LastOf(k) = LastAt(start, k)
  <2>1. FirstAt(start, k) + M - 1 \in Int /\ Height \in Int
    BY <1>1, <1>3
  <2>2. Blocks!LastOf(k) = IF Height <= FirstAt(start, k) + M - 1 THEN Height ELSE FirstAt(start, k) + M - 1
    BY <1>2, <2>1, MinOfTwo, Zenon DEF Blocks!LastOf
  <2> QED
    BY <1>1, <1>3, <2>2 DEF LastAt
<1>5. ASSUME NEW n \in Int, InBatch(start, k, n) PROVE Blocks!BatchOf(n) = k
  <2>1. FirstAt(start, k) <= n /\ n < FirstAt(start, k) + M
    BY <1>1, <1>3, <1>5 DEF InBatch, LastAt
  <2>2. FirstAt(start, k) = start + k * M /\ k * M \in Nat
    BY <1>1 DEF FirstAt
  <2>3. n - start \in Nat /\ k * M <= n - start /\ n - start < k * M + M
    BY <1>1, <2>1, <2>2
  <2>4. (n - start) \div M = k
    BY <1>1, <2>3, Division
  <2> QED
    BY <2>4 DEF Blocks!BatchOf
<1> QED
  BY <1>2, <1>4, <1>5

LEMMA SizeOfInterval ==
  ASSUME NEW a \in Nat, NEW m \in Nat
  PROVE  Cardinality(a..a + m - 1) = m
<1>1. a \in Int /\ a + m - 1 \in Int
  OBVIOUS
<1>2. Cardinality(a..a + m - 1) = IF a > a + m - 1 THEN 0 ELSE a + m - 1 - a + 1
  <2> DEFINE b == a + m - 1
  <2>1. b \in Int
    OBVIOUS
  <2> HIDE DEF b
  <2>2. Cardinality(a..b) = IF a > b THEN 0 ELSE b - a + 1
    BY <1>1, <2>1, FS_Interval
  <2> QED
    BY <2>2 DEF b
<1> QED
  BY <1>2

(* What a priority channel hands on: the batches in order up to the first  *)
(* that is missing.                                                        *)
LEMMA ReadiesInOrder ==
  ASSUME chan.processed \in Nat, NEW heap \in SUBSET Blocks!Batch,
         \A j \in heap : j >= chan.processed
  PROVE  \E m \in Nat : /\ Blocks!Readies(heap) = [i \in 1..m |-> chan.processed + i - 1]
                        /\ chan.processed..chan.processed + m - 1 \subseteq heap
                        /\ chan.processed + m \notin heap
<1> DEFINE P == chan.processed
           Gaps == {m \in Nat : P + m \notin heap}
           S == {j \in heap : P..j \subseteq heap}
<1>1. heap \subseteq Nat /\ P \in Nat
  BY DEF Blocks!Batch
<1>2. Gaps # {}
  <2>1. Height \div MaxGetBlockHeaders \in Nat
    BY BlockConstants
  <2>2. P + (Height \div MaxGetBlockHeaders) + 1 \notin heap
    BY <1>1, <2>1 DEF Blocks!Batch
  <2>3. (Height \div MaxGetBlockHeaders) + 1 \in Gaps
    BY <1>1, <2>1, <2>2
  <2> QED
    BY <2>3
<1>3. PICK m \in Gaps : \A x \in Gaps : m <= x
  BY <1>2, LeastNatural
<1>4. ASSUME NEW j \in P..P + m - 1 PROVE j \in heap
  <2>1. j - P \in Nat /\ j - P < m /\ P + (j - P) = j
    BY <1>1, <1>3
  <2> QED
    BY <1>3, <2>1
<1>5. S = P..P + m - 1
  <2>1. ASSUME NEW j \in S PROVE j \in P..P + m - 1
    <3>1. j \in Nat /\ j >= P /\ P..j \subseteq heap
      BY <1>1
    <3>2. P + m \notin P..j
      BY <1>3, <3>1
    <3> QED
      BY <1>1, <1>3, <3>1, <3>2
  <2>2. ASSUME NEW j \in P..P + m - 1 PROVE j \in S
    BY <1>1, <1>3, <1>4, <2>2
  <2> QED
    BY <2>1, <2>2
<1>6. Cardinality(S) = m
  BY <1>1, <1>3, <1>5, SizeOfInterval
<1>7. Blocks!Readies(heap) = [i \in 1..m |-> P + i - 1]
  <2>1. Blocks!Cardinality(S) = Cardinality(S)
    BY Zenon DEF Blocks!Cardinality, Cardinality
  <2> QED
    BY <1>6, <2>1 DEF Blocks!Readies
<1> HIDE DEF S
<1> QED
  BY <1>3, <1>4, <1>7

-----------------------------------------------------------------------------
(* The download of blocks.                                                 *)
TaskRecord == [st : {"none", "get", "waiting", "asking", "queued", "done"}, peer : BlockPeer \cup {None}]
ChannelRecord == [heap : SUBSET Blocks!Batch, ready : Seq(Blocks!Batch), processed : Nat]
FetchTyped ==
    /\ start \in Nat \ {0} /\ nextBatch \in Nat /\ task \in [Blocks!Batch -> TaskRecord]
    /\ getters \in Seq(Blocks!Batch) /\ chan \in ChannelRecord /\ loop \in Int /\ head \in Nat

(* Only batches of the chain are started, one after the other, and headers *)
(* are asked for while there are any.                                      *)
Started == \A k \in Blocks!Batch :
    task[k].st # "none" => k < nextBatch /\ FirstAt(start, k) <= Height
HeadersGoOn == header # "done" => sched = "fetch" /\ FirstAt(start, nextBatch) <= Height

(* A handler is taken by a batch that asks its peer, or kept aside.  A     *)
(* batch stands in line once, and only while it waits.                     *)
InLine == Distinct(getters) /\ \A i \in 1..Len(getters) : task[getters[i]].st = "waiting"
HandlersKept ==
    /\ idle \cup busy \cup fetchBanned = BlockPeer
    /\ sched # "idle" => target \in BlockPeer
    /\ \A k \in Blocks!Batch : task[k].st = "asking" => task[k].peer \in BlockPeer
BusyAsked == \A p \in busy :
    p \in useless \/ \E k \in Blocks!Batch : task[k].st = "asking" /\ task[k].peer = p
Rests == sched # "fetch" =>
    /\ busy = {} /\ getters = <<>> /\ header = "done"
    /\ \A k \in Blocks!Batch : task[k].st \in {"none", "done"}

(* The loop commits a block of a batch that has arrived, whose parent is   *)
(* there.                                                                  *)
Arrived(k) == task[k].st \in {"queued", "done"}
LoopInOrder == sched = "fetch" /\ loop > 0 =>
    loop <= head + 1 /\ \E k \in Blocks!Batch : Arrived(k) /\ InBatch(start, k, loop)
(* Batches that are ready follow the one being committed, and those in the *)
(* heap come after a gap.                                                  *)
ReadyInOrder ==
    /\ Len(chan.ready) <= chan.processed
    /\ \A i \in 1..Len(chan.ready) : chan.ready[i] = chan.processed - Len(chan.ready) + i - 1
LoopFollows ==
    \/ /\ loop = Blocks!Waiting /\ chan.ready = <<>>
       /\ FirstAt(start, chan.processed) <= Height => FirstAt(start, chan.processed) <= head + 1
    \/ loop > 0 /\ InBatch(start, chan.processed - Len(chan.ready) - 1, loop)
ChannelInOrder == sched = "fetch" /\ ~ aborted =>
    /\ \A j \in chan.heap : j > chan.processed /\ task[j].st = "queued"
    /\ \A j \in Blocks!Batch : j < chan.processed => Arrived(j)
    /\ ReadyInOrder /\ LoopFollows

TasksInv == Started /\ HeadersGoOn /\ InLine
HandlersInv == HandlersKept /\ BusyAsked /\ Rests
OrderInv == LoopInOrder /\ ChannelInOrder
FetchInv == FetchTyped /\ TasksInv /\ HandlersInv /\ OrderInv

LEMMA NoTaskTyped == Blocks!NoTask \in TaskRecord /\ Blocks!NoTask.st = "none"
  BY DEF Blocks!NoTask, TaskRecord

LEMMA DoneTyped == Blocks!Done \in TaskRecord /\ Blocks!Done.st = "done"
  BY DEF Blocks!Done, TaskRecord

LEMMA AskingTyped ==
  ASSUME NEW p \in BlockPeer
  PROVE  Blocks!Asking(p) \in TaskRecord /\ Blocks!Asking(p).st = "asking" /\ Blocks!Asking(p).peer = p
  BY DEF Blocks!Asking, TaskRecord

LEMMA FetchInit == Blocks!Init => FetchInv
<1> SUFFICES ASSUME Blocks!Init PROVE FetchInv
  OBVIOUS
<1> USE DEF Blocks!Init
<1>1. FetchTyped
  <2>1. <<>> \in Seq(Blocks!Batch)
    OBVIOUS
  <2>2. task \in [Blocks!Batch -> TaskRecord]
    BY NoTaskTyped
  <2>3. chan \in ChannelRecord
    BY <2>1 DEF ChannelRecord, Blocks!Empty
  <2> QED
    BY <2>1, <2>2, <2>3 DEF FetchTyped, Blocks!Ended
<1>2. \A k \in Blocks!Batch : task[k].st = "none"
  BY NoTaskTyped
<1>3. TasksInv
  BY <1>2 DEF TasksInv, Started, HeadersGoOn, InLine, Distinct
<1>4. HandlersInv
  BY <1>2 DEF HandlersInv, HandlersKept, BusyAsked, Rests
<1>5. OrderInv
  BY DEF OrderInv, LoopInOrder, ChannelInOrder
<1> QED
  BY <1>1, <1>3, <1>4, <1>5 DEF FetchInv

(* Nothing the invariant is about, or nothing but the scheduler while no   *)
(* fetch runs.                                                             *)
LEMMA FetchStays ==
  ASSUME FetchInv,
         UNCHANGED <<start, nextBatch, task, getters, chan, loop, idle, busy, useless, fetchBanned, aborted>>,
         head' \in Nat, head' >= head, header' = "done" \/ header # "done",
         \/ sched' = sched /\ target' = target
         \/ sched # "fetch" /\ sched' # "fetch" /\ (sched' # "idle" => target' \in BlockPeer)
  PROVE  FetchInv'
<1>1. FetchTyped'
  BY DEF FetchInv, FetchTyped
<1>2. sched' = "fetch" <=> sched = "fetch"
  OBVIOUS
<1>3. header' # "done" => header # "done"
  OBVIOUS
<1>4. TasksInv'
  BY <1>2, <1>3 DEF FetchInv, TasksInv, Started, HeadersGoOn, InLine, Rests, HandlersInv
<1>5. HandlersInv'
  <2>1. HandlersKept'
    BY DEF FetchInv, HandlersInv, HandlersKept
  <2>2. BusyAsked'
    BY DEF FetchInv, HandlersInv, BusyAsked
  <2>3. Rests'
    BY <1>2, <1>3 DEF FetchInv, HandlersInv, Rests
  <2> QED
    BY <2>1, <2>2, <2>3 DEF HandlersInv
<1>6. LoopInOrder'
  <2> SUFFICES ASSUME sched' = "fetch", loop' > 0
               PROVE  loop <= head' + 1 /\ \E k \in Blocks!Batch : Arrived(k) /\ InBatch(start, k, loop)
    BY DEF LoopInOrder, Arrived
  <2>1. loop <= head + 1 /\ \E k \in Blocks!Batch : Arrived(k) /\ InBatch(start, k, loop)
    BY <1>2 DEF FetchInv, OrderInv, LoopInOrder
  <2>2. loop <= head' + 1
    <3>1. loop \in Int /\ head \in Int /\ head' \in Int
      BY DEF FetchInv, FetchTyped
    <3>2. loop <= head + 1
      BY <2>1
    <3>3. ASSUME NEW a \in Int, NEW b \in Int, NEW c \in Int, a <= b + 1, c >= b PROVE a <= c + 1
      BY <3>3
    <3> QED
      BY <3>1, <3>2, <3>3
  <2> QED
    BY <2>1, <2>2
<1>7. ChannelInOrder'
  <2> SUFFICES ASSUME sched' = "fetch", ~ aborted'
               PROVE  /\ \A j \in chan.heap : j > chan.processed /\ task[j].st = "queued"
                      /\ \A j \in Blocks!Batch : j < chan.processed => Arrived(j)
                      /\ ReadyInOrder' /\ LoopFollows'
    BY DEF ChannelInOrder, Arrived
  <2>1. /\ \A j \in chan.heap : j > chan.processed /\ task[j].st = "queued"
        /\ \A j \in Blocks!Batch : j < chan.processed => Arrived(j)
        /\ ReadyInOrder /\ LoopFollows
    BY <1>2 DEF FetchInv, OrderInv, ChannelInOrder
  <2>2. ReadyInOrder'
    BY <2>1 DEF ReadyInOrder
  <2>3. LoopFollows'
    <3>1. FirstAt(start, chan.processed) \in Nat
      BY BatchesFollow DEF FetchInv, FetchTyped, ChannelRecord
    <3> QED
      BY <2>1, <3>1 DEF LoopFollows, Blocks!Waiting, FetchInv, FetchTyped
  <2> QED
    BY <2>1, <2>2, <2>3
<1> QED
  BY <1>1, <1>4, <1>5, <1>6, <1>7 DEF FetchInv, OrderInv

LEMMA SchedulerStep ==
  ASSUME FetchInv,
         \/ \E p \in BlockPeer : Blocks!FullSync(p)
         \/ Blocks!NothingToFetch \/ Blocks!HeadersArrive \/ Blocks!ConsensusCommits
         \/ Blocks!ShutdownEnds \/ UNCHANGED blockVars
  PROVE  FetchInv'
<1>1. head \in Nat
  BY DEF FetchInv, FetchTyped
<1>2. ASSUME NEW p \in BlockPeer, Blocks!FullSync(p) PROVE FetchInv'
  BY <1>1, <1>2, FetchStays DEF Blocks!FullSync, Blocks!pool
<1>3. CASE Blocks!NothingToFetch
  BY <1>1, <1>3, FetchStays DEF Blocks!NothingToFetch, Blocks!pool
<1>4. CASE Blocks!HeadersArrive
  BY <1>1, <1>4, FetchStays DEF Blocks!HeadersArrive, Blocks!pool
<1>5. CASE Blocks!ConsensusCommits
  BY <1>1, <1>5, FetchStays DEF Blocks!ConsensusCommits, Blocks!pool
<1>6. CASE Blocks!ShutdownEnds
  BY <1>1, <1>6, FetchStays DEF Blocks!ShutdownEnds, Blocks!pool
<1>7. CASE UNCHANGED blockVars
  BY <1>1, <1>7, FetchStays DEF blockVars
<1> QED
  BY <1>2, <1>3, <1>4, <1>5, <1>6, <1>7

LEMMA StartFetchStep ==
  ASSUME FetchInv, Blocks!StartFetch
  PROVE  FetchInv'
<1>1. /\ sched = "ancient" /\ head < Height /\ sched' = "fetch" /\ start' = head + 1 /\ ~ aborted'
      /\ chan' = Blocks!Empty /\ loop' = Blocks!Waiting /\ header' = "asking" /\ nextBatch' = 0
      /\ task' = [k \in Blocks!Batch |-> Blocks!NoTask]
      /\ UNCHANGED <<target, idle, busy, getters, useless, fetchBanned, head>>
  BY DEF Blocks!StartFetch, Blocks!pool
<1>2. /\ busy = {} /\ getters = <<>> /\ target \in BlockPeer /\ head \in Nat /\ Height \in Nat
  BY <1>1, BlockConstants DEF FetchInv, FetchTyped, HandlersInv, HandlersKept, Rests
<1>3. \A k \in Blocks!Batch : task'[k].st = "none"
  BY <1>1, NoTaskTyped
<1>4. start' \in Nat \ {0} /\ FirstAt(start', 0) = start'
  <2>1. start' \in Nat \ {0}
    BY <1>1, <1>2
  <2>2. \A s \in Nat \ {0} : FirstAt(s, 0) = s
    BY BatchesFollow
  <2> QED
    BY <2>1, <2>2
<1>5. /\ chan'.heap = {} /\ chan'.ready = <<>> /\ chan'.processed = 0 /\ Len(chan'.ready) = 0
      /\ chan' \in ChannelRecord
  <2>1. <<>> \in Seq(Blocks!Batch) /\ Len(<<>>) = 0
    OBVIOUS
  <2> QED
    BY <1>1, <2>1 DEF Blocks!Empty, ChannelRecord
<1>6. FetchTyped'
  <2>1. task' \in [Blocks!Batch -> TaskRecord]
    BY <1>1, NoTaskTyped
  <2> QED
    BY <1>1, <1>2, <1>4, <1>5, <2>1 DEF FetchInv, FetchTyped, Blocks!Waiting
<1>7. TasksInv'
  <2>1. Started'
    BY <1>3 DEF Started
  <2>2. HeadersGoOn'
    BY <1>1, <1>2, <1>4 DEF HeadersGoOn
  <2>3. InLine'
    BY <1>1, <1>2 DEF InLine, Distinct
  <2> QED
    BY <2>1, <2>2, <2>3 DEF TasksInv
<1>8. HandlersInv'
  <2>1. HandlersKept'
    BY <1>1, <1>2, <1>3 DEF FetchInv, HandlersInv, HandlersKept
  <2> QED
    BY <1>1, <1>2, <2>1 DEF HandlersInv, BusyAsked, Rests
<1>9. OrderInv'
  <2>1. LoopInOrder'
    BY <1>1 DEF LoopInOrder, Blocks!Waiting
  <2>2. ReadyInOrder' /\ LoopFollows'
    BY <1>1, <1>2, <1>4, <1>5 DEF ReadyInOrder, LoopFollows
  <2>3. ChannelInOrder'
    BY <1>5, <2>2 DEF ChannelInOrder, Blocks!Batch
  <2> QED
    BY <2>1, <2>3 DEF OrderInv
<1> QED
  BY <1>6, <1>7, <1>8, <1>9 DEF FetchInv

-----------------------------------------------------------------------------
(* A fetch that is aborted: batches that arrived are dropped, the others   *)
(* go on by themselves.                                                    *)
LEMMA FetchAborted ==
  ASSUME FetchInv, NEW t \in [Blocks!Batch -> TaskRecord],
         \A j \in Blocks!Batch :
            t[j] = task[j] \/ (t[j] = Blocks!Done /\ task[j].st \in {"waiting", "queued", "done"}),
         aborted', chan' = Blocks!Empty, task' = Blocks!Drops(t),
         loop' = loop \/ loop' = Blocks!Ended,
         header' = "done" \/ header' = header,
         UNCHANGED <<sched, target, start, nextBatch, head, useless>>,
         getters' \in Seq(Blocks!Batch), Distinct(getters'),
         \A i \in 1..Len(getters') : \E m \in 1..Len(getters) :
            getters'[i] = getters[m] /\ t[getters[m]] = task[getters[m]],
         busy' \subseteq busy, idle' \cup busy' \cup fetchBanned' = BlockPeer,
         \A p \in busy \ busy' : p \in fetchBanned'
  PROVE  FetchInv'
<1>1. \A j \in Blocks!Batch : task'[j] = t[j] \/ (t[j].st = "queued" /\ task'[j] = Blocks!Done)
  BY DEF Blocks!Drops
<1>2. task' \in [Blocks!Batch -> TaskRecord]
  BY DoneTyped DEF Blocks!Drops
<1>3. chan' \in ChannelRecord
  BY EmptySeq DEF Blocks!Empty, ChannelRecord
<1>4. \A j \in Blocks!Batch :
        /\ task'[j] = task[j] \/ (task'[j].st = "done" /\ task[j].st \in {"waiting", "queued", "done"})
        /\ task[j].st = "waiting" /\ t[j] = task[j] => task'[j].st = "waiting"
  BY <1>1, DoneTyped
<1>5. loop' \in Int /\ (loop' > 0 => loop' = loop)
  BY DEF FetchInv, FetchTyped, Blocks!Ended
<1>6. FetchTyped'
  BY <1>2, <1>3, <1>5 DEF FetchInv, FetchTyped
<1>7. TasksInv'
  <2>1. Started'
    BY <1>4 DEF FetchInv, TasksInv, Started
  <2>2. HeadersGoOn'
    BY DEF FetchInv, TasksInv, HeadersGoOn
  <2>3. \A m \in 1..Len(getters) : getters[m] \in Blocks!Batch /\ task[getters[m]].st = "waiting"
    BY ElementOfSeq DEF FetchInv, FetchTyped, TasksInv, InLine
  <2>4. ASSUME NEW i \in 1..Len(getters') PROVE task'[getters'[i]].st = "waiting"
    <3>1. PICK m \in 1..Len(getters) : getters'[i] = getters[m] /\ t[getters[m]] = task[getters[m]]
      OBVIOUS
    <3> QED
      BY <1>4, <2>3, <3>1
  <2> QED
    BY <2>1, <2>2, <2>4 DEF TasksInv, InLine
<1>8. HandlersInv'
  <2>1. HandlersKept'
    BY <1>4 DEF FetchInv, HandlersInv, HandlersKept
  <2>2. BusyAsked'
    BY <1>4 DEF FetchInv, HandlersInv, BusyAsked
  <2>3. ASSUME sched # "fetch" PROVE busy = {} /\ Len(getters) = 0 /\ header = "done"
                                     /\ \A k \in Blocks!Batch : task[k].st \in {"none", "done"}
    BY <2>3 DEF FetchInv, HandlersInv, Rests
  <2>4. ASSUME sched # "fetch" PROVE getters' = <<>>
    <3>1. Len(getters') \in Nat /\ (Len(getters') # 0 => 1 \in 1..Len(getters'))
      BY LenProperties
    <3>2. Len(getters') = 0
      BY <2>3, <2>4, <3>1
    <3> QED
      BY <3>2, EmptySeq
  <2>5. Rests'
    BY <1>4, <2>3, <2>4 DEF Rests
  <2> QED
    BY <2>1, <2>2, <2>5 DEF HandlersInv
<1>9. LoopInOrder'
  <2> SUFFICES ASSUME sched' = "fetch", loop' > 0
               PROVE  loop' <= head' + 1 /\ \E k \in Blocks!Batch : Arrived(k)' /\ InBatch(start', k, loop')
    BY DEF LoopInOrder
  <2>1. loop' = loop /\ sched = "fetch" /\ loop > 0
    BY <1>5
  <2>2. loop <= head + 1
    BY <2>1 DEF FetchInv, OrderInv, LoopInOrder
  <2>3. PICK k \in Blocks!Batch : Arrived(k) /\ InBatch(start, k, loop)
    BY <2>1 DEF FetchInv, OrderInv, LoopInOrder
  <2>4. Arrived(k)'
    BY <1>4, <2>3 DEF Arrived
  <2> QED
    BY <2>1, <2>2, <2>3, <2>4
<1>10. ChannelInOrder'
  BY DEF ChannelInOrder
<1> QED
  BY <1>6, <1>7, <1>8, <1>9, <1>10 DEF FetchInv, OrderInv

LEMMA PeersOfFetch ==
  ASSUME FetchInv
  PROVE  /\ task \in [Blocks!Batch -> TaskRecord] /\ getters \in Seq(Blocks!Batch) /\ Distinct(getters)
         /\ \A m \in 1..Len(getters) : getters[m] \in Blocks!Batch /\ task[getters[m]].st = "waiting"
         /\ idle \cup busy \cup fetchBanned = BlockPeer
         /\ loop \in Int
  BY ElementOfSeq DEF FetchInv, FetchTyped, TasksInv, InLine, HandlersInv, HandlersKept

LEMMA StopStep ==
  ASSUME FetchInv,
         Blocks!Shutdown \/ \E why \in {"useless", "invalid", "timeout", "abort"} : Blocks!HeadersFail(why)
  PROVE  FetchInv'
<1>1. CASE Blocks!Shutdown /\ sched = "idle"
  <2>1. head \in Nat
    BY DEF FetchInv, FetchTyped
  <2> QED
    BY <1>1, <2>1, FetchStays DEF Blocks!Shutdown, Blocks!Goes, Blocks!pool
<1>2. CASE Blocks!Shutdown /\ sched # "idle"
  <2>1. /\ aborted' /\ chan' = Blocks!Empty /\ task' = Blocks!Drops(task) /\ loop' = Blocks!LoopStopped
        /\ UNCHANGED <<sched, target, start, header, nextBatch, getters, idle, busy, useless, fetchBanned, head>>
    BY <1>2 DEF Blocks!Shutdown, Blocks!Aborts, Blocks!pool
  <2>2. loop' = loop \/ loop' = Blocks!Ended
    BY <2>1 DEF Blocks!LoopStopped
  <2> QED
    BY <2>1, <2>2, PeersOfFetch, FetchAborted
<1>3. ASSUME NEW why \in {"useless", "invalid", "timeout", "abort"}, Blocks!HeadersFail(why) PROVE FetchInv'
  <2>1. /\ header = "asking" /\ header' = "done"
        /\ aborted' /\ chan' = Blocks!Empty /\ task' = Blocks!Drops(task) /\ loop' = Blocks!LoopStopped
        /\ UNCHANGED <<sched, target, start, nextBatch, getters, useless, head>>
        /\ Blocks!Bans(target) \/ UNCHANGED <<idle, busy, fetchBanned>>
    BY <1>3 DEF Blocks!HeadersFail, Blocks!Aborts
  <2>2. loop' = loop \/ loop' = Blocks!Ended
    BY <2>1 DEF Blocks!LoopStopped
  <2>3. target \in BlockPeer
    BY <2>1 DEF FetchInv, TasksInv, HeadersGoOn, HandlersInv, HandlersKept
  <2>4. /\ busy' \subseteq busy /\ idle' \cup busy' \cup fetchBanned' = BlockPeer
        /\ \A p \in busy \ busy' : p \in fetchBanned'
    BY <2>1, <2>3, PeersOfFetch DEF Blocks!Bans
  <2> QED
    BY <2>1, <2>2, <2>4, PeersOfFetch, FetchAborted
<1> QED
  BY <1>1, <1>2, <1>3

-----------------------------------------------------------------------------
(* One batch moves on, to what has not arrived.                            *)
LEMMA BatchMoves ==
  ASSUME FetchInv, NEW k \in Blocks!Batch, NEW r \in TaskRecord, task' = [task EXCEPT ![k] = r],
         r.st # "none", task[k].st \notin {"queued", "done"} \/ r.st = "done",
         UNCHANGED <<sched, target, start, aborted, chan, loop, head>>
  PROVE  /\ task' \in [Blocks!Batch -> TaskRecord]
         /\ \A j \in Blocks!Batch : task'[j] = IF j = k THEN r ELSE task[j]
         /\ LoopInOrder'
         /\ task[k].st # "queued" => ChannelInOrder'
<1>1. task' \in [Blocks!Batch -> TaskRecord] /\ \A j \in Blocks!Batch : task'[j] = IF j = k THEN r ELSE task[j]
  BY DEF FetchInv, FetchTyped
<1>2. \A j \in Blocks!Batch : Arrived(j) => Arrived(j)'
  BY <1>1 DEF Arrived
<1>3. LoopInOrder'
  BY <1>2 DEF FetchInv, OrderInv, LoopInOrder
<1>4. ASSUME task[k].st # "queued" PROVE ChannelInOrder'
  <2> SUFFICES ASSUME sched' = "fetch", ~ aborted'
               PROVE  /\ \A j \in chan.heap : j > chan.processed /\ task'[j].st = "queued"
                      /\ \A j \in Blocks!Batch : j < chan.processed => Arrived(j)'
                      /\ ReadyInOrder' /\ LoopFollows'
    BY DEF ChannelInOrder
  <2>1. /\ \A j \in chan.heap : j > chan.processed /\ task[j].st = "queued"
        /\ \A j \in Blocks!Batch : j < chan.processed => Arrived(j)
        /\ ReadyInOrder /\ LoopFollows
    BY DEF FetchInv, OrderInv, ChannelInOrder
  <2>2. chan.heap \subseteq Blocks!Batch
    BY DEF FetchInv, FetchTyped, ChannelRecord
  <2>3. ReadyInOrder' /\ LoopFollows'
    BY <2>1 DEF ReadyInOrder, LoopFollows
  <2> QED
    BY <1>1, <1>2, <1>4, <2>1, <2>2, <2>3
<1> QED
  BY <1>1, <1>3, <1>4

LEMMA StartBodiesStep ==
  ASSUME FetchInv, Blocks!StartBodies
  PROVE  FetchInv'
<1> DEFINE r == IF aborted THEN Blocks!Done ELSE [st |-> "get", peer |-> None]
<1>a. /\ header = "slot" /\ nextBatch' = nextBatch + 1
      /\ header' = IF aborted \/ Blocks!First(nextBatch + 1) > Height THEN "done" ELSE "asking"
      /\ task' = [task EXCEPT ![nextBatch] = r]
      /\ UNCHANGED <<sched, target, start, aborted, getters, idle, busy, chan, loop, useless, fetchBanned, head>>
  BY Zenon DEF Blocks!StartBodies, Blocks!pool
<1>b. Blocks!First(nextBatch + 1) \in Int /\ Height \in Int
  BY BlockConstants, BatchesOf, BatchesFollow DEF FetchInv, FetchTyped, Blocks!First
<1>1. /\ header = "slot" /\ nextBatch' = nextBatch + 1
      /\ header' = "asking" => Blocks!First(nextBatch + 1) <= Height
      /\ header' \in {"asking", "done"}
      /\ task' = [task EXCEPT ![nextBatch] = r]
      /\ UNCHANGED <<sched, target, start, aborted, getters, idle, busy, chan, loop, useless, fetchBanned, head>>
  <2> HIDE DEF r
  <2> QED
    BY <1>a, <1>b
<1>2. /\ start \in Nat \ {0} /\ nextBatch \in Nat /\ sched = "fetch"
      /\ FirstAt(start, nextBatch) <= Height
  BY <1>1 DEF FetchInv, FetchTyped, TasksInv, HeadersGoOn
<1>3. nextBatch \in Blocks!Batch
  BY <1>2, BatchesFollow
<1>4. r \in TaskRecord /\ r.st \in {"get", "done"}
  BY DoneTyped DEF TaskRecord
<1> HIDE DEF r
<1>5. task[nextBatch].st = "none"
  BY <1>2, <1>3 DEF FetchInv, TasksInv, Started
<1>6. /\ task' \in [Blocks!Batch -> TaskRecord]
      /\ \A j \in Blocks!Batch : task'[j] = IF j = nextBatch THEN r ELSE task[j]
      /\ LoopInOrder' /\ ChannelInOrder'
  BY <1>1, <1>3, <1>4, <1>5, BatchMoves
<1>7. FetchTyped'
  BY <1>1, <1>6 DEF FetchInv, FetchTyped
<1>8. TasksInv'
  <2>1. Started'
    BY <1>1, <1>2, <1>6 DEF FetchInv, TasksInv, Started, Blocks!Batch
  <2>2. HeadersGoOn'
    <3>1. Blocks!First(nextBatch + 1) = FirstAt(start, nextBatch + 1)
      BY <1>2, BatchesOf
    <3> QED
      BY <1>1, <1>2, <3>1 DEF HeadersGoOn
  <2>3. InLine'
    <3>1. \A m \in 1..Len(getters) : getters[m] # nextBatch
      BY <1>5, PeersOfFetch
    <3> QED
      BY <1>1, <1>6, <3>1, PeersOfFetch DEF InLine
  <2> QED
    BY <2>1, <2>2, <2>3 DEF TasksInv
<1>9. HandlersInv'
  <2>1. HandlersKept'
    BY <1>1, <1>4, <1>6 DEF FetchInv, HandlersInv, HandlersKept
  <2>2. BusyAsked'
    BY <1>1, <1>5, <1>6 DEF FetchInv, HandlersInv, BusyAsked
  <2> QED
    BY <1>1, <1>2, <2>1, <2>2 DEF HandlersInv, Rests
<1> QED
  BY <1>6, <1>7, <1>8, <1>9 DEF FetchInv, OrderInv

LEMMA GetHandlerStep ==
  ASSUME FetchInv, NEW k \in Blocks!Batch, Blocks!GetHandler(k)
  PROVE  FetchInv'
<1>1. /\ task[k].st = "get" /\ UNCHANGED <<sched, target, start, aborted, header, nextBatch, chan, loop,
                                           useless, fetchBanned, head>>
  BY DEF Blocks!GetHandler
<1>2. PICK r \in TaskRecord :
        /\ task' = [task EXCEPT ![k] = r]
        /\ \/ /\ r.st = "waiting" /\ getters' = Append(getters, k) /\ UNCHANGED <<idle, busy>>
           \/ /\ r.st = "asking" /\ r.peer \in BlockPeer /\ UNCHANGED getters
              /\ idle' = idle \ {r.peer} /\ busy' = busy \cup {r.peer}
  <2>1. CASE idle # {}
    <3>1. PICK p \in idle : /\ idle' = idle \ {p} /\ busy' = busy \cup {p} /\ UNCHANGED getters
                            /\ task' = [task EXCEPT ![k] = Blocks!Asking(p)]
      BY <2>1 DEF Blocks!GetHandler
    <3>2. p \in BlockPeer
      BY PeersOfFetch
    <3> QED
      BY <3>1, <3>2, AskingTyped
  <2>2. CASE idle = {}
    <3> DEFINE w == [task[k] EXCEPT !.st = "waiting"]
    <3>1. /\ task' = [task EXCEPT ![k] = w] /\ getters' = Append(getters, k) /\ UNCHANGED <<idle, busy>>
      BY <2>2 DEF Blocks!GetHandler
    <3>2. w \in TaskRecord /\ w.st = "waiting"
      BY DEF FetchInv, FetchTyped, TaskRecord
    <3> HIDE DEF w
    <3> QED
      BY <3>1, <3>2
  <2> QED
    BY <2>1, <2>2
<1>3. /\ task' \in [Blocks!Batch -> TaskRecord]
      /\ \A j \in Blocks!Batch : task'[j] = IF j = k THEN r ELSE task[j]
      /\ LoopInOrder' /\ ChannelInOrder'
  BY <1>1, <1>2, BatchMoves
<1>4. sched = "fetch"
  BY <1>1 DEF FetchInv, HandlersInv, Rests
<1>5. /\ getters' \in Seq(Blocks!Batch) /\ Distinct(getters')
      /\ \A i \in 1..Len(getters') : getters'[i] \in Blocks!Batch /\ task'[getters'[i]].st = "waiting"
  <2>1. \A m \in 1..Len(getters) : getters[m] # k /\ getters[m] \in Blocks!Batch /\ task[getters[m]].st = "waiting"
    BY <1>1, PeersOfFetch
  <2>2. CASE UNCHANGED getters
    BY <1>3, <2>1, <2>2, PeersOfFetch
  <2>3. CASE r.st = "waiting" /\ getters' = Append(getters, k)
    <3> DEFINE g == Append(getters, k)
    <3>1. /\ g \in Seq(Blocks!Batch) /\ Distinct(g) /\ Len(g) = Len(getters) + 1 /\ Len(getters) \in Nat
          /\ \A j \in 1..Len(getters) : g[j] = getters[j]
          /\ g[Len(getters) + 1] = k
      BY <2>1, PeersOfFetch, AppendDistinct
    <3> HIDE DEF g
    <3>2. \A i \in 1..Len(g) : g[i] \in Blocks!Batch /\ task'[g[i]].st = "waiting"
      BY <1>3, <2>1, <2>3, <3>1
    <3> QED
      BY <2>3, <3>1, <3>2 DEF g
  <2> QED
    BY <1>2, <2>2, <2>3
<1>6. FetchTyped'
  BY <1>1, <1>3, <1>5 DEF FetchInv, FetchTyped
<1>7. TasksInv'
  <2>1. Started'
    BY <1>1, <1>3 DEF FetchInv, TasksInv, Started
  <2>2. HeadersGoOn'
    BY <1>1 DEF FetchInv, TasksInv, HeadersGoOn
  <2> QED
    BY <1>5, <2>1, <2>2 DEF TasksInv, InLine
<1>8. HandlersInv'
  <2>1. HandlersKept'
    BY <1>1, <1>2, <1>3 DEF FetchInv, HandlersInv, HandlersKept
  <2>2. BusyAsked'
    <3> SUFFICES ASSUME NEW p \in busy', p \notin useless
                 PROVE  \E j \in Blocks!Batch : task'[j].st = "asking" /\ task'[j].peer = p
      BY <1>1 DEF BusyAsked
    <3>1. CASE p \in busy
      <4>1. PICK j \in Blocks!Batch : task[j].st = "asking" /\ task[j].peer = p
        BY <3>1 DEF FetchInv, HandlersInv, BusyAsked
      <4> QED
        BY <1>1, <1>3, <4>1
    <3>2. CASE p \notin busy
      BY <1>2, <1>3, <3>2
    <3> QED
      BY <3>1, <3>2
  <2> QED
    BY <1>1, <1>4, <2>1, <2>2 DEF HandlersInv, Rests
<1> QED
  BY <1>3, <1>6, <1>7, <1>8 DEF FetchInv, OrderInv

LEMMA GetterTimeoutStep ==
  ASSUME FetchInv, NEW k \in Blocks!Batch, Blocks!GetterTimeout(k)
  PROVE  FetchInv'
<1> DEFINE t == [task EXCEPT ![k] = Blocks!Done]
<1>1. /\ aborted' /\ chan' = Blocks!Empty /\ task' = Blocks!Drops(t) /\ loop' = Blocks!LoopStopped
      /\ UNCHANGED <<sched, target, start, header, nextBatch, idle, busy, useless, fetchBanned, head>>
  BY DEF Blocks!GetterTimeout, Blocks!Aborts
<1>2. loop' = loop \/ loop' = Blocks!Ended
  BY <1>1 DEF Blocks!LoopStopped
<1>3. PICK i \in 1..Len(getters) : getters[i] = k /\ getters' = Without(getters, i)
  <2>1. DOMAIN getters = 1..Len(getters)
    BY LenProperties, PeersOfFetch
  <2> QED
    BY <2>1, Zenon DEF Blocks!GetterTimeout, Blocks!RemoveAt, Without
<1>4. task[k].st = "waiting"
  BY <1>3, PeersOfFetch
<1>5. t \in [Blocks!Batch -> TaskRecord] /\ \A j \in Blocks!Batch : t[j] = IF j = k THEN Blocks!Done ELSE task[j]
  BY DoneTyped, PeersOfFetch
<1> HIDE DEF t
<1>6. /\ getters' \in Seq(Blocks!Batch) /\ Distinct(getters')
      /\ \A m \in 1..Len(getters') : \E j \in 1..Len(getters) \ {i} : getters'[m] = getters[j]
  <2> DEFINE w == Without(getters, i)
  <2>1. /\ w \in Seq(Blocks!Batch) /\ Distinct(w)
        /\ \A m \in 1..Len(w) : \E j \in 1..Len(getters) \ {i} : w[m] = getters[j]
    BY PeersOfFetch, RemoveAtDistinct
  <2> QED
    BY <1>3, <2>1, Zenon
<1>7. ASSUME NEW m \in 1..Len(getters')
      PROVE  \E j \in 1..Len(getters) : getters'[m] = getters[j] /\ t[getters[j]] = task[getters[j]]
  <2>1. PICK j \in 1..Len(getters) \ {i} : getters'[m] = getters[j]
    BY <1>6
  <2>2. getters[j] \in Blocks!Batch /\ getters[j] # k
    BY <1>3, PeersOfFetch DEF Distinct
  <2> QED
    BY <1>5, <2>1, <2>2
<1>8. /\ busy' \subseteq busy /\ idle' \cup busy' \cup fetchBanned' = BlockPeer
      /\ \A p \in busy \ busy' : p \in fetchBanned'
  BY <1>1, PeersOfFetch
<1>9. \A j \in Blocks!Batch :
         t[j] = task[j] \/ (t[j] = Blocks!Done /\ task[j].st \in {"waiting", "queued", "done"})
  BY <1>4, <1>5
<1> QED
  BY <1>1, <1>2, <1>5, <1>6, <1>7, <1>8, <1>9, FetchAborted

(* The batch whose blocks are committed.                                   *)
LEMMA BatchCommitted ==
  ASSUME FetchInv, Blocks!Committing
  PROVE  /\ sched = "fetch" /\ loop \in Nat \ {0} /\ loop <= head + 1
         /\ Blocks!BatchOf(loop) \in Blocks!Batch /\ Arrived(Blocks!BatchOf(loop))
         /\ InBatch(start, Blocks!BatchOf(loop), loop)
         /\ \A k \in Nat : InBatch(start, k, loop) => Blocks!BatchOf(loop) = k
<1>1. sched = "fetch" /\ loop > 0 /\ loop \in Int /\ start \in Nat \ {0}
  BY DEF Blocks!Committing, Blocks!Ended, FetchInv, FetchTyped
<1>2. loop <= head + 1
  BY <1>1 DEF FetchInv, OrderInv, LoopInOrder
<1>3. PICK k \in Blocks!Batch : Arrived(k) /\ InBatch(start, k, loop)
  BY <1>1 DEF FetchInv, OrderInv, LoopInOrder
<1>4. \A j \in Nat : InBatch(start, j, loop) => Blocks!BatchOf(loop) = j
  BY <1>1, BatchesOf
<1>5. Blocks!BatchOf(loop) = k
  BY <1>3, <1>4 DEF Blocks!Batch
<1> QED
  BY <1>1, <1>2, <1>3, <1>4, <1>5

LEMMA CommitFailsStep ==
  ASSUME FetchInv, NEW invalid \in BOOLEAN, Blocks!CommitFails(invalid)
  PROVE  FetchInv'
<1> DEFINE k == Blocks!BatchOf(loop)
           t == [task EXCEPT ![k] = Blocks!Done]
<1>1. /\ aborted' /\ chan' = Blocks!Empty /\ task' = Blocks!Drops(t) /\ loop' = Blocks!Ended
      /\ UNCHANGED <<sched, target, start, header, nextBatch, getters, idle, busy, useless, fetchBanned, head>>
  BY DEF Blocks!CommitFails, Blocks!pool
<1>2. k \in Blocks!Batch /\ task[k].st \in {"queued", "done"}
  BY BatchCommitted DEF Blocks!CommitFails, Arrived
<1>3. t \in [Blocks!Batch -> TaskRecord] /\ \A j \in Blocks!Batch : t[j] = IF j = k THEN Blocks!Done ELSE task[j]
  BY DoneTyped, PeersOfFetch
<1> HIDE DEF k, t
<1>4. \A m \in 1..Len(getters) : t[getters[m]] = task[getters[m]]
  BY <1>2, <1>3, PeersOfFetch
<1>5. \A j \in Blocks!Batch :
         t[j] = task[j] \/ (t[j] = Blocks!Done /\ task[j].st \in {"waiting", "queued", "done"})
  BY <1>2, <1>3
<1>6. /\ getters' \in Seq(Blocks!Batch) /\ Distinct(getters')
      /\ \A i \in 1..Len(getters') : \E m \in 1..Len(getters) :
            getters'[i] = getters[m] /\ t[getters[m]] = task[getters[m]]
  BY <1>1, <1>4, PeersOfFetch
<1>7. /\ busy' \subseteq busy /\ idle' \cup busy' \cup fetchBanned' = BlockPeer
      /\ \A p \in busy \ busy' : p \in fetchBanned'
  BY <1>1, PeersOfFetch
<1> QED
  BY <1>1, <1>3, <1>5, <1>6, <1>7, FetchAborted

LEMMA FetchEndsStep ==
  ASSUME FetchInv, Blocks!FetchEnds
  PROVE  FetchInv'
<1>1. /\ sched = "fetch" /\ header = "done" /\ Blocks!Running = {} /\ sched' = "idle"
      /\ loop' = Blocks!Ended /\ chan' = Blocks!Empty /\ useless' = {}
      /\ UNCHANGED <<target, start, header, nextBatch, task, getters, head>>
  BY DEF Blocks!FetchEnds
<1>2. PICK out \in SUBSET {target} :
        /\ idle' = (idle \cup (useless \cap busy)) \ out /\ busy' = (busy \ useless) \ out
        /\ fetchBanned' = fetchBanned \cup out
  BY DEF Blocks!FetchEnds, Blocks!PutBack
<1>3. \A k \in Blocks!Batch : task[k].st \in {"none", "done"}
  BY <1>1 DEF Blocks!Running
<1>4. getters = <<>>
  <2>1. Len(getters) \in Nat /\ (Len(getters) # 0 => 1 \in 1..Len(getters))
    BY LenProperties, PeersOfFetch
  <2>2. Len(getters) = 0
    BY <1>3, <2>1, PeersOfFetch
  <2> QED
    BY <2>2, EmptySeq, PeersOfFetch
<1>5. busy \subseteq useless
  BY <1>3 DEF FetchInv, HandlersInv, BusyAsked
<1>6. target \in BlockPeer
  BY <1>1 DEF FetchInv, HandlersInv, HandlersKept
<1>7. FetchTyped'
  <2>1. chan' \in ChannelRecord
    BY <1>1, EmptySeq DEF ChannelRecord, Blocks!Empty
  <2> QED
    BY <1>1, <2>1 DEF FetchInv, FetchTyped, Blocks!Ended
<1>8. TasksInv'
  BY <1>1 DEF FetchInv, TasksInv, Started, HeadersGoOn, InLine
<1>9. HandlersInv'
  <2>1. HandlersKept'
    BY <1>1, <1>2, <1>3, <1>6 DEF FetchInv, HandlersInv, HandlersKept
  <2> QED
    BY <1>1, <1>2, <1>3, <1>4, <1>5, <2>1 DEF HandlersInv, BusyAsked, Rests
<1>10. OrderInv'
  BY <1>1 DEF OrderInv, LoopInOrder, ChannelInOrder
<1> QED
  BY <1>7, <1>8, <1>9, <1>10 DEF FetchInv

LEMMA BodiesFailStep ==
  ASSUME FetchInv, NEW k \in Blocks!Batch, NEW why \in {"useless", "invalid", "timeout", "abort"},
         Blocks!BodiesFail(k, why)
  PROVE  FetchInv'
<1> DEFINE p == task[k].peer
           r == IF aborted THEN Blocks!Done ELSE [st |-> "get", peer |-> None]
<1>1. /\ task[k].st = "asking" /\ useless' = useless \cup {p} /\ task' = [task EXCEPT ![k] = r]
      /\ Blocks!Bans(p) \/ UNCHANGED <<idle, busy, fetchBanned>>
      /\ UNCHANGED <<sched, target, start, aborted, header, nextBatch, getters, chan, loop, head>>
  BY Zenon DEF Blocks!BodiesFail
<1>2. r \in TaskRecord /\ r.st \in {"get", "done"}
  BY DoneTyped DEF TaskRecord
<1>3. p \in BlockPeer /\ sched = "fetch"
  BY <1>1 DEF FetchInv, HandlersInv, HandlersKept, Rests
<1> HIDE DEF r
<1>4. /\ task' \in [Blocks!Batch -> TaskRecord]
      /\ \A j \in Blocks!Batch : task'[j] = IF j = k THEN r ELSE task[j]
      /\ LoopInOrder' /\ ChannelInOrder'
  BY <1>1, <1>2, BatchMoves
<1>5. FetchTyped'
  BY <1>1, <1>4 DEF FetchInv, FetchTyped
<1>6. TasksInv'
  <2>1. Started'
    BY <1>1, <1>4 DEF FetchInv, TasksInv, Started
  <2>2. HeadersGoOn'
    BY <1>1 DEF FetchInv, TasksInv, HeadersGoOn
  <2>3. InLine'
    BY <1>1, <1>4, PeersOfFetch DEF InLine
  <2> QED
    BY <2>1, <2>2, <2>3 DEF TasksInv
<1>7. HandlersInv'
  <2>1. busy' \subseteq busy /\ idle' \cup busy' \cup fetchBanned' = BlockPeer
    BY <1>1, <1>3, PeersOfFetch DEF Blocks!Bans
  <2>2. HandlersKept'
    BY <1>1, <1>2, <1>4, <2>1 DEF FetchInv, HandlersInv, HandlersKept
  <2>3. BusyAsked'
    <3> SUFFICES ASSUME NEW q \in busy', q \notin useless'
                 PROVE  \E j \in Blocks!Batch : task'[j].st = "asking" /\ task'[j].peer = q
      BY DEF BusyAsked
    <3>1. PICK j \in Blocks!Batch : task[j].st = "asking" /\ task[j].peer = q
      BY <1>1, <2>1 DEF FetchInv, HandlersInv, BusyAsked
    <3>2. j # k
      BY <1>1, <3>1
    <3> QED
      BY <1>4, <3>1, <3>2
  <2> QED
    BY <1>1, <1>3, <2>2, <2>3 DEF HandlersInv, Rests
<1> QED
  BY <1>4, <1>5, <1>6, <1>7 DEF FetchInv, OrderInv

-----------------------------------------------------------------------------
(* The loop goes on within its batch, to the next one that is ready, or    *)
(* waits.                                                                  *)
LEMMA LoopMoves ==
  ASSUME FetchInv, Blocks!Committing, ~ aborted, head' \in Nat, loop <= head',
         LET k == Blocks!BatchOf(loop)
         IN  IF loop = Blocks!LastOf(k) THEN Blocks!BatchEnds(k) ELSE loop' = loop + 1 /\ UNCHANGED chan,
         UNCHANGED start
  PROVE  /\ chan' \in ChannelRecord /\ loop' \in Int /\ UNCHANGED <<chan.heap, chan.processed>>
         /\ ReadyInOrder' /\ LoopFollows'
         /\ loop' > 0 => loop' <= head' + 1 /\ InBatch(start, chan'.processed - Len(chan'.ready) - 1, loop')
<1> DEFINE k == Blocks!BatchOf(loop)
           P == chan.processed
           L == Len(chan.ready)
<1>1. /\ sched = "fetch" /\ loop \in Nat \ {0} /\ k \in Blocks!Batch /\ InBatch(start, k, loop)
      /\ \A j \in Nat : InBatch(start, j, loop) => k = j
  BY BatchCommitted
<1>2. /\ start \in Nat \ {0} /\ chan \in ChannelRecord /\ P \in Nat /\ chan.ready \in Seq(Blocks!Batch)
      /\ L \in Nat
  BY LenProperties DEF FetchInv, FetchTyped, ChannelRecord
<1>3. /\ ReadyInOrder /\ LoopFollows /\ \A j \in Blocks!Batch : j < P => Arrived(j)
  BY <1>1 DEF FetchInv, OrderInv, ChannelInOrder
<1>4. k = P - L - 1 /\ k \in Nat
  <2>1. InBatch(start, P - L - 1, loop)
    BY <1>1, <1>3 DEF LoopFollows, Blocks!Waiting
  <2>2. P - L - 1 \in Nat
    BY <2>1 DEF InBatch, Blocks!Batch
  <2> QED
    BY <1>1, <2>1, <2>2
<1>5. /\ FirstAt(start, k) \in Nat \ {0} /\ FirstAt(start, k + 1) = FirstAt(start, k) + MaxGetBlockHeaders
      /\ MaxGetBlockHeaders \in Nat \ {0} /\ Height \in Nat
      /\ Blocks!LastOf(k) = LastAt(start, k)
      /\ FirstAt(start, k + 1) \in Nat \ {0} /\ Blocks!First(k + 1) = FirstAt(start, k + 1)
  <2>1. k + 1 \in Nat
    BY <1>4
  <2> QED
    BY <1>2, <1>4, <2>1, BatchesFollow, BatchesOf, BlockConstants
<1>6. FirstAt(start, k) <= loop /\ loop <= LastAt(start, k)
  BY <1>1 DEF InBatch
<1>7. loop = LastAt(start, k) /\ FirstAt(start, k + 1) <= Height => FirstAt(start, k + 1) = loop + 1
  BY <1>5, <1>6 DEF LastAt
<1>8. IF loop = LastAt(start, k) THEN Blocks!BatchEnds(k) ELSE loop' = loop + 1 /\ UNCHANGED chan
  BY <1>5
<1>9. CASE loop # LastAt(start, k)
  <2>1. loop' = loop + 1 /\ UNCHANGED chan
    BY <1>8, <1>9
  <2>2. LastAt(start, k) \in Int
    BY <1>5 DEF LastAt
  <2>3. FirstAt(start, k) <= loop + 1 /\ loop + 1 <= LastAt(start, k)
    BY <1>1, <1>5, <1>6, <1>9, <2>2
  <2>4. InBatch(start, k, loop')
    BY <1>1, <2>1, <2>3 DEF InBatch
  <2>5. ReadyInOrder' /\ LoopFollows'
    BY <1>1, <1>3, <1>4, <2>1, <2>4 DEF ReadyInOrder, LoopFollows
  <2>6. chan'.processed - Len(chan'.ready) - 1 = k
    BY <1>4, <2>1
  <2>7. loop' \in Int /\ loop' <= head' + 1
    <3>1. ASSUME NEW a \in Int, NEW b \in Int, a <= b PROVE a + 1 \in Int /\ a + 1 <= b + 1
      BY <3>1
    <3>2. loop \in Int /\ loop' = loop + 1 /\ loop <= head' /\ head' \in Int
      BY <1>1, <2>1
    <3> QED
      BY <3>1, <3>2
  <2> HIDE DEF k
  <2> QED
    BY <1>2, <2>1, <2>4, <2>5, <2>6, <2>7, Zenon
<1>10. CASE loop = LastAt(start, k) /\ chan.ready = <<>>
  <2>1. loop' = Blocks!Waiting /\ UNCHANGED chan
    BY <1>8, <1>10 DEF Blocks!BatchEnds
  <2>2. L = 0 /\ P = k + 1
    BY <1>2, <1>4, <1>10
  <2>3. FirstAt(start, P) <= Height => FirstAt(start, P) <= head' + 1
    BY <1>1, <1>5, <1>7, <1>10, <2>2
  <2>4. ReadyInOrder' /\ LoopFollows'
    BY <1>3, <1>10, <2>1, <2>3 DEF ReadyInOrder, LoopFollows
  <2> QED
    BY <1>2, <2>1, <2>4 DEF Blocks!Waiting
<1>11. CASE loop = LastAt(start, k) /\ chan.ready # <<>>
  <2> DEFINE t == Tail(chan.ready)
  <2>1. /\ t \in Seq(Blocks!Batch) /\ Len(t) = L - 1 /\ L >= 1 /\ Head(chan.ready) = chan.ready[1]
        /\ \A i \in 1..Len(t) : t[i] = chan.ready[i + 1]
        /\ chan.ready[1] \in Blocks!Batch
    <3>1. L # 0
      BY <1>2, <1>11, EmptySeq
    <3>2. 1 \in 1..L
      BY <1>2, <3>1
    <3> QED
      BY <1>2, <1>11, <3>1, <3>2, HeadTailProperties, ElementOfSeq
  <2>2. loop' = Blocks!First(Head(chan.ready)) /\ chan' = [chan EXCEPT !.ready = Tail(@)]
    BY <1>8, <1>11 DEF Blocks!BatchEnds
  <2>3. chan' \in ChannelRecord /\ chan'.ready = t /\ UNCHANGED <<chan.heap, chan.processed>>
    BY <1>2, <2>1, <2>2 DEF ChannelRecord
  <2> HIDE DEF t
  <2>4. chan.ready[1] = k + 1 /\ k + 1 < P
    BY <1>2, <1>3, <1>4, <2>1 DEF ReadyInOrder
  <2>5. FirstAt(start, k + 1) <= Height
    <3>1. Arrived(k + 1) /\ k + 1 \in Blocks!Batch
      BY <1>3, <2>1, <2>4
    <3> QED
      BY <3>1 DEF FetchInv, TasksInv, Started, Arrived
  <2>6. loop' = FirstAt(start, k + 1) /\ loop' = loop + 1
    BY <1>5, <1>7, <1>11, <2>1, <2>2, <2>4, <2>5
  <2>7. InBatch(start, k + 1, loop')
    <3>1. FirstAt(start, k + 1) <= LastAt(start, k + 1)
      BY <1>5, <2>5 DEF LastAt
    <3> QED
      BY <1>5, <2>1, <2>4, <2>6, <3>1 DEF InBatch
  <2>8. chan'.processed - Len(chan'.ready) - 1 = k + 1 /\ chan'.processed = P /\ Len(chan'.ready) = L - 1
    BY <1>2, <1>4, <2>1, <2>3
  <2>9. ReadyInOrder'
    <3>1. Len(chan'.ready) <= chan'.processed
      BY <1>2, <1>3, <2>1, <2>8 DEF ReadyInOrder
    <3>2. ASSUME NEW i \in 1..Len(t) PROVE t[i] = P - (L - 1) + i - 1
      <4>1. i + 1 \in 1..L /\ t[i] = chan.ready[i + 1]
        BY <1>2, <2>1
      <4>2. chan.ready[i + 1] = P - L + (i + 1) - 1
        BY <1>3, <4>1 DEF ReadyInOrder
      <4> QED
        BY <1>2, <4>1, <4>2
    <3> QED
      BY <2>3, <2>8, <3>1, <3>2 DEF ReadyInOrder
  <2>10. LoopFollows'
    BY <1>1, <2>6, <2>7, <2>8 DEF LoopFollows
  <2> HIDE DEF k
  <2> QED
    BY <1>1, <2>3, <2>6, <2>7, <2>8, <2>9, <2>10
<1> QED
  BY <1>9, <1>10, <1>11

LEMMA CommitBlockStep ==
  ASSUME FetchInv, Blocks!CommitBlock
  PROVE  FetchInv'
<1> DEFINE k == Blocks!BatchOf(loop)
<1>1. /\ Blocks!Committing /\ Blocks!Processes(loop)
      /\ task' = [task EXCEPT ![k] = Blocks!Done] \/ UNCHANGED task
      /\ aborted => loop' = Blocks!Ended /\ UNCHANGED chan
      /\ ~ aborted => IF loop = Blocks!LastOf(k) THEN Blocks!BatchEnds(k) ELSE loop' = loop + 1 /\ UNCHANGED chan
      /\ UNCHANGED <<sched, target, start, aborted, header, nextBatch, getters, idle, busy, useless, fetchBanned>>
  BY Zenon DEF Blocks!CommitBlock, Blocks!pool
<1>2. /\ sched = "fetch" /\ loop \in Nat \ {0} /\ loop <= head + 1 /\ head \in Nat
      /\ k \in Blocks!Batch /\ Arrived(k) /\ InBatch(start, k, loop)
      /\ \A j \in Nat : InBatch(start, j, loop) => k = j
  BY <1>1, BatchCommitted DEF FetchInv, FetchTyped
<1>3. head' \in Nat /\ head' >= head /\ loop <= head'
  BY <1>1, <1>2 DEF Blocks!Processes
<1>4. /\ task' \in [Blocks!Batch -> TaskRecord]
      /\ \A j \in Blocks!Batch : task'[j] = task[j] \/ (j = k /\ task'[j].st = "done")
  BY <1>1, DoneTyped, PeersOfFetch
<1>5. \A j \in Blocks!Batch : Arrived(j) => Arrived(j)'
  BY <1>4 DEF Arrived
<1>6. \A j \in Blocks!Batch : ~ Arrived(j) => task'[j] = task[j]
  BY <1>2, <1>4
<1>7. /\ chan' \in ChannelRecord /\ loop' \in Int
      /\ ~ aborted => /\ UNCHANGED <<chan.heap, chan.processed>> /\ ReadyInOrder' /\ LoopFollows'
                      /\ loop' > 0 => loop' <= head' + 1
                            /\ InBatch(start, chan'.processed - Len(chan'.ready) - 1, loop')
  <2>1. CASE aborted
    BY <1>1, <2>1 DEF FetchInv, FetchTyped, Blocks!Ended
  <2>2. CASE ~ aborted
    BY <1>1, <1>3, <2>2, LoopMoves
  <2> QED
    BY <2>1, <2>2
<1> HIDE DEF k
<1>8. FetchTyped'
  BY <1>1, <1>3, <1>4, <1>7 DEF FetchInv, FetchTyped
<1>9. TasksInv'
  <2>1. Started'
    BY <1>1, <1>2, <1>4 DEF FetchInv, TasksInv, Started, Arrived
  <2>2. HeadersGoOn'
    BY <1>1 DEF FetchInv, TasksInv, HeadersGoOn
  <2>3. InLine'
    BY <1>1, <1>6, PeersOfFetch DEF InLine, Arrived
  <2> QED
    BY <2>1, <2>2, <2>3 DEF TasksInv
<1>10. HandlersInv'
  <2>1. HandlersKept'
    BY <1>1, <1>4 DEF FetchInv, HandlersInv, HandlersKept
  <2>2. BusyAsked'
    BY <1>1, <1>6 DEF FetchInv, HandlersInv, BusyAsked, Arrived
  <2> QED
    BY <1>1, <1>2, <2>1, <2>2 DEF HandlersInv, Rests
<1>11. CASE aborted
  <2>1. OrderInv'
    BY <1>1, <1>11 DEF OrderInv, LoopInOrder, ChannelInOrder, Blocks!Ended
  <2> QED
    BY <1>8, <1>9, <1>10, <2>1 DEF FetchInv
<1>12. CASE ~ aborted
  <2>1. /\ \A j \in chan.heap : j \in Blocks!Batch /\ j > chan.processed /\ task[j].st = "queued"
        /\ \A j \in Blocks!Batch : j < chan.processed => Arrived(j)
        /\ LoopFollows /\ chan.processed \in Nat /\ Len(chan.ready) \in Nat
    BY <1>2, <1>12, LenProperties DEF FetchInv, FetchTyped, ChannelRecord, OrderInv, ChannelInOrder
  <2>2. k < chan.processed
    <3>1. InBatch(start, chan.processed - Len(chan.ready) - 1, loop)
      BY <1>2, <2>1 DEF LoopFollows, Blocks!Waiting
    <3> DEFINE c == chan.processed - Len(chan.ready) - 1
    <3>2. c \in Nat
      BY <3>1 DEF InBatch, Blocks!Batch
    <3>3. k = c
      BY <1>2, <3>1, <3>2
    <3> QED
      BY <2>1, <3>3
  <2>3. ChannelInOrder'
    <3>1. \A j \in chan.heap : j # k /\ task'[j] = task[j]
      BY <1>2, <1>4, <2>1, <2>2 DEF Blocks!Batch
    <3>2. /\ \A j \in chan'.heap : j > chan'.processed /\ task'[j].st = "queued"
          /\ \A j \in Blocks!Batch : j < chan'.processed => Arrived(j)'
      BY <1>5, <1>7, <1>12, <2>1, <3>1
    <3> QED
      BY <1>7, <1>12, <3>2 DEF ChannelInOrder
  <2>4. LoopInOrder'
    <3> SUFFICES ASSUME loop' > 0
                 PROVE  loop' <= head' + 1 /\ \E j \in Blocks!Batch : Arrived(j)' /\ InBatch(start, j, loop')
      BY <1>1 DEF LoopInOrder
    <3>1. loop' <= head' + 1 /\ InBatch(start, chan'.processed - Len(chan'.ready) - 1, loop')
      BY <1>7, <1>12
    <3>2. PICK c \in Blocks!Batch : c < chan.processed /\ InBatch(start, c, loop')
      <4>1. chan'.processed = chan.processed /\ Len(chan'.ready) \in Nat
        BY <1>7, <1>12, LenProperties DEF ChannelRecord
      <4> QED
        BY <2>1, <3>1, <4>1 DEF InBatch
    <3>3. Arrived(c)'
      BY <1>5, <2>1, <3>2
    <3> QED
      BY <3>1, <3>2, <3>3
  <2> QED
    BY <1>8, <1>9, <1>10, <2>3, <2>4 DEF FetchInv, OrderInv
<1> QED
  BY <1>11, <1>12

-----------------------------------------------------------------------------
(* What is ready is in order, whatever it was before.                      *)
LEMMA ReadyNow ==
  ASSUME NEW r, NEW c, Len(r) <= c, \A i \in 1..Len(r) : r[i] = c - Len(r) + i - 1,
         chan'.ready = r, chan'.processed = c
  PROVE  ReadyInOrder'
<1>1. \A r1, c1 : r1 = r /\ c1 = c =>
        Len(r1) <= c1 /\ \A i \in 1..Len(r1) : r1[i] = c1 - Len(r1) + i - 1
  OBVIOUS
<1>2. /\ Len(chan'.ready) <= chan'.processed
      /\ \A i \in 1..Len(chan'.ready) :
           chan'.ready[i] = chan'.processed - Len(chan'.ready) + i - 1
  BY <1>1
<1> QED
  BY <1>2 DEF ReadyInOrder

(* Bodies arrive, in whatever order: the channel hands on what is in order *)
(* now, and the loop takes the first of it if it waits.                    *)
LEMMA PushStep ==
  ASSUME FetchInv, sched = "fetch", ~ aborted, NEW k \in Blocks!Batch, task[k].st = "asking",
         Blocks!Push(k), UNCHANGED <<start, head>>
  PROVE  /\ chan' \in ChannelRecord /\ loop' \in Int /\ ReadyInOrder' /\ LoopFollows'
         /\ \A j \in chan'.heap : j > chan'.processed /\ j \in chan.heap \cup {k}
         /\ \A j \in Blocks!Batch : j < chan'.processed => j < chan.processed \/ j \in chan.heap \cup {k}
         /\ \/ loop' = loop
            \/ loop' <= head + 1 /\ \E j \in chan.heap \cup {k} : InBatch(start, j, loop')
<1> DEFINE P == chan.processed
           L == Len(chan.ready)
           heap == chan.heap \cup {k}
           q == Blocks!Readies(heap)
           ready == chan.ready \o q
<1>1. /\ start \in Nat \ {0} /\ chan \in ChannelRecord /\ P \in Nat /\ chan.ready \in Seq(Blocks!Batch)
      /\ L \in Nat /\ head \in Nat /\ loop \in Int
      /\ heap \in SUBSET Blocks!Batch /\ \A j \in Blocks!Batch : j \in Nat
  BY LenProperties DEF FetchInv, FetchTyped, ChannelRecord, Blocks!Batch
<1>2. /\ \A j \in chan.heap : j > P /\ task[j].st = "queued"
      /\ \A j \in Blocks!Batch : j < P => Arrived(j)
      /\ ReadyInOrder /\ LoopFollows
  BY DEF FetchInv, OrderInv, ChannelInOrder
<1>3. \A j \in heap : j >= P
  <2>1. ~ (k < P)
    BY <1>2 DEF Arrived
  <2>2. k >= P
    BY <1>1, <2>1
  <2>3. \A j \in chan.heap : j >= P
    BY <1>1, <1>2
  <2> QED
    BY <2>2, <2>3
<1>4. PICK m \in Nat : /\ q = [i \in 1..m |-> P + i - 1]
                       /\ P..P + m - 1 \subseteq heap /\ P + m \notin heap
  BY <1>1, <1>3, ReadiesInOrder
<1>5. /\ q \in Seq(Blocks!Batch) /\ Len(q) = m /\ \A i \in 1..m : q[i] = P + i - 1
      /\ q = <<>> <=> m = 0
      /\ Blocks!Range(q) = P..P + m - 1
  <2>1. \A i \in 1..m : P + i - 1 \in P..P + m - 1 /\ P + i - 1 \in Blocks!Batch
    BY <1>1, <1>4
  <2>3. q \in Seq(Blocks!Batch) /\ Len(q) = m
    <3>1. [i \in 1..m |-> P + i - 1] \in Seq(Blocks!Batch) /\ Len([i \in 1..m |-> P + i - 1]) = m
      BY <2>1
    <3> QED
      BY <1>4, <3>1, Zenon
  <2>4. Blocks!Range(q) = {q[i] : i \in 1..m}
    BY <1>4 DEF Blocks!Range
  <2>5. \A j \in P..P + m - 1 : j - P + 1 \in 1..m /\ q[j - P + 1] = j
    BY <1>1, <1>4
  <2>6. \A i \in 1..m : q[i] = P + i - 1
    BY <1>4
  <2>7. q = <<>> <=> m = 0
    BY <2>3, EmptySeq
  <2> HIDE DEF q
  <2>8. Blocks!Range(q) = P..P + m - 1
    BY <2>1, <2>4, <2>5, <2>6
  <2> QED
    BY <2>3, <2>6, <2>7, <2>8
<1>6. /\ chan'.heap = heap \ Blocks!Range(q) /\ chan'.processed = P + Len(q)
      /\ chan'.ready = IF loop = Blocks!Waiting /\ q # <<>> THEN Tail(ready) ELSE ready
      /\ loop' = IF loop = Blocks!Waiting /\ q # <<>> THEN Blocks!First(Head(ready)) ELSE loop
      /\ chan' = [heap |-> chan'.heap, processed |-> chan'.processed, ready |-> chan'.ready]
  BY DEF Blocks!Push
<1> HIDE DEF q
<1>7. /\ ready \in Seq(Blocks!Batch) /\ Len(ready) = L + m
      /\ \A i \in 1..L + m : ready[i] = P - L + i - 1
  <2>1. /\ ready \in Seq(Blocks!Batch) /\ Len(ready) = L + m
        /\ \A i \in 1..L + m : ready[i] = IF i <= L THEN chan.ready[i] ELSE q[i - L]
    <3>1. chan.ready \in Seq(Blocks!Batch) /\ q \in Seq(Blocks!Batch) /\ Len(q) = m
      BY <1>1, <1>5
    <3>2. /\ ready \in Seq(Blocks!Batch) /\ Len(ready) = L + Len(q)
          /\ \A i \in 1..L + Len(q) : ready[i] = IF i <= L THEN chan.ready[i] ELSE q[i - L]
      BY <3>1, ConcatProperties, Zenon
    <3> QED
      BY <3>1, <3>2, Zenon
  <2>2. ASSUME NEW i \in 1..L + m PROVE ready[i] = P - L + i - 1
    <3>0. i \in Int /\ L \in Int
      BY <1>1
    <3>1. CASE i <= L
      BY <1>1, <1>2, <2>1, <3>1 DEF ReadyInOrder
    <3>2. CASE ~ (i <= L)
      <4>1. i - L \in 1..m /\ ready[i] = q[i - L]
        BY <1>1, <2>1, <3>0, <3>2
      <4>2. q[i - L] = P + (i - L) - 1
        BY <1>5, <4>1
      <4> QED
        BY <1>1, <4>1, <4>2
    <3> QED
      BY <3>1, <3>2, Zenon
  <2> QED
    BY <2>1, <2>2
<1> HIDE DEF ready
<1>8. chan'.processed = P + m
  BY <1>5, <1>6
<1>9. \A j \in chan'.heap : j > chan'.processed /\ j \in heap
  <2>1. ASSUME NEW j \in chan'.heap PROVE j > P + m /\ j \in heap
    <3>1. j \in heap /\ j \notin P..P + m - 1 /\ j # P + m /\ j >= P /\ j \in Nat
      BY <1>1, <1>3, <1>4, <1>5, <1>6
    <3> QED
      BY <1>1, <3>1
  <2> QED
    BY <1>8, <2>1
<1>10. \A j \in Blocks!Batch : j < chan'.processed => j < P \/ j \in heap
  <2>1. ASSUME NEW j \in Blocks!Batch, j < P + m, ~ (j < P) PROVE j \in P..P + m - 1
    BY <1>1, <2>1
  <2> QED
    BY <1>4, <1>8, <2>1
<1> HIDE DEF heap
<1>11. ASSUME chan'.ready \in Seq(Blocks!Batch) PROVE chan' \in ChannelRecord
  <2>1. chan'.heap \in SUBSET Blocks!Batch /\ chan'.processed \in Nat
    BY <1>1, <1>6, <1>8
  <2> QED
    BY <1>6, <1>11, <2>1 DEF ChannelRecord
<1>12. CASE ~ (loop = Blocks!Waiting /\ q # <<>>)
  <2>1. chan'.ready = ready /\ loop' = loop
    BY <1>6, <1>12
  <2>2. ReadyInOrder'
    <3> DEFINE c == P + m
    <3>1. Len(ready) <= c
      BY <1>1, <1>2, <1>7 DEF ReadyInOrder
    <3>2. \A i \in 1..Len(ready) : ready[i] = c - Len(ready) + i - 1
      BY <1>1, <1>7
    <3>3. chan'.processed = c
      BY <1>8
    <3> HIDE DEF c
    <3> QED
      BY <2>1, <3>1, <3>2, <3>3, ReadyNow
  <2>3. LoopFollows'
    <3>1. CASE loop = Blocks!Waiting
      <4>1. chan.ready = <<>> /\ m = 0
        BY <1>2, <1>5, <1>12, <3>1 DEF LoopFollows, Blocks!Waiting
      <4>2. Len(ready) = 0 /\ P + m = P
        BY <1>1, <1>7, <4>1
      <4>3. ready = <<>>
        BY <1>7, <4>2, EmptySeq
      <4>4. LoopFollows'
        <5>1. chan'.processed = P /\ chan'.ready = <<>> /\ loop' = Blocks!Waiting
          BY <1>8, <2>1, <3>1, <4>2, <4>3, Zenon
        <5>2. FirstAt(start, P) <= Height => FirstAt(start, P) <= head + 1
          BY <1>2, <3>1 DEF LoopFollows, Blocks!Waiting
        <5>3. FirstAt(start', chan'.processed) <= Height => FirstAt(start', chan'.processed) <= head' + 1
          BY <5>1, <5>2, Zenon
        <5> QED
          BY <5>1, <5>3, Zenon DEF LoopFollows
      <4> QED
        BY <4>4
    <3>2. CASE loop # Blocks!Waiting
      <4>1. loop > 0 /\ InBatch(start, P - L - 1, loop)
        BY <1>2, <3>2 DEF LoopFollows
      <4>2. chan'.processed - Len(chan'.ready) - 1 = P - L - 1
        <5>1. chan'.processed - Len(chan'.ready) - 1 = (P + m) - Len(ready) - 1
          BY <1>8, <2>1, Zenon
        <5>2. (P + m) - Len(ready) - 1 = P - L - 1
          BY <1>1, <1>7
        <5> QED
          BY <5>1, <5>2, Zenon
      <4>3. InBatch(start', chan'.processed - Len(chan'.ready) - 1, loop')
        BY <2>1, <4>1, <4>2
      <4> QED
        BY <2>1, <4>1, <4>3 DEF LoopFollows
    <3> QED
      BY <3>1, <3>2
  <2> QED
    BY <1>1, <1>7, <1>9, <1>10, <1>11, <2>1, <2>2, <2>3 DEF heap
<1>13. CASE loop = Blocks!Waiting /\ q # <<>>
  <2> DEFINE t == Tail(ready)
  <2>1. chan'.ready = t /\ loop' = Blocks!First(Head(ready))
    BY <1>6, <1>13
  <2>2. L = 0 /\ m >= 1
    <3>1. chan.ready = <<>>
      BY <1>2, <1>13 DEF LoopFollows, Blocks!Waiting
    <3>2. L = 0
      BY <3>1
    <3> QED
      BY <1>5, <1>13, <3>2
  <2>3. /\ t \in Seq(Blocks!Batch) /\ Len(t) = m - 1 /\ Head(ready) = ready[1]
        /\ \A i \in 1..Len(t) : t[i] = ready[i + 1]
    <3>1. ready # <<>>
      BY <1>7, <2>2, EmptySeq
    <3>2. Len(ready) = m
      BY <1>7, <2>2
    <3> QED
      BY <1>7, <3>1, <3>2, HeadTailProperties
  <2> HIDE DEF t
  <2>4. Head(ready) = P /\ P \in heap
    <3>1. 1 \in 1..L + m /\ P - L + 1 - 1 = P /\ P \in P..P + m - 1
      BY <1>1, <2>2
    <3>2. ready[1] = P - L + 1 - 1
      BY <1>7, <3>1
    <3> QED
      BY <1>4, <2>3, <3>1, <3>2
  <2>5. FirstAt(start, P) <= Height
    <3>1. task[P].st # "none" /\ P \in Blocks!Batch
      BY <1>1, <1>2, <2>4 DEF heap
    <3> QED
      BY <3>1 DEF FetchInv, TasksInv, Started
  <2>6. loop' = FirstAt(start, P) /\ FirstAt(start, P) \in Nat \ {0}
    BY <1>1, <2>1, <2>4, BatchesOf, BatchesFollow
  <2>7. loop' <= head + 1
    BY <1>2, <1>13, <2>5, <2>6 DEF LoopFollows, Blocks!Waiting
  <2>8. InBatch(start, P, loop')
    <3>1. MaxGetBlockHeaders \in Nat \ {0} /\ Height \in Nat
      BY BlockConstants
    <3>2. FirstAt(start, P) <= LastAt(start, P)
      BY <2>5, <2>6, <3>1 DEF LastAt
    <3>3. P \in Blocks!Batch
      BY <1>1, <2>4
    <3>4. FirstAt(start, P) <= FirstAt(start, P)
      BY <2>6
    <3> QED
      BY <2>6, <3>2, <3>3, <3>4, Zenon DEF InBatch
  <2>9. ReadyInOrder'
    <3> DEFINE c == P + m
    <3>1. Len(t) <= c
      BY <1>1, <2>2, <2>3
    <3>2. ASSUME NEW i \in 1..Len(t) PROVE t[i] = c - Len(t) + i - 1
      <4>1. i + 1 \in 1..L + m /\ t[i] = ready[i + 1]
        BY <1>1, <2>2, <2>3
      <4>2. ready[i + 1] = P - L + (i + 1) - 1
        BY <1>7, <4>1
      <4> QED
        BY <1>1, <2>2, <2>3, <4>1, <4>2
    <3>3. chan'.processed = c
      BY <1>8
    <3> HIDE DEF c
    <3> QED
      BY <2>1, <3>1, <3>2, <3>3, ReadyNow
  <2>10. LoopFollows'
    <3>1. chan'.processed - Len(chan'.ready) - 1 = P
      BY <1>1, <1>8, <2>1, <2>2, <2>3
    <3>2. InBatch(start', chan'.processed - Len(chan'.ready) - 1, loop')
      BY <2>8, <3>1
    <3>3. loop' > 0
      BY <2>6
    <3> QED
      BY <3>2, <3>3 DEF LoopFollows
  <2> QED
    BY <1>9, <1>10, <1>11, <2>1, <2>3, <2>4, <2>6, <2>7, <2>8, <2>9, <2>10 DEF heap
<1> QED
  BY <1>12, <1>13


(* The handler goes to the first batch in line, if any.                    *)
LEMMA HandlerPut ==
  ASSUME FetchInv, NEW k \in Blocks!Batch, Blocks!BodiesArrive(k)
  PROVE  \E r \in TaskRecord, H \in SUBSET Blocks!Batch :
           /\ r.st = IF aborted THEN "done" ELSE "queued"
           /\ task[k].peer \in BlockPeer
           /\ \A j \in H : task[j].st = "waiting" /\ j # k
           /\ task' \in [Blocks!Batch -> TaskRecord]
           /\ \A j \in Blocks!Batch :
                task'[j] = IF j = k THEN r ELSE IF j \in H THEN Blocks!Asking(task[k].peer) ELSE task[j]
           /\ idle' \cup busy' = idle \cup busy /\ busy' \subseteq busy
           /\ task[k].peer \in busy' => H # {}
           /\ getters' \in Seq(Blocks!Batch) /\ Distinct(getters')
           /\ \A i \in 1..Len(getters') :
                getters'[i] \notin H /\ \E m \in 1..Len(getters) : getters'[i] = getters[m]
<1> DEFINE p == task[k].peer
           r == IF aborted THEN Blocks!Done ELSE [st |-> "queued", peer |-> None]
           t == [task EXCEPT ![k] = r]
           Result(H) ==
             /\ \A j \in H : task[j].st = "waiting" /\ j # k
             /\ task' \in [Blocks!Batch -> TaskRecord]
             /\ \A j \in Blocks!Batch :
                  task'[j] = IF j = k THEN r ELSE IF j \in H THEN Blocks!Asking(p) ELSE task[j]
             /\ idle' \cup busy' = idle \cup busy /\ busy' \subseteq busy
             /\ p \in busy' => H # {}
             /\ getters' \in Seq(Blocks!Batch) /\ Distinct(getters')
             /\ \A i \in 1..Len(getters') :
                  getters'[i] \notin H /\ \E m \in 1..Len(getters) : getters'[i] = getters[m]
<1>1. /\ task[k].st = "asking"
      /\ idle' = Blocks!Puts(p, t).idle /\ busy' = Blocks!Puts(p, t).busy
      /\ getters' = Blocks!Puts(p, t).getters /\ task' = Blocks!Puts(p, t).task
  BY Zenon DEF Blocks!BodiesArrive
<1>2. p \in BlockPeer
  BY <1>1 DEF FetchInv, HandlersInv, HandlersKept
<1>3. r \in TaskRecord /\ r.st = IF aborted THEN "done" ELSE "queued"
  BY DoneTyped DEF TaskRecord
<1> HIDE DEF r
<1>4. t \in [Blocks!Batch -> TaskRecord] /\ \A j \in Blocks!Batch : t[j] = IF j = k THEN r ELSE task[j]
  BY <1>3, PeersOfFetch
<1> HIDE DEF t, p
<1>5. CASE p \notin busy \/ (p \in busy /\ getters = <<>>)
  <2>1. /\ task' = t /\ UNCHANGED getters /\ busy' \subseteq busy /\ p \notin busy'
        /\ idle' \cup busy' = idle \cup busy
    BY <1>1, <1>5 DEF Blocks!Puts
  <2>2. Result({})
    BY <1>4, <2>1, PeersOfFetch
  <2> HIDE DEF Result
  <2>3. \E H \in SUBSET Blocks!Batch : Result(H)
    BY <2>2
  <2> QED
    BY <1>2, <1>3, <2>3 DEF Result, p
<1>6. CASE p \in busy /\ getters # <<>>
  <2> DEFINE h == Head(getters)
             g == Tail(getters)
  <2>1. task' = [t EXCEPT ![h] = Blocks!Asking(p)] /\ getters' = g /\ UNCHANGED <<idle, busy>>
    BY <1>1, <1>6 DEF Blocks!Puts
  <2>2. /\ g \in Seq(Blocks!Batch) /\ Distinct(g) /\ h = getters[1] /\ h \in Blocks!Batch
        /\ Len(g) = Len(getters) - 1 /\ Len(getters) \in Nat \ {0}
        /\ \A i \in 1..Len(g) : g[i] = getters[i + 1]
    <3>1. getters \in Seq(Blocks!Batch) /\ Distinct(getters) /\ getters # <<>>
      BY <1>6, PeersOfFetch
    <3>2. Len(getters) \in Nat /\ Len(getters) # 0
      BY <3>1, EmptySeq
    <3> QED
      BY <3>1, <3>2, TailDistinct, HeadTailProperties
  <2> HIDE DEF h, g
  <2>3. task[h].st = "waiting" /\ h # k
    <3>1. 1 \in 1..Len(getters)
      BY <2>2
    <3> QED
      BY <1>1, <2>2, <3>1, PeersOfFetch
  <2>4. /\ task' \in [Blocks!Batch -> TaskRecord]
        /\ \A j \in Blocks!Batch :
             task'[j] = IF j = k THEN r ELSE IF j \in {h} THEN Blocks!Asking(p) ELSE task[j]
    BY <1>2, <1>4, <2>1, <2>2, <2>3, AskingTyped
  <2>5. ASSUME NEW i \in 1..Len(g)
        PROVE  g[i] \notin {h} /\ \E m \in 1..Len(getters) : g[i] = getters[m]
    <3>1. i + 1 \in 1..Len(getters) /\ 1 \in 1..Len(getters) /\ i + 1 # 1 /\ g[i] = getters[i + 1]
      BY <2>2
    <3> QED
      BY <2>2, <3>1, PeersOfFetch DEF Distinct
  <2>6. Result({h})
    BY <2>1, <2>2, <2>3, <2>4, <2>5
  <2> HIDE DEF Result
  <2>7. \E H \in SUBSET Blocks!Batch : Result(H)
    BY <2>2, <2>6
  <2> QED
    BY <1>2, <1>3, <2>7 DEF Result, p
<1> QED
  BY <1>5, <1>6

LEMMA BodiesArriveStep ==
  ASSUME FetchInv, NEW k \in Blocks!Batch, Blocks!BodiesArrive(k)
  PROVE  FetchInv'
<1>1. /\ task[k].st = "asking"
      /\ IF aborted THEN UNCHANGED <<chan, loop>> ELSE Blocks!Push(k)
      /\ UNCHANGED <<sched, target, start, aborted, header, nextBatch, useless, fetchBanned, head>>
  BY Zenon DEF Blocks!BodiesArrive
<1>2. PICK r \in TaskRecord, H \in SUBSET Blocks!Batch :
        /\ r.st = IF aborted THEN "done" ELSE "queued"
        /\ task[k].peer \in BlockPeer
        /\ \A j \in H : task[j].st = "waiting" /\ j # k
        /\ task' \in [Blocks!Batch -> TaskRecord]
        /\ \A j \in Blocks!Batch :
             task'[j] = IF j = k THEN r ELSE IF j \in H THEN Blocks!Asking(task[k].peer) ELSE task[j]
        /\ idle' \cup busy' = idle \cup busy /\ busy' \subseteq busy
        /\ task[k].peer \in busy' => H # {}
        /\ getters' \in Seq(Blocks!Batch) /\ Distinct(getters')
        /\ \A i \in 1..Len(getters') :
             getters'[i] \notin H /\ \E m \in 1..Len(getters) : getters'[i] = getters[m]
  BY HandlerPut
<1>3. sched = "fetch"
  BY <1>1 DEF FetchInv, HandlersInv, Rests
<1>4. /\ \A j \in H : task'[j].st = "asking" /\ task'[j].peer = task[k].peer
      /\ \A j \in Blocks!Batch : j # k /\ j \notin H => task'[j] = task[j]
      /\ task'[k] = r
  BY <1>2, AskingTyped
<1>5. \A j \in Blocks!Batch : Arrived(j) => Arrived(j)' /\ task'[j] = task[j]
  BY <1>1, <1>2, <1>4 DEF Arrived
<1>6. TasksInv'
  <2>1. Started'
    <3> SUFFICES ASSUME NEW j \in Blocks!Batch, task'[j].st # "none"
                 PROVE  j < nextBatch /\ FirstAt(start, j) <= Height
      BY <1>1 DEF Started
    <3>1. task[j].st # "none"
      BY <1>1, <1>2, <1>4
    <3> QED
      BY <3>1 DEF FetchInv, TasksInv, Started
  <2>2. HeadersGoOn'
    BY <1>1 DEF FetchInv, TasksInv, HeadersGoOn
  <2>3. ASSUME NEW i \in 1..Len(getters') PROVE task'[getters'[i]].st = "waiting"
    <3>1. PICK m \in 1..Len(getters) : getters'[i] = getters[m]
      BY <1>2
    <3>2. getters[m] \in Blocks!Batch /\ task[getters[m]].st = "waiting"
      BY PeersOfFetch
    <3> QED
      BY <1>1, <1>2, <1>4, <3>1, <3>2
  <2> QED
    BY <1>2, <2>1, <2>2, <2>3 DEF TasksInv, InLine
<1>7. HandlersInv'
  <2>1. HandlersKept'
    <3>1. \A j \in Blocks!Batch : task'[j].st = "asking" => task'[j].peer \in BlockPeer
      BY <1>2, <1>4 DEF FetchInv, HandlersInv, HandlersKept
    <3> QED
      BY <1>1, <1>2, <3>1 DEF FetchInv, HandlersInv, HandlersKept
  <2>2. BusyAsked'
    <3> SUFFICES ASSUME NEW q \in busy', q \notin useless
                 PROVE  \E j \in Blocks!Batch : task'[j].st = "asking" /\ task'[j].peer = q
      BY <1>1 DEF BusyAsked
    <3>1. PICK j \in Blocks!Batch : task[j].st = "asking" /\ task[j].peer = q
      BY <1>2 DEF FetchInv, HandlersInv, BusyAsked
    <3>2. CASE j = k
      BY <1>2, <1>4, <3>1, <3>2
    <3>3. CASE j # k
      <4>1. j \notin H
        BY <1>2, <3>1
      <4> QED
        BY <1>4, <3>1, <3>3, <4>1
    <3> QED
      BY <3>2, <3>3
  <2> QED
    BY <1>1, <1>3, <2>1, <2>2 DEF HandlersInv, Rests
<1>8. CASE aborted
  <2>1. FetchTyped'
    BY <1>1, <1>2, <1>8 DEF FetchInv, FetchTyped
  <2>2. LoopInOrder'
    BY <1>1, <1>5, <1>8 DEF FetchInv, OrderInv, LoopInOrder
  <2>3. ChannelInOrder'
    BY <1>1, <1>8 DEF ChannelInOrder
  <2> QED
    BY <1>6, <1>7, <2>1, <2>2, <2>3 DEF FetchInv, OrderInv
<1>9. CASE ~ aborted
  <2>1. /\ chan' \in ChannelRecord /\ loop' \in Int /\ ReadyInOrder' /\ LoopFollows'
        /\ \A j \in chan'.heap : j > chan'.processed /\ j \in chan.heap \cup {k}
        /\ \A j \in Blocks!Batch : j < chan'.processed => j < chan.processed \/ j \in chan.heap \cup {k}
        /\ \/ loop' = loop
           \/ loop' <= head + 1 /\ \E j \in chan.heap \cup {k} : InBatch(start, j, loop')
    BY <1>1, <1>3, <1>9, PushStep
  <2>2. /\ \A j \in chan.heap : j \in Blocks!Batch /\ task[j].st = "queued"
        /\ \A j \in Blocks!Batch : j < chan.processed => Arrived(j)
    BY <1>3, <1>9 DEF FetchInv, FetchTyped, ChannelRecord, OrderInv, ChannelInOrder
  <2>3. \A j \in chan.heap \cup {k} : j \in Blocks!Batch /\ task'[j].st = "queued" /\ Arrived(j)'
    BY <1>2, <1>4, <1>5, <1>9, <2>2 DEF Arrived
  <2>4. FetchTyped'
    BY <1>1, <1>2, <2>1 DEF FetchInv, FetchTyped
  <2>5. ChannelInOrder'
    <3>1. \A j \in chan'.heap : j > chan'.processed /\ task'[j].st = "queued"
      BY <2>1, <2>3
    <3>2. \A j \in Blocks!Batch : j < chan'.processed => Arrived(j)'
      BY <1>5, <2>1, <2>2, <2>3
    <3> QED
      BY <2>1, <3>1, <3>2 DEF ChannelInOrder
  <2>6. LoopInOrder'
    <3> SUFFICES ASSUME loop' > 0
                 PROVE  loop' <= head' + 1 /\ \E j \in Blocks!Batch : Arrived(j)' /\ InBatch(start', j, loop')
      BY DEF LoopInOrder
    <3>1. CASE loop' = loop
      <4>1. loop <= head + 1 /\ \E j \in Blocks!Batch : Arrived(j) /\ InBatch(start, j, loop)
        BY <1>3, <3>1 DEF FetchInv, OrderInv, LoopInOrder
      <4> QED
        BY <1>1, <1>5, <3>1, <4>1
    <3>2. CASE loop' <= head + 1 /\ \E j \in chan.heap \cup {k} : InBatch(start, j, loop')
      BY <1>1, <2>3, <3>2
    <3> QED
      BY <2>1, <3>1, <3>2
  <2> QED
    BY <1>6, <1>7, <2>4, <2>5, <2>6 DEF FetchInv, OrderInv
<1> QED
  BY <1>8, <1>9

(* Every step of the download.                                             *)
LEMMA FetchStep == FetchInv /\ [Blocks!Next]_blockVars => FetchInv'
<1> SUFFICES ASSUME FetchInv, [Blocks!Next]_blockVars PROVE FetchInv'
  OBVIOUS
<1>1. CASE Blocks!Progress
  BY <1>1, SchedulerStep, StartFetchStep, StopStep, StartBodiesStep, CommitBlockStep, FetchEndsStep,
     CommitFailsStep, GetHandlerStep, GetterTimeoutStep, BodiesArriveStep, BodiesFailStep
     DEF Blocks!Progress
<1>2. CASE Blocks!Shutdown
  BY <1>2, StopStep
<1>3. CASE Blocks!ConsensusCommits \/ (\E p \in BlockPeer : Blocks!FullSync(p)) \/ UNCHANGED blockVars
  BY <1>3, SchedulerStep
<1> QED
  BY <1>1, <1>2, <1>3 DEF Blocks!Next

(* Blocks are committed after their parents, in whatever order and from    *)
(* whatever peers their bodies arrive, and a fetch that ends has returned  *)
(* or lost every handler it took from the pool (BlockSync.fetch, PChannel).*)
THEOREM FetchCorrect == Spec => []FetchIsOrderly
<1>1. Init => FetchInv
  BY FetchInit DEF Init
<1>2. FetchInv /\ [Next]_vars => FetchInv'
  BY StepOfBlocks, FetchStep
<1>3. FetchInv => FetchIsOrderly
  <2> SUFFICES ASSUME FetchInv PROVE Blocks!CommitsInOrder /\ Blocks!HandlersComeBack
    BY DEF FetchIsOrderly
  <2>1. Blocks!CommitsInOrder
    BY DEF FetchInv, OrderInv, LoopInOrder, Blocks!CommitsInOrder, Blocks!Committing, Blocks!Ended
  <2>2. Blocks!HandlersComeBack
    BY DEF FetchInv, HandlersInv, HandlersKept, Rests, Blocks!HandlersComeBack
  <2> QED
    BY <2>1, <2>2
<1> QED
  BY <1>1, <1>2, <1>3, PTL DEF Spec
=============================================================================
