---------------------------- MODULE FastIterator ----------------------------
(***************************************************************************)
(* The iterator over all layers of a snapshot at once                      *)
(* (core/src/snap/fastIterator.ts): one iterator for each layer, the       *)
(* topmost first, kept in an array by the hash each stands at and then by  *)
(* priority, so that the first of the array is the next element.  A hash   *)
(* that a higher layer has is passed over in the lower ones.               *)
(*                                                                         *)
(* An iterator is [keys, priority]: the hashes it has left, the one it     *)
(* stands at first, and its depth.                                         *)
(***************************************************************************)
EXTENDS Integers, SequencesExt, FiniteSetsExt

CONSTANTS Hash, Depth    \* the hashes, integers; the number of layers

VARIABLES
  lists,      \* the hashes each layer has, from the top
  iterators,  \* the array
  positioned, \* from hashes to the places in the array they were met at
  i,          \* where init is, 0 once the array is sorted
  out         \* what was yielded: <<hash, depth>>

vars == <<lists, iterators, positioned, i, out>>

Moved(it) == [it EXCEPT !.keys = Tail(@)]
Before(a, b) == a.keys[1] < b.keys[1] \/ (a.keys[1] = b.keys[1] /\ a.priority < b.priority)

Init ==
  /\ lists \in [1..Depth -> SUBSET Hash]
  /\ iterators = [d \in 1..Depth |-> [keys |-> <<0>> \o SetToSortSeq(lists[d], <), priority |-> d]]
  /\ positioned = <<>> /\ i = 1 /\ out = <<>>

\* One turn of init's inner loop: the iterator in place i goes on; at its end the last of
\* the array takes its place.  Of two at one hash the one of the lower layer goes on.
Position ==
  /\ i \in DOMAIN iterators
  /\ LET it == Moved(iterators[i])
         hash == it.keys[1]
         placed == [iterators EXCEPT ![i] = it]
     IN IF it.keys = <<>>
        THEN /\ iterators' = Front([iterators EXCEPT ![i] = Last(iterators)])
             /\ UNCHANGED <<positioned, i>>
        ELSE IF hash \notin DOMAIN positioned
        THEN /\ positioned' = [h \in DOMAIN positioned \cup {hash} |-> IF h = hash THEN i ELSE positioned[h]]
             /\ iterators' = placed /\ i' = i + 1
        ELSE LET other == positioned[hash]
             IN /\ iterators' = IF placed[other].priority < it.priority THEN placed
                                ELSE [placed EXCEPT ![i] = placed[other], ![other] = it]
                /\ UNCHANGED <<positioned, i>>
  /\ UNCHANGED <<lists, out>>

Yielded(its) == IF its = <<>> THEN out ELSE Append(out, <<its[1].keys[1], its[1].priority>>)

Sort ==
  /\ i = Len(iterators) + 1
  /\ iterators' = SetToSortSeq(ToSet(iterators), Before)
  /\ i' = 0 /\ out' = Yielded(iterators')
  /\ UNCHANGED <<lists, positioned>>

\* next(n): the iterator in place n goes on and finds its place in the order; the first one
\* behind it that stands at the same hash goes on in turn, or else the iterator itself,
\* if that one has the priority.
RECURSIVE Advanced(_, _)
Advanced(its, n) ==
  IF n > Len(its) THEN its
  ELSE LET it == Moved(its[n])
           rest == RemoveAt(its, n)
           after == {m \in n..Len(rest) : Before(it, rest[m])}
           place == IF after = {} THEN Len(rest) + 1 ELSE Min(after)
           same == {m \in n..Len(rest) : rest[m].keys[1] = it.keys[1]}
           moved == InsertAt(rest, place, it)
       IN  IF it.keys = <<>> THEN rest
           ELSE IF same = {} THEN moved
           ELSE Advanced(moved, Max(same) + 1)

\* The next element of the generator.
Step ==
  /\ i = 0 /\ iterators # <<>>
  /\ iterators' = Advanced(iterators, 1)
  /\ out' = Yielded(iterators')
  /\ UNCHANGED <<lists, positioned, i>>

Next == Position \/ Sort \/ Step
Spec == Init /\ [][Next]_vars

(* Each hash is yielded once, in order, from the topmost layer that has it *)
(* (asyncIterator), and none is missing at the end.                        *)
YieldsTopmost ==
  LET all == UNION Range(lists)
      want == [n \in 1..Cardinality(all) |->
                LET h == SetToSortSeq(all, <)[n]
                IN <<h, Min({d \in 1..Depth : h \in lists[d]})>>]
  IN  /\ IsPrefix(out, want)
      /\ i = 0 /\ iterators = <<>> => out = want
=============================================================================
