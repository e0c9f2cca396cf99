---------------------------- MODULE RangePlanner ----------------------------
(***************************************************************************)
(* RangePlanner of dump.cpp: the parts of a file still to be read, a list  *)
(* of half-open ranges from which Remove takes out what was read.  Remove  *)
(* finds the range b that begin falls in and the first range e from there  *)
(* on that end falls in, puts what is left of the two before b, and erases *)
(* from b to e, or to the end of the list when there is no e.              *)
(*                                                                         *)
(* A call is made with begin <= end; the class does not check it.          *)
(***************************************************************************)
EXTENDS Naturals, Sequences

CONSTANTS Lo, Hi   \* the arguments of the constructor

ASSUME RangeAssumption == Lo \in Nat /\ Hi \in Nat

VARIABLES
  RangeList_,
  request      \* the arguments of the last call of Remove

rangeVars == <<RangeList_, request>>

Range_t == [first : Lo .. Hi, second : Lo .. Hi]

(* Whatever Remove is asked for, the list holds ranges within Lo .. Hi. *)
RangesTypeOK ==
  /\ RangeList_ \in Seq(Range_t)
  /\ request \in [begin : Nat, end : Nat]

make_pair(begin, end) == [first |-> begin, second |-> end]

RangesInit ==
  /\ RangeList_ = IF Lo < Hi THEN <<make_pair(Lo, Hi)>> ELSE <<>>
  /\ request = [begin |-> Lo, end |-> Lo]

-----------------------------------------------------------------------------

overlaps_back(old, begin, end) == old.first <= begin /\ begin < old.second

(* Mutant: a range that ends where the removed one does is not found. *)
FrontStrict(old, begin, end) == old.first < end /\ end < old.second

overlaps_front(old, begin, end) == old.first < end /\ end <= old.second

(* std::find_if: the first index from i on, or the one behind the last. *)
FirstBack(begin, end) ==
  CHOOSE i \in 1 .. Len(RangeList_) + 1 :
    /\ i <= Len(RangeList_) => overlaps_back(RangeList_[i], begin, end)
    /\ \A j \in 1 .. i - 1 : ~overlaps_back(RangeList_[j], begin, end)

FirstFront(b, begin, end) ==
  CHOOSE i \in b .. Len(RangeList_) + 1 :
    /\ i <= Len(RangeList_) => overlaps_front(RangeList_[i], begin, end)
    /\ \A j \in b .. i - 1 : ~overlaps_front(RangeList_[j], begin, end)

(* Mutant: the rest is kept even when it is empty. *)
RestAlways(first, second) == <<make_pair(first, second)>>

(* The part of a range that is kept, unless it is empty. *)
Rest(first, second) ==
  IF first # second THEN <<make_pair(first, second)>> ELSE <<>>

(* The list after the two inserts before b and the erasing of b .. e. *)
Splice(b, e, begin, end) ==
  LET n == Len(RangeList_) IN
  RangeList_' =
    SubSeq(RangeList_, 1, b - 1)
      \o Rest(RangeList_[b].first, begin)
      \o (IF e <= n THEN Rest(end, RangeList_[e].second) ELSE <<>>)
      \o SubSeq(RangeList_, e + 1, n)

Remove(begin, end) ==
  LET b == FirstBack(begin, end) IN
  /\ begin < end
  /\ b <= Len(RangeList_)
  /\ Splice(b, FirstFront(b, begin, end), begin, end)

(* begin = end, or begin in no range. *)
RemoveNothing(begin, end) ==
  /\ begin = end \/ FirstBack(begin, end) > Len(RangeList_)
  /\ UNCHANGED RangeList_

RangesNext ==
  \E begin, end \in Lo .. Hi + 1 :
    /\ begin <= end
    /\ request' = [begin |-> begin, end |-> end]
    /\ Remove(begin, end) \/ RemoveNothing(begin, end)

RangesSpec == RangesInit /\ [][RangesNext]_rangeVars

-----------------------------------------------------------------------------

(* The list stays what find_if needs it to be: ranges that are not empty,  *)
(* in order, and with a gap between any two.                               *)
Ordered ==
  /\ \A i \in 1 .. Len(RangeList_) : RangeList_[i].first < RangeList_[i].second
  /\ \A i, j \in 1 .. Len(RangeList_) :
       i < j => RangeList_[i].second < RangeList_[j].first

Bytes(r) == r.first .. r.second - 1

Planned == UNION {Bytes(RangeList_[i]) : i \in 1 .. Len(RangeList_)}

(* A byte that was removed is never planned again. *)
NeverAgain == [][Planned' \subseteq Planned]_rangeVars

Promise == INSTANCE PlannedBytes WITH planned <- Planned

(* The list keeps the promise of PlannedBytes: after every call the bytes   *)
(* planned are exactly those its arguments leave.                          *)
PlannerSpec == Promise!Spec
=============================================================================
