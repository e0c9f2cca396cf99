--------------------------- MODULE FileAccessProofs --------------------------
(***************************************************************************)
(* How the program gets at its files: the memory-map cache of MemMap and   *)
(* the plan of what is still to be read of RangePlanner.  Neither uses the *)
(* other.                                                                  *)
(*                                                                         *)
(* The memory-map cache is proved correct for every set of files, handles  *)
(* and views and every finite set of users.  The inductive invariant is    *)
(* IInv; CountIsUsers is the one conjunct that needs facts about           *)
(* cardinalities, the rest is about pointers.                              *)
(*                                                                         *)
(* The list of RangePlanner stays ordered and keeps the promise of         *)
(* PlannedBytes for every initial range and every sequence of calls.       *)
(***************************************************************************)
EXTENDS MemMap, RangePlanner, Integers, FiniteSetTheorems, TLAPS

(* The users of a file form a finite set, and one more or one less of them *)
(* changes their number by one.                                            *)
LEMMA UsersFinite ==
  ASSUME NEW p \in Path
  PROVE  /\ IsFiniteSet(Users(p))
         /\ Cardinality(Users(p)) \in Nat
  BY FiniteClients, FS_Subset, FS_CardinalityType DEF Users

(* A client without a file that opens p is one more user of p. *)
LEMMA UsersAdd ==
  ASSUME NEW p \in Path, NEW c \in Client, TypeOK, FilePath[c] = NULL,
         FilePath' = [FilePath EXCEPT ![c] = p]
  PROVE  /\ Cardinality(Users(p)') = Cardinality(Users(p)) + 1
         /\ \A q \in Path \ {p} : Users(q)' = Users(q)
<1>1. Users(p)' = Users(p) \cup {c} /\ c \notin Users(p)
  BY NullAssumption DEF Users, TypeOK
<1>2. \A q \in Path \ {p} : Users(q)' = Users(q)
  BY NullAssumption DEF Users, TypeOK
<1>3. QED
  BY <1>1, <1>2, UsersFinite, FS_AddElement

(* A user of p that closes is one less. *)
LEMMA UsersRemove ==
  ASSUME NEW p \in Path, NEW c \in Client, TypeOK, FilePath[c] = p,
         FilePath' = [FilePath EXCEPT ![c] = NULL]
  PROVE  /\ Cardinality(Users(p)') = Cardinality(Users(p)) - 1
         /\ \A q \in Path \ {p} : Users(q)' = Users(q)
<1>1. Users(p)' = Users(p) \ {c} /\ c \in Users(p)
  BY NullAssumption DEF Users, TypeOK
<1>2. \A q \in Path \ {p} : Users(q)' = Users(q)
  BY NullAssumption DEF Users, TypeOK
<1>3. QED
  BY <1>1, <1>2, UsersFinite, FS_RemoveElement

-----------------------------------------------------------------------------

(* The empty cache. *)
LEMMA InitIInv == Init => IInv
<1> SUFFICES ASSUME Init PROVE IInv
  OBVIOUS
<1>1. \A p \in Path : Users(p) = {}
  BY NullAssumption DEF Init, Users
<1>2. CountIsUsers
  BY <1>1, FS_EmptySet DEF Init, CountIsUsers, NoRecord
<1>3. TypeOK
  BY DEF Init, TypeOK, NoRecord
<1>4. HandlesDistinct /\ RecordsOwn /\ NothingUnowned /\ UsersHold
  BY DEF Init, NoRecord, HandlesDistinct, RecordsOwn, NothingUnowned, UsersHold
<1>5. QED
  BY <1>2, <1>3, <1>4 DEF IInv

(* A hit leaves pointers alone and adds one user and one to one count. *)
LEMMA OpenHitIInv ==
  ASSUME IInv, NEW c \in Client, NEW p \in Path, OpenHit(c, p)
  PROVE  IInv'
<1> USE NullAssumption DEF IInv, OpenHit, Take
<1>1. FilePath[c] = NULL
  BY DEF UsersHold
<1>2. TypeOK'
  BY DEF TypeOK
<1>3. \A q \in Path : MappedFiles'[q].second = MappedFiles[q].second
  BY DEF TypeOK
<1>4. HandlesDistinct' /\ NothingUnowned'
  <2>1. HandlesDistinct'
    BY <1>3 DEF HandlesDistinct
  <2>2. NothingUnowned'
    BY <1>3 DEF NothingUnowned, TypeOK
  <2>3. QED
    BY <2>1, <2>2
<1>5. RecordsOwn'
  BY <1>3 DEF RecordsOwn, TypeOK
<1>6. UsersHold'
  BY <1>3 DEF UsersHold, TypeOK
<1>7. CountIsUsers'
  <2>1. /\ Cardinality(Users(p)') = Cardinality(Users(p)) + 1
        /\ \A q \in Path \ {p} : Users(q)' = Users(q)
    BY <1>1, UsersAdd
  <2>2. QED
    BY <2>1 DEF CountIsUsers, TypeOK
<1>8. QED
  BY <1>2, <1>4, <1>5, <1>6, <1>7

(* A miss makes a record for a free handle and, if it maps, a free view:   *)
(* no user of that path exists, and no other record can share either.      *)
LEMMA OpenMissIInv ==
  ASSUME IInv, NEW c \in Client, NEW p \in Path, NEW h \in Handle,
         NEW v \in View \cup {NULL}, OpenMiss(c, p, h, v)
  PROVE  IInv'
<1> USE NullAssumption DEF IInv, OpenMiss, Take
<1>1. FilePath[c] = NULL
  BY DEF UsersHold
<1>2. TypeOK'
  BY DEF TypeOK
<1>3. /\ MappedFiles'[p] = [first |-> 1, second |-> h]
      /\ \A q \in Path \ {p} : MappedFiles'[q] = MappedFiles[q]
      /\ \A q \in Path : MappedFiles[q].second # h
  BY DEF TypeOK, RecordsOwn
<1>4. /\ begin_'[h] = v
      /\ \A k \in Handle \ {h} : begin_'[k] = begin_[k]
  BY DEF TypeOK
<1>5. /\ v # NULL => backing'[v] = p
      /\ \A w \in View : w # v => backing'[w] = backing[w]
  BY DEF TypeOK
<1>6. HandlesDistinct'
  BY <1>3 DEF HandlesDistinct
<1>7. RecordsOwn'
  <2> SUFFICES ASSUME NEW q \in Path PROVE RecordsOwn!(q)'
    BY DEF RecordsOwn
  <2>1. CASE q = p
    BY <2>1, <1>3, <1>4, <1>5 DEF TypeOK
  <2>2. CASE q # p
    <3>1. RecordsOwn!(q)
      BY DEF RecordsOwn
    <3>2. CASE MappedFiles[q].second = NULL
      BY <2>2, <3>1, <3>2, <1>3
    <3>3. CASE MappedFiles[q].second # NULL
      <4>1. /\ MappedFiles[q].second \in Handle \ {h}
            /\ begin_'[MappedFiles[q].second] = begin_[MappedFiles[q].second]
        BY <3>3, <1>3, <1>4 DEF TypeOK
      <4>2. begin_[MappedFiles[q].second] # NULL =>
              /\ begin_[MappedFiles[q].second] \in View
              /\ begin_[MappedFiles[q].second] # v
        BY <3>1, <3>3, <4>1 DEF TypeOK
      <4>3. QED
        BY <2>2, <3>1, <3>3, <4>1, <4>2, <1>3, <1>5
    <3>4. QED
      BY <3>2, <3>3
  <2>3. QED
    BY <2>1, <2>2
<1>8. NothingUnowned'
  <2>1. ASSUME NEW k \in live'
        PROVE  \E q \in Path : MappedFiles'[q].second = k
    <3>1. CASE k = h
      BY <3>1, <1>3
    <3>2. CASE k # h
      BY <2>1, <3>2, <1>3 DEF NothingUnowned, TypeOK
    <3>3. QED
      BY <3>1, <3>2
  <2>2. ASSUME NEW w \in View, backing'[w] # NULL
        PROVE  /\ MappedFiles'[backing'[w]].second # NULL
               /\ begin_'[MappedFiles'[backing'[w]].second] = w
    <3>1. CASE w = v
      BY <3>1, <1>3, <1>4, <1>5
    <3>2. CASE w # v
      <4>1. backing'[w] = backing[w] /\ backing[w] \in Path \ {p}
        BY <2>2, <3>2, <1>5 DEF NothingUnowned, TypeOK
      <4>2. /\ MappedFiles[backing[w]].second \in Handle \ {h}
            /\ begin_[MappedFiles[backing[w]].second] = w
        BY <2>2, <4>1, <1>3 DEF NothingUnowned, TypeOK
      <4>3. QED
        BY <4>1, <4>2, <1>3, <1>4
    <3>3. QED
      BY <3>1, <3>2
  <2>3. QED
    BY <2>1, <2>2 DEF NothingUnowned
<1>9. UsersHold'
  <2> SUFFICES ASSUME NEW d \in Client PROVE UsersHold!(d)'
    BY DEF UsersHold
  <2>1. CASE d = c
    BY <2>1, <1>3, <1>4 DEF TypeOK
  <2>2. CASE d # c
    <3>1. UsersHold!(d)
      BY DEF UsersHold
    <3>2. /\ raw_file_'[d] = raw_file_[d]
          /\ FilePath'[d] = FilePath[d]
          /\ data_'[d] = data_[d]
      BY <2>2 DEF TypeOK
    <3>3. CASE raw_file_[d] = NULL
      BY <3>1, <3>2, <3>3
    <3>4. CASE raw_file_[d] # NULL
      <4>1. FilePath[d] \in Path \ {p} /\ raw_file_[d] \in Handle \ {h}
        BY <3>1, <3>4, <1>3 DEF TypeOK
      <4>2. QED
        BY <3>1, <3>2, <3>4, <4>1, <1>3, <1>4
    <3>5. QED
      BY <3>3, <3>4
  <2>3. QED
    BY <2>1, <2>2
<1>10. CountIsUsers'
  <2>1. /\ Cardinality(Users(p)') = Cardinality(Users(p)) + 1
        /\ \A q \in Path \ {p} : Users(q)' = Users(q)
    BY <1>1, UsersAdd
  <2>2. Cardinality(Users(p)) = 0
    BY DEF CountIsUsers, RecordsOwn
  <2>3. QED
    BY <2>1, <2>2, <1>3 DEF CountIsUsers
<1>11. QED
  BY <1>2, <1>6, <1>7, <1>8, <1>9, <1>10

-----------------------------------------------------------------------------

(* What UsersHold and HandlesDistinct say of one user: its handle selects  *)
(* the record of its path alone, whose count is at least one.              *)
LEMMA OwnRecord ==
  ASSUME IInv, NEW c \in Client, raw_file_[c] # NULL
  PROVE  /\ FilePath[c] \in Path
         /\ Records(raw_file_[c]) = {FilePath[c]}
         /\ MappedFiles[FilePath[c]].second = raw_file_[c]
         /\ MappedFiles[FilePath[c]].first \in Nat \ {0}
<1>1. /\ FilePath[c] \in Path
      /\ MappedFiles[FilePath[c]].second = raw_file_[c]
  BY DEF IInv, UsersHold, TypeOK
<1>2. Records(raw_file_[c]) = {FilePath[c]}
  BY <1>1 DEF Records, IInv, HandlesDistinct
<1>3. MappedFiles[FilePath[c]].first \in Nat \ {0}
  BY <1>1 DEF IInv, RecordsOwn, TypeOK
<1>4. QED
  BY <1>1, <1>2, <1>3

(* A count of one means that the user is the only one left. *)
LEMMA LastUser ==
  ASSUME IInv, NEW c \in Client, raw_file_[c] # NULL
  PROVE  MappedFiles[FilePath[c]].first = 1 <=> Users(FilePath[c]) = {c}
<1> DEFINE p == FilePath[c]
<1>1. p \in Path /\ c \in Users(p)
  BY OwnRecord DEF Users
<1>2. IsFiniteSet(Users(p)) /\ Cardinality(Users(p)) \in Nat
  BY <1>1, UsersFinite
<1>3. Cardinality(Users(p)) = 1 <=> \E d : Users(p) = {d}
  BY <1>2, FS_Singleton
<1>4. Cardinality(Users(p)) = 1 <=> Users(p) = {c}
  BY <1>1, <1>3
<1>5. MappedFiles[p].first = Cardinality(Users(p))
  BY <1>1 DEF IInv, CountIsUsers
<1>6. QED
  BY <1>4, <1>5

(* Close with other users left: only one count and one user change. *)
LEMMA CloseSharedIInv ==
  ASSUME IInv, NEW c \in Client, Close(c),
         MappedFiles[FilePath[c]].first # 1
  PROVE  IInv'
<1>0. PICK p \in Path : p = FilePath[c]
  BY OwnRecord DEF Close
<1>1. /\ raw_file_[c] # NULL
      /\ p = FilePath[c]
      /\ MappedFiles[p].first \in Nat \ {0, 1}
      /\ MappedFiles' = [MappedFiles EXCEPT ![p].first = @ - 1]
      /\ UNCHANGED <<live, backing, begin_>>
      /\ Drop(c)
  BY <1>0, OwnRecord DEF Close, ReleaseRecord
<1> USE NullAssumption DEF IInv, Drop
<1>2. TypeOK'
  <2>1. MappedFiles[p].first - 1 \in Nat
    BY <1>1
  <2>2. MappedFiles' \in [Path -> [first : Nat, second : Handle \cup {NULL}]]
    BY <1>1, <2>1 DEF TypeOK
  <2>3. QED
    BY <1>1, <2>2 DEF TypeOK
<1>3. \A q \in Path : MappedFiles'[q].second = MappedFiles[q].second
  BY <1>1 DEF TypeOK
<1>4. HandlesDistinct'
  BY <1>3 DEF HandlesDistinct
<1>5. NothingUnowned'
  BY <1>1, <1>3 DEF NothingUnowned, TypeOK
<1>6. RecordsOwn'
  BY <1>1, <1>3 DEF RecordsOwn, TypeOK
<1>7. UsersHold'
  BY <1>1, <1>3 DEF UsersHold, TypeOK
<1>8. CountIsUsers'
  <2>1. /\ Cardinality(Users(p)') = Cardinality(Users(p)) - 1
        /\ \A q \in Path \ {p} : Users(q)' = Users(q)
    BY <1>1, UsersRemove
  <2>2. QED
    BY <1>1, <2>1 DEF CountIsUsers, TypeOK
<1>9. QED
  BY <1>2, <1>4, <1>5, <1>6, <1>7, <1>8

(* Close by the last user: the record, its memmap_t and its view go, and   *)
(* nobody else held any of them.                                           *)
LEMMA CloseLastIInv ==
  ASSUME IInv, NEW c \in Client, Close(c),
         MappedFiles[FilePath[c]].first = 1
  PROVE  IInv'
<1>0. PICK p \in Path, h \in Handle, v \in View \cup {NULL} :
        p = FilePath[c] /\ h = raw_file_[c] /\ v = begin_[h]
  BY OwnRecord DEF Close, IInv, TypeOK
<1>1. /\ h = raw_file_[c] /\ v = begin_[h] /\ h # NULL
      /\ p = FilePath[c]
      /\ MappedFiles[p].second = h
      /\ MappedFiles' = [MappedFiles EXCEPT ![p] = NoRecord]
      /\ live' = live \ {h}
      /\ UnmapViewOfFile(v)
      /\ begin_' = begin_
      /\ Drop(c)
  BY <1>0, OwnRecord DEF Close, ReleaseRecord
<1>2. Users(p) = {c}
  BY <1>1, LastUser DEF Close
<1> USE NullAssumption DEF IInv, Drop, UnmapViewOfFile, NoRecord
<1>4. TypeOK'
  BY <1>1 DEF TypeOK
<1>5. /\ MappedFiles'[p] = NoRecord
      /\ \A q \in Path \ {p} :
           /\ MappedFiles'[q] = MappedFiles[q]
           /\ MappedFiles[q].second # h
  BY <1>1 DEF TypeOK, HandlesDistinct
<1>6. /\ v # NULL => backing[v] = p /\ backing'[v] = NULL
      /\ \A w \in View : w # v => backing'[w] = backing[w]
  BY <1>1 DEF TypeOK, RecordsOwn
<1>7. HandlesDistinct'
  BY <1>5 DEF HandlesDistinct
<1>8. RecordsOwn'
  <2> SUFFICES ASSUME NEW q \in Path PROVE RecordsOwn!(q)'
    BY DEF RecordsOwn
  <2>1. CASE q = p
    BY <2>1, <1>5
  <2>2. CASE q # p
    <3>1. RecordsOwn!(q) /\ MappedFiles'[q] = MappedFiles[q] /\ MappedFiles[q].second # h
      BY <2>2, <1>5 DEF RecordsOwn
    <3>2. CASE MappedFiles[q].second = NULL
      BY <3>1, <3>2
    <3>3. CASE MappedFiles[q].second # NULL
      <4>1. begin_[MappedFiles[q].second] # NULL =>
              /\ begin_[MappedFiles[q].second] \in View
              /\ begin_[MappedFiles[q].second] # v
        BY <2>2, <3>1, <3>3, <1>6 DEF TypeOK
      <4>2. QED
        BY <3>1, <3>3, <4>1, <1>1, <1>6
    <3>4. QED
      BY <3>2, <3>3
  <2>3. QED
    BY <2>1, <2>2
<1>9. NothingUnowned'
  <2>1. ASSUME NEW k \in live'
        PROVE  \E q \in Path : MappedFiles'[q].second = k
    BY <2>1, <1>1, <1>5 DEF NothingUnowned
  <2>2. ASSUME NEW w \in View, backing'[w] # NULL
        PROVE  /\ MappedFiles'[backing'[w]].second # NULL
               /\ begin_'[MappedFiles'[backing'[w]].second] = w
    <3>1. w # v /\ backing'[w] = backing[w]
      BY <2>2, <1>6
    <3>2. /\ backing[w] \in Path
          /\ MappedFiles[backing[w]].second # NULL
          /\ begin_[MappedFiles[backing[w]].second] = w
      BY <2>2, <3>1 DEF NothingUnowned, TypeOK
    <3>3. backing[w] # p
      BY <3>1, <3>2, <1>1
    <3>4. QED
      BY <3>1, <3>2, <3>3, <1>1, <1>5
  <2>3. QED
    BY <2>1, <2>2 DEF NothingUnowned
<1>10. UsersHold'
  <2> SUFFICES ASSUME NEW d \in Client PROVE UsersHold!(d)'
    BY DEF UsersHold
  <2>1. CASE d = c
    BY <2>1, <1>1 DEF TypeOK
  <2>2. CASE d # c
    <3>1. UsersHold!(d) /\ FilePath[d] # p
      BY <2>2, <1>2 DEF UsersHold, Users
    <3>2. /\ raw_file_'[d] = raw_file_[d]
          /\ FilePath'[d] = FilePath[d]
          /\ data_'[d] = data_[d]
      BY <2>2, <1>1 DEF TypeOK
    <3>3. FilePath[d] # NULL => FilePath[d] \in Path \ {p}
      BY <3>1 DEF TypeOK
    <3>4. QED
      BY <3>1, <3>2, <3>3, <1>1, <1>5
  <2>3. QED
    BY <2>1, <2>2
<1>11. CountIsUsers'
  <2>1. /\ Cardinality(Users(p)') = Cardinality(Users(p)) - 1
        /\ \A q \in Path \ {p} : Users(q)' = Users(q)
    BY <1>1, UsersRemove
  <2>2. Cardinality(Users(p)) = 1
    BY <1>1 DEF CountIsUsers
  <2>3. QED
    BY <1>5, <2>1, <2>2 DEF CountIsUsers
<1>12. QED
  BY <1>4, <1>7, <1>8, <1>9, <1>10, <1>11

(* A close is the one or the other. *)
LEMMA CloseIInv ==
  ASSUME IInv, NEW c \in Client, Close(c)
  PROVE  IInv'
  BY CloseLastIInv, CloseSharedIInv

(* Nothing changes. *)
LEMMA StutterIInv == IInv /\ UNCHANGED vars => IInv'
  BY DEF vars, IInv, TypeOK, HandlesDistinct, RecordsOwn, NothingUnowned,
         UsersHold, CountIsUsers, Users

-----------------------------------------------------------------------------

(* IInv is inductive, so it holds in every reachable state of the cache:   *)
(* records, memmap_t objects, views and users stay matched one to one.     *)
THEOREM Invariance == Spec => []IInv
<1>1. IInv /\ [Next]_vars => IInv'
  <2> SUFFICES ASSUME IInv, [Next]_vars PROVE IInv'
    OBVIOUS
  <2>1. ASSUME NEW c \in Client, NEW p \in Path, OpenHit(c, p)
        PROVE  IInv'
    BY <2>1, OpenHitIInv
  <2>2. ASSUME NEW c \in Client, NEW p \in Path, NEW h \in Handle,
               NEW v \in View \cup {NULL}, OpenMiss(c, p, h, v)
        PROVE  IInv'
    BY <2>2, OpenMissIInv
  <2>3. ASSUME NEW c \in Client, Close(c)
        PROVE  IInv'
    BY <2>3, CloseIInv
  <2>4. CASE UNCHANGED vars
    BY <2>4, StutterIInv
  <2>5. QED
    BY <2>1, <2>2, <2>3, <2>4 DEF Next
<1>2. QED
  BY InitIInv, <1>1, PTL DEF Spec

(* The variables of the cache have their types in every reachable state.   *)
THEOREM TypeCorrect == Spec => []TypeOK
<1>1. IInv => TypeOK
  BY DEF IInv
<1>2. QED
  BY Invariance, <1>1, PTL

(* Counting in open and in close never drifts from the number of users.    *)
THEOREM CountCorrect == Spec => []CountIsUsers
<1>1. IInv => CountIsUsers
  BY DEF IInv
<1>2. QED
  BY Invariance, <1>1, PTL

(* The search by pointer in close always finds the user's own record.      *)
THEOREM CloseFinds == Spec => []CloseFindsOwnRecord
<1>1. IInv => CloseFindsOwnRecord
  BY OwnRecord DEF CloseFindsOwnRecord
<1>2. QED
  BY Invariance, <1>1, PTL

(* No user ever holds a pointer into a view that was unmapped or reused.   *)
THEOREM NoDangling == Spec => []NoDanglingUser
<1>1. ASSUME IInv, NEW c \in Client, raw_file_[c] # NULL
      PROVE  /\ raw_file_[c] \in live
             /\ begin_[raw_file_[c]] = data_[c]
             /\ data_[c] # NULL => backing[data_[c]] = FilePath[c]
  <2>1. /\ FilePath[c] \in Path
        /\ MappedFiles[FilePath[c]].second = raw_file_[c]
    BY <1>1, OwnRecord
  <2>2. data_[c] = begin_[raw_file_[c]]
    BY <1>1 DEF IInv, UsersHold
  <2>3. QED
    BY <1>1, <2>1, <2>2 DEF IInv, RecordsOwn
<1>2. IInv => NoDanglingUser
  BY <1>1 DEF NoDanglingUser
<1>3. QED
  BY Invariance, <1>2, PTL

(* Whatever is allocated or mapped still has a user. *)
THEOREM NothingLeaks == Spec => []NoLeak
<1>1. ASSUME IInv, NEW h \in live
      PROVE  Records(h) # {}
  BY <1>1 DEF IInv, NothingUnowned, Records
<1>2. ASSUME IInv, NEW v \in View, backing[v] # NULL
      PROVE  \E c \in Client : FilePath[c] = backing[v] /\ data_[c] = v
  <2>1. PICK p \in Path : p = backing[v]
    BY <1>2 DEF IInv, TypeOK
  <2>2. /\ MappedFiles[p].second # NULL
        /\ begin_[MappedFiles[p].second] = v
    BY <1>2, <2>1 DEF IInv, NothingUnowned
  <2>3. Cardinality(Users(p)) # 0
    BY <1>2, <2>2 DEF IInv, RecordsOwn, CountIsUsers
  <2>4. PICK c \in Client : FilePath[c] = p
    BY <2>3, FS_EmptySet DEF Users
  <2>5. raw_file_[c] # NULL
    BY <1>2, <2>4, NullAssumption DEF IInv, UsersHold
  <2>6. data_[c] = v
    BY <1>2, <2>2, <2>4, <2>5 DEF IInv, UsersHold
  <2>7. QED
    BY <2>1, <2>4, <2>6
<1>3. IInv => NoLeak
  BY <1>1, <1>2 DEF NoLeak
<1>4. QED
  BY Invariance, <1>3, PTL

-----------------------------------------------------------------------------

(* The abstract image of a file changes only when its record does. *)
LEMMA ImageKept ==
  ASSUME IInv, NEW p \in Path,
         MappedFiles'[p].second = MappedFiles[p].second,
         MappedFiles[p].second # NULL =>
           begin_'[MappedFiles[p].second] = begin_[MappedFiles[p].second]
  PROVE  Image(p)' = Image(p)
  BY DEF Image

(* A hit is a shared lease. *)
LEMMA OpenHitShares ==
  ASSUME IInv, NEW c \in Client, NEW p \in Path, OpenHit(c, p)
  PROVE  Lease!Share(c, p)
<1>1. \A q \in Path : Image(q)' = Image(q)
  BY ImageKept DEF OpenHit, IInv, TypeOK
<1>2. Image(p) # NoImage
  BY NullAssumption DEF OpenHit, Image, IInv, TypeOK
<1>3. FilePath[c] = NULL
  BY DEF OpenHit, IInv, UsersHold
<1>4. QED
  BY <1>1, <1>2, <1>3 DEF OpenHit, Take, Lease!Share

(* A miss makes the image, at a view that shows no other file. *)
LEMMA OpenMissAcquires ==
  ASSUME IInv, NEW c \in Client, NEW p \in Path, NEW h \in Handle,
         NEW v \in View \cup {NULL}, OpenMiss(c, p, h, v)
  PROVE  Lease!Acquire(c, p, v)
<1>1. Image(p) = NoImage
  BY DEF OpenMiss, Image
<1>2. Image(p)' = v
  BY NullAssumption DEF OpenMiss, Image, IInv, TypeOK
<1>3. \A q \in Path \ {p} : Image(q)' = Image(q)
  <2> SUFFICES ASSUME NEW q \in Path \ {p} PROVE Image(q)' = Image(q)
    OBVIOUS
  <2>1. MappedFiles'[q] = MappedFiles[q] /\ MappedFiles[q].second # h
    BY NullAssumption DEF OpenMiss, IInv, TypeOK, RecordsOwn
  <2>2. MappedFiles[q].second # NULL =>
          begin_'[MappedFiles[q].second] = begin_[MappedFiles[q].second]
    BY <2>1 DEF OpenMiss, IInv, TypeOK
  <2>3. QED
    BY <2>1, <2>2, ImageKept
<1>4. v # NULL => v \in Lease!Vacant
  <2> SUFFICES ASSUME v # NULL, NEW q \in Path PROVE Image(q) # v
    BY DEF Lease!Vacant
  <2>1. backing[v] = NULL
    BY DEF OpenMiss
  <2>2. CASE MappedFiles[q].second = NULL
    BY <2>2, NullAssumption DEF Image
  <2>3. CASE MappedFiles[q].second # NULL
    BY <2>1, <2>3, NullAssumption DEF Image, IInv, RecordsOwn
  <2>4. QED
    BY <2>2, <2>3
<1>5. FilePath[c] = NULL
  BY DEF OpenMiss, IInv, UsersHold
<1>6. QED
  BY <1>1, <1>2, <1>3, <1>4, <1>5 DEF OpenMiss, Take, Lease!Acquire

(* A close returns a lease, and drops the image exactly with the last one. *)
LEMMA CloseReleases ==
  ASSUME IInv, NEW c \in Client, Close(c)
  PROVE  Lease!Release(c)
<1>1. PICK p \in Path : p = FilePath[c]
  BY OwnRecord DEF Close
<1>2. Lease!Holders(p) = Users(p)
  BY DEF Lease!Holders, Users
<1>3. \A q \in Path \ {p} : Image(q)' = Image(q)
  <2> SUFFICES ASSUME NEW q \in Path \ {p} PROVE Image(q)' = Image(q)
    OBVIOUS
  <2>1. MappedFiles'[q] = MappedFiles[q] /\ begin_' = begin_
    BY <1>1, OwnRecord DEF Close, ReleaseRecord, IInv, TypeOK
  <2>2. QED
    BY <2>1, ImageKept
<1>4. Image(p)' = IF Users(p) = {c} THEN NoImage ELSE Image(p)
  <2>1. CASE MappedFiles[p].first = 1
    <3>1. Users(p) = {c}
      BY <2>1, <1>1, LastUser DEF Close
    <3>2. MappedFiles'[p] = NoRecord
      <4>1. MappedFiles' = [MappedFiles EXCEPT ![p] = NoRecord]
        BY <2>1, <1>1, OwnRecord DEF Close, ReleaseRecord
      <4>2. QED
        BY <4>1 DEF IInv, TypeOK
    <3>3. QED
      BY <3>1, <3>2 DEF Image, NoRecord
  <2>2. CASE MappedFiles[p].first # 1
    <3>1. Users(p) # {c}
      BY <2>2, <1>1, LastUser DEF Close
    <3>2. MappedFiles'[p].second = MappedFiles[p].second /\ begin_' = begin_
      BY <2>2, <1>1, OwnRecord DEF Close, ReleaseRecord, IInv, TypeOK
    <3>3. QED
      BY <3>1, <3>2, ImageKept
  <2>3. QED
    BY <2>1, <2>2
<1>5. FilePath' = [FilePath EXCEPT ![c] = NULL] /\ FilePath[c] # NULL
  BY <1>1, NullAssumption DEF Close, Drop
<1>6. QED
  BY <1>1, <1>2, <1>3, <1>4, <1>5 DEF Lease!Release

(* The cache implements FileLease: through every interleaving of its       *)
(* users a file has one stable image for as long as anyone uses it.        *)
THEOREM Refinement == Spec => LeaseSpec
<1>1. Init => Lease!Init
  BY DEF Init, Lease!Init, Image, NoRecord
<1>2. IInv /\ [Next]_vars => [Lease!Next]_(Lease!vars)
  <2> SUFFICES ASSUME IInv, [Next]_vars
               PROVE  Lease!Next \/ UNCHANGED Lease!vars
    OBVIOUS
  <2>1. ASSUME NEW c \in Client, NEW p \in Path, OpenHit(c, p)
        PROVE  Lease!Next
    BY <2>1, OpenHitShares DEF Lease!Next
  <2>2. ASSUME NEW c \in Client, NEW p \in Path, NEW h \in Handle,
               NEW v \in View \cup {NULL}, OpenMiss(c, p, h, v)
        PROVE  Lease!Next
    BY <2>2, OpenMissAcquires DEF Lease!Next
  <2>3. ASSUME NEW c \in Client, Close(c)
        PROVE  Lease!Next
    BY <2>3, CloseReleases DEF Lease!Next
  <2>4. ASSUME UNCHANGED vars
        PROVE  UNCHANGED Lease!vars
    BY <2>4 DEF vars, Lease!vars, Image
  <2>5. QED
    BY <2>1, <2>2, <2>3, <2>4 DEF Next
<1>3. QED
  BY <1>1, <1>2, Invariance, PTL DEF Spec, LeaseSpec, Lease!Spec

-----------------------------------------------------------------------------

(* L is the ranges of P, then those of F, of B and of T. *)
IsConcat(L, P, F, B, T) ==
  /\ L \in Seq(Range_t)
  /\ Len(L) = Len(P) + Len(F) + Len(B) + Len(T)
  /\ \A i \in 1 .. Len(P) : L[i] = P[i]
  /\ \A i \in 1 .. Len(F) : L[Len(P) + i] = F[i]
  /\ \A i \in 1 .. Len(B) : L[Len(P) + Len(F) + i] = B[i]
  /\ \A i \in 1 .. Len(T) : L[Len(P) + Len(F) + Len(B) + i] = T[i]

(* Joining four lists of ranges keeps every range of each at its offset. *)
LEMMA Concat ==
  ASSUME NEW P \in Seq(Range_t), NEW F \in Seq(Range_t),
         NEW B \in Seq(Range_t), NEW T \in Seq(Range_t)
  PROVE  IsConcat(P \o F \o B \o T, P, F, B, T)
<1>1. P \o F \in Seq(Range_t) /\ Len(P \o F) = Len(P) + Len(F)
  OBVIOUS
<1>2. /\ P \o F \o B \in Seq(Range_t)
      /\ Len(P \o F \o B) = Len(P) + Len(F) + Len(B)
  BY <1>1
<1>3. /\ \A i \in 1 .. Len(P) : (P \o F)[i] = P[i]
      /\ \A i \in 1 .. Len(F) : (P \o F)[Len(P) + i] = F[i]
  OBVIOUS
<1>4. /\ \A i \in 1 .. Len(P) + Len(F) : (P \o F \o B)[i] = (P \o F)[i]
      /\ \A i \in 1 .. Len(B) : (P \o F \o B)[Len(P) + Len(F) + i] = B[i]
  BY <1>1
<1>5. /\ P \o F \o B \o T \in Seq(Range_t)
      /\ Len(P \o F \o B \o T) = Len(P) + Len(F) + Len(B) + Len(T)
      /\ \A i \in 1 .. Len(P) + Len(F) + Len(B) :
           (P \o F \o B \o T)[i] = (P \o F \o B)[i]
      /\ \A i \in 1 .. Len(T) :
           (P \o F \o B \o T)[Len(P) + Len(F) + Len(B) + i] = T[i]
  BY <1>2
<1> QED
  BY <1>3, <1>4, <1>5 DEF IsConcat

(* What RangesTypeOK says of the list and of each of its ranges. *)
LEMMA ListFacts ==
  ASSUME RangesTypeOK
  PROVE  /\ Len(RangeList_) \in Nat
         /\ \A i \in 1 .. Len(RangeList_) :
              /\ RangeList_[i] \in Range_t
              /\ RangeList_[i].first \in Nat
              /\ RangeList_[i].second \in Nat
<1>1. /\ Len(RangeList_) \in Nat
      /\ \A i \in 1 .. Len(RangeList_) : RangeList_[i] \in Range_t
  BY DEF RangesTypeOK
<1>2. \A r \in Range_t : r.first \in Nat /\ r.second \in Nat
  BY RangeAssumption DEF Range_t
<1> QED
  BY <1>1, <1>2

(* A byte is in the ranges of a list when it is within one of them. *)
LEMMA InRanges ==
  ASSUME NEW L \in Seq(Range_t), NEW x
  PROVE  x \in UNION {Bytes(L[i]) : i \in 1 .. Len(L)} <=>
           /\ x \in Int
           /\ \E i \in 1 .. Len(L) : L[i].first <= x /\ x < L[i].second
<1>1. \A i \in 1 .. Len(L) : L[i].first \in Nat /\ L[i].second \in Nat
  <2>1. \A i \in 1 .. Len(L) : L[i] \in Range_t
    OBVIOUS
  <2>2. \A r \in Range_t : r.first \in Nat /\ r.second \in Nat
    BY RangeAssumption DEF Range_t
  <2> QED
    BY <2>1, <2>2
<1>2. \A i \in 1 .. Len(L) :
        x \in Bytes(L[i]) <=> x \in Int /\ L[i].first <= x /\ x < L[i].second
  BY <1>1 DEF Bytes
<1> QED
  BY <1>2

(* In an ordered list the range of begin is found if there is one. *)
LEMMA FindBack ==
  ASSUME RangesTypeOK, Ordered, NEW begin \in Nat, NEW end
  PROVE  LET b == FirstBack(begin, end)
             n == Len(RangeList_)
         IN \/ /\ b \in 1 .. n
               /\ overlaps_back(RangeList_[b], begin, end)
            \/ /\ b = n + 1
               /\ \A j \in 1 .. n : ~overlaps_back(RangeList_[j], begin, end)
<1> DEFINE n == Len(RangeList_)
           ok(i) == /\ i <= n => overlaps_back(RangeList_[i], begin, end)
                    /\ \A j \in 1 .. i - 1 :
                         ~overlaps_back(RangeList_[j], begin, end)
<1>1. /\ n \in Nat
      /\ \A i \in 1 .. n :
           RangeList_[i].first \in Nat /\ RangeList_[i].second \in Nat
  BY ListFacts
<1>2. \E i \in 1 .. n + 1 : ok(i)
  <2>1. CASE \E i \in 1 .. n : overlaps_back(RangeList_[i], begin, end)
    <3>1. PICK i \in 1 .. n : overlaps_back(RangeList_[i], begin, end)
      BY <2>1
    <3>2. \A j \in 1 .. i - 1 : ~overlaps_back(RangeList_[j], begin, end)
      BY <1>1, <3>1 DEF Ordered, overlaps_back
    <3> QED
      BY <1>1, <3>1, <3>2
  <2>2. CASE \A i \in 1 .. n : ~overlaps_back(RangeList_[i], begin, end)
    <3>1. ok(n + 1)
      BY <1>1, <2>2
    <3> QED
      BY <1>1, <3>1
  <2> QED
    BY <2>1, <2>2
<1>3. FirstBack(begin, end) \in 1 .. n + 1 /\ ok(FirstBack(begin, end))
  <2> HIDE DEF ok
  <2>1. FirstBack(begin, end) = CHOOSE i \in 1 .. n + 1 : ok(i)
    BY DEF FirstBack, ok
  <2> QED
    BY <1>2, <2>1
<1> QED
  BY <1>1, <1>3

(* The same of the range of end, from b on. *)
LEMMA FindFront ==
  ASSUME RangesTypeOK, Ordered, NEW begin \in Nat, NEW end \in Nat,
         NEW b \in 1 .. Len(RangeList_), begin < end,
         overlaps_back(RangeList_[b], begin, end)
  PROVE  LET e == FirstFront(b, begin, end)
             n == Len(RangeList_)
         IN \/ /\ e \in b .. n
               /\ overlaps_front(RangeList_[e], begin, end)
            \/ /\ e = n + 1
               /\ \A j \in 1 .. n : ~overlaps_front(RangeList_[j], begin, end)
<1> DEFINE n == Len(RangeList_)
           ok(i) == /\ i <= n => overlaps_front(RangeList_[i], begin, end)
                    /\ \A j \in b .. i - 1 :
                         ~overlaps_front(RangeList_[j], begin, end)
<1>1. /\ n \in Nat
      /\ \A i \in 1 .. n :
           RangeList_[i].first \in Nat /\ RangeList_[i].second \in Nat
  BY ListFacts
<1>2. \A j \in 1 .. b - 1 : ~overlaps_front(RangeList_[j], begin, end)
  BY <1>1 DEF Ordered, overlaps_front, overlaps_back
<1>3. \E i \in b .. n + 1 : ok(i)
  <2>1. CASE \E i \in b .. n : overlaps_front(RangeList_[i], begin, end)
    <3>1. PICK i \in b .. n : overlaps_front(RangeList_[i], begin, end)
      BY <2>1
    <3>2. \A j \in b .. i - 1 : ~overlaps_front(RangeList_[j], begin, end)
      BY <1>1, <3>1 DEF Ordered, overlaps_front
    <3>3. i \in b .. n + 1 /\ ok(i)
      BY <1>1, <3>1, <3>2
    <3> QED
      BY <3>3
  <2>2. CASE \A i \in b .. n : ~overlaps_front(RangeList_[i], begin, end)
    <3>1. n + 1 \in b .. n + 1 /\ ok(n + 1)
      BY <1>1, <2>2
    <3> QED
      BY <3>1
  <2> QED
    BY <2>1, <2>2
<1>4. FirstFront(b, begin, end) \in b .. n + 1 /\ ok(FirstFront(b, begin, end))
  <2> HIDE DEF ok
  <2>1. FirstFront(b, begin, end) = CHOOSE i \in b .. n + 1 : ok(i)
    BY DEF FirstFront, ok
  <2> QED
    BY <1>3, <2>1
<1> DEFINE e == FirstFront(b, begin, end)
<1> HIDE DEF e
<1>5. CASE e <= n
  <2>1. e \in b .. n /\ overlaps_front(RangeList_[e], begin, end)
    BY <1>1, <1>4, <1>5 DEF e
  <2> QED
    BY <2>1 DEF e
<1>6. CASE ~(e <= n)
  <2>1. e = n + 1
    BY <1>1, <1>4, <1>6 DEF e
  <2>2. \A j \in b .. n : ~overlaps_front(RangeList_[j], begin, end)
    BY <1>1, <1>4, <2>1 DEF e
  <2>3. \A j \in 1 .. n : ~overlaps_front(RangeList_[j], begin, end)
    <3> SUFFICES ASSUME NEW j \in 1 .. n
                 PROVE  ~overlaps_front(RangeList_[j], begin, end)
      OBVIOUS
    <3>1. j \in 1 .. b - 1 \/ j \in b .. n
      BY <1>1
    <3> QED
      BY <1>2, <2>2, <3>1
  <2> QED
    BY <2>1, <2>3 DEF e
<1> QED
  BY <1>5, <1>6

-----------------------------------------------------------------------------

(* The list after a call that found begin, range by range: the ranges in   *)
(* front of b, then what is left of b and of e, then the ranges behind e.  *)
LEMMA Spliced ==
  ASSUME RangesTypeOK, Ordered, NEW begin \in Nat, NEW end \in Lo .. Hi + 1,
         NEW b \in 1 .. Len(RangeList_), NEW e \in b .. Len(RangeList_) + 1,
         begin < end, overlaps_back(RangeList_[b], begin, end),
         e <= Len(RangeList_) => overlaps_front(RangeList_[e], begin, end),
         Splice(b, e, begin, end)
  PROVE  LET n == Len(RangeList_)
             F == Rest(RangeList_[b].first, begin)
             B == IF e <= n THEN Rest(end, RangeList_[e].second) ELSE <<>>
             m == Len(F) + Len(B)
         IN /\ RangeList_' \in Seq(Range_t)
            /\ F \in Seq(Range_t) /\ B \in Seq(Range_t)
            /\ Len(RangeList_') = b - 1 + m + (IF e <= n THEN n - e ELSE 0)
            /\ \A i \in 1 .. b - 1 : RangeList_'[i] = RangeList_[i]
            /\ \A i \in 1 .. Len(F) : RangeList_'[b - 1 + i] = F[i]
            /\ \A i \in 1 .. Len(B) : RangeList_'[b - 1 + Len(F) + i] = B[i]
            /\ \A i \in 1 .. n - e : RangeList_'[b - 1 + m + i] = RangeList_[e + i]
<1> DEFINE n == Len(RangeList_)
           F == Rest(RangeList_[b].first, begin)
           B == IF e <= n THEN Rest(end, RangeList_[e].second) ELSE <<>>
           P == SubSeq(RangeList_, 1, b - 1)
           T == SubSeq(RangeList_, e + 1, n)
<1>1. /\ n \in Nat /\ RangeList_ \in Seq(Range_t)
      /\ b \in Nat /\ e \in Nat
      /\ RangeList_[b] \in Range_t
      /\ e <= n => RangeList_[e] \in Range_t
  BY ListFacts DEF RangesTypeOK
<1>2. /\ P \in Seq(Range_t) /\ Len(P) = b - 1
      /\ \A i \in 1 .. b - 1 : P[i] = RangeList_[i]
  BY <1>1
<1>3. /\ T \in Seq(Range_t) /\ Len(T) = IF e <= n THEN n - e ELSE 0
      /\ \A i \in 1 .. n - e : T[i] = RangeList_[e + i]
  BY <1>1
<1>4. F \in Seq(Range_t)
  <2>1. /\ RangeList_[b].first \in Lo .. Hi /\ RangeList_[b].second \in Lo .. Hi
        /\ RangeList_[b].first <= begin /\ begin < RangeList_[b].second
    BY <1>1 DEF Range_t, overlaps_back
  <2>2. begin \in Lo .. Hi
    BY <2>1, RangeAssumption
  <2>3. make_pair(RangeList_[b].first, begin) \in Range_t
    BY <2>1, <2>2 DEF Range_t, make_pair
  <2> QED
    BY <2>3 DEF Rest
<1>5. B \in Seq(Range_t)
  <2>1. ASSUME e <= n PROVE make_pair(end, RangeList_[e].second) \in Range_t
    <3>1. /\ RangeList_[e].first \in Lo .. Hi /\ RangeList_[e].second \in Lo .. Hi
          /\ RangeList_[e].first < end /\ end <= RangeList_[e].second
      BY <1>1, <2>1 DEF Range_t, overlaps_front
    <3>2. end \in Lo .. Hi
      BY <3>1, RangeAssumption
    <3> QED
      BY <3>1, <3>2 DEF Range_t, make_pair
  <2> QED
    BY <2>1 DEF Rest
<1>6. RangeList_' = P \o F \o B \o T
  BY DEF Splice
<1> HIDE DEF P, T, F, B
<1>7. /\ RangeList_' \in Seq(Range_t)
      /\ Len(RangeList_') = Len(P) + Len(F) + Len(B) + Len(T)
      /\ \A i \in 1 .. Len(P) : RangeList_'[i] = P[i]
      /\ \A i \in 1 .. Len(F) : RangeList_'[Len(P) + i] = F[i]
      /\ \A i \in 1 .. Len(B) : RangeList_'[Len(P) + Len(F) + i] = B[i]
      /\ \A i \in 1 .. Len(T) :
           RangeList_'[Len(P) + Len(F) + Len(B) + i] = T[i]
  <2>1. /\ P \in Seq(Range_t) /\ F \in Seq(Range_t)
        /\ B \in Seq(Range_t) /\ T \in Seq(Range_t)
    BY <1>2, <1>3, <1>4, <1>5
  <2>2. IsConcat(P \o F \o B \o T, P, F, B, T)
    BY <2>1, Concat
  <2> QED
    BY <1>6, <2>2 DEF IsConcat
<1>8. Len(F) \in Nat /\ Len(B) \in Nat
  BY <1>4, <1>5
<1>9. Len(RangeList_') = b - 1 + (Len(F) + Len(B)) + (IF e <= n THEN n - e ELSE 0)
  <2>1. Len(RangeList_') = (b - 1) + Len(F) + Len(B) + (IF e <= n THEN n - e ELSE 0)
    <3>1. Len(P) = b - 1 /\ Len(T) = IF e <= n THEN n - e ELSE 0
      BY <1>2, <1>3
    <3>2. Len(RangeList_') = Len(P) + Len(F) + Len(B) + Len(T)
      BY <1>7
    <3> QED
      BY <3>1, <3>2
  <2>2. (IF e <= n THEN n - e ELSE 0) \in Int /\ b - 1 \in Int
    BY <1>1
  <2>3. ASSUME NEW i \in Int, NEW j \in Nat, NEW k \in Nat, NEW l \in Int
        PROVE  i + j + k + l = i + (j + k) + l
    OBVIOUS
  <2>4. (b - 1) + Len(F) + Len(B) + (IF e <= n THEN n - e ELSE 0)
          = (b - 1) + (Len(F) + Len(B)) + (IF e <= n THEN n - e ELSE 0)
    BY ZenonT(30), <1>8, <2>2, <2>3
  <2> QED
    BY ONLY <2>1, <2>4
<1>10. \A i \in 1 .. n - e :
         RangeList_'[b - 1 + (Len(F) + Len(B)) + i] = RangeList_[e + i]
  <2> SUFFICES ASSUME NEW i \in 1 .. n - e
               PROVE  RangeList_'[b - 1 + (Len(F) + Len(B)) + i] = RangeList_[e + i]
    OBVIOUS
  <2>1. i \in 1 .. Len(T) /\ T[i] = RangeList_[e + i]
    BY <1>1, <1>3
  <2>2. RangeList_'[Len(P) + Len(F) + Len(B) + i] = T[i]
    BY <1>7, <2>1
  <2>3. Len(P) + Len(F) + Len(B) + i = b - 1 + (Len(F) + Len(B)) + i
    BY <1>1, <1>2, <1>8
  <2> QED
    BY <2>1, <2>2, <2>3
<1> QED
  BY <1>1, <1>2, <1>4, <1>5, <1>7, <1>9, <1>10 DEF F, B

(* The list after a call that found b and e: f and g say whether something  *)
(* is left in front and behind.                                             *)
IsSpliced(b, e, begin, end, f, g) ==
  LET n == Len(RangeList_) IN
  /\ f = 1 => RangeList_[b].first < begin
  /\ f = 0 => ~(RangeList_[b].first < begin)
  /\ g = 1 => e <= n /\ end < RangeList_[e].second
  /\ g = 0 => ~(e <= n /\ end < RangeList_[e].second)
  /\ e <= n => Len(RangeList_') = b - 1 + f + g + (n - e)
  /\ e > n => Len(RangeList_') = b - 1 + f + g
  /\ \A k \in 1 .. b - 1 : RangeList_'[k] = RangeList_[k]
  /\ f = 1 => /\ RangeList_'[b].first = RangeList_[b].first
              /\ RangeList_'[b].second = begin
  /\ g = 1 => /\ RangeList_'[b + f].first = end
              /\ RangeList_'[b + f].second = RangeList_[e].second
  /\ \A k \in 1 .. n - e : RangeList_'[b - 1 + f + g + k] = RangeList_[e + k]

(* The same, by what a range of the new list is: a range in front of b, the *)
(* rest of b, the rest of e, or a range behind e.                           *)
LEMMA Entries ==
  ASSUME RangesTypeOK, Ordered, NEW begin \in Nat, NEW end \in Lo .. Hi + 1,
         NEW b \in 1 .. Len(RangeList_), NEW e \in b .. Len(RangeList_) + 1,
         begin < end, overlaps_back(RangeList_[b], begin, end),
         e <= Len(RangeList_) => overlaps_front(RangeList_[e], begin, end),
         Splice(b, e, begin, end)
  PROVE  \E f, g \in 0 .. 1 : IsSpliced(b, e, begin, end, f, g)
<1> DEFINE n == Len(RangeList_)
           F == Rest(RangeList_[b].first, begin)
           B == IF e <= n THEN Rest(end, RangeList_[e].second) ELSE <<>>
<1>1. /\ n \in Nat
      /\ \A i \in 1 .. n :
           RangeList_[i].first \in Nat /\ RangeList_[i].second \in Nat
      /\ end \in Nat
  BY ListFacts, RangeAssumption
<1>2. RangeList_[b].first <= begin
  BY DEF overlaps_back
<1>3. e <= n => end <= RangeList_[e].second
  BY DEF overlaps_front
<1>4. /\ RangeList_[b].first < begin =>
           /\ Len(F) = 1
           /\ F[1].first = RangeList_[b].first
           /\ F[1].second = begin
      /\ ~(RangeList_[b].first < begin) => Len(F) = 0
  BY <1>1, <1>2 DEF Rest, make_pair
<1>5. /\ e <= n /\ end < RangeList_[e].second =>
           /\ Len(B) = 1
           /\ B[1].first = end
           /\ B[1].second = RangeList_[e].second
      /\ ~(e <= n /\ end < RangeList_[e].second) => Len(B) = 0
  <2>1. CASE e <= n /\ end < RangeList_[e].second
    BY <1>1, <2>1 DEF Rest, make_pair
  <2>2. CASE ~(e <= n /\ end < RangeList_[e].second)
    <3>1. B = <<>>
      BY <1>1, <1>3, <2>2 DEF Rest
    <3> QED
      BY <2>2, <3>1
  <2> QED
    BY <2>1, <2>2
<1>6. /\ Len(RangeList_') = b - 1 + (Len(F) + Len(B)) + (IF e <= n THEN n - e ELSE 0)
      /\ \A i \in 1 .. b - 1 : RangeList_'[i] = RangeList_[i]
      /\ \A i \in 1 .. Len(F) : RangeList_'[b - 1 + i] = F[i]
      /\ \A i \in 1 .. Len(B) : RangeList_'[b - 1 + Len(F) + i] = B[i]
      /\ \A i \in 1 .. n - e :
           RangeList_'[b - 1 + (Len(F) + Len(B)) + i] = RangeList_[e + i]
  BY ZenonT(30), Spliced
<1> HIDE DEF F, B
<1>7. Len(F) \in 0 .. 1 /\ Len(B) \in 0 .. 1
  BY <1>4, <1>5
<1> DEFINE f == Len(F)
           g == Len(B)
<1>8. /\ f = 1 => RangeList_[b].first < begin
      /\ f = 0 => ~(RangeList_[b].first < begin)
  <2>1. CASE RangeList_[b].first < begin
    <3>1. Len(F) = 1
      BY <1>4, <2>1, Zenon
    <3> QED
      BY <2>1, <3>1
  <2>2. CASE ~(RangeList_[b].first < begin)
    <3>1. Len(F) = 0
      BY <1>4, <2>2, Zenon
    <3> QED
      BY <2>2, <3>1
  <2> QED
    BY <2>1, <2>2
<1>9. /\ g = 1 => e <= n /\ end < RangeList_[e].second
      /\ g = 0 => ~(e <= n /\ end < RangeList_[e].second)
  BY <1>5
<1>10. f = 1 => /\ RangeList_'[b].first = RangeList_[b].first
                /\ RangeList_'[b].second = begin
  <2> SUFFICES ASSUME f = 1 PROVE RangeList_'[b] = F[1]
    BY <1>4, <1>8
  <2>1. RangeList_'[b - 1 + 1] = F[1]
    BY <1>6
  <2> QED
    BY <2>1
<1>11. g = 1 => /\ RangeList_'[b + f].first = end
                /\ RangeList_'[b + f].second = RangeList_[e].second
  <2> SUFFICES ASSUME g = 1 PROVE RangeList_'[b + f] = B[1]
    BY <1>5, <1>9
  <2>1. RangeList_'[b - 1 + f + 1] = B[1]
    BY <1>6
  <2>2. b - 1 + f + 1 = b + f
    BY <1>7
  <2> QED
    BY <2>1, <2>2
<1>12. /\ e <= n => Len(RangeList_') = b - 1 + f + g + (n - e)
       /\ e > n => Len(RangeList_') = b - 1 + f + g
  <2>1. CASE e <= n
    <3>1. Len(RangeList_') = b - 1 + (f + g) + (n - e)
      BY <1>6, <2>1
    <3> QED
      BY <1>1, <1>7, <2>1, <3>1
  <2>2. CASE e > n
    <3>1. Len(RangeList_') = b - 1 + (f + g) + 0
      <4>1. ~(e <= n)
        BY <1>1, <2>2
      <4> QED
        BY <1>6, <4>1, Zenon
    <3> QED
      BY <1>1, <1>7, <2>2, <3>1
  <2> QED
    BY <1>1, <2>1, <2>2
<1>13. \A k \in 1 .. n - e : RangeList_'[b - 1 + f + g + k] = RangeList_[e + k]
  <2> SUFFICES ASSUME NEW k \in 1 .. n - e
               PROVE  RangeList_'[b - 1 + f + g + k] = RangeList_[e + k]
    OBVIOUS
  <2>1. b - 1 + f + g + k = b - 1 + (f + g) + k
    BY <1>1, <1>7
  <2> QED
    BY <1>6, <2>1
<1> HIDE DEF f, g
<1>14. f \in 0 .. 1 /\ g \in 0 .. 1
  BY <1>7 DEF f, g
<1>15. IsSpliced(b, e, begin, end, f, g)
  BY <1>6, <1>8, <1>9, <1>10, <1>11, <1>12, <1>13 DEF IsSpliced
<1> QED
  BY <1>14, <1>15

(* Every range of the new list comes from a range of the old one and is     *)
(* not larger; a later one comes from a later one, except that both rests   *)
(* come from the same one when b = e.                                       *)
LEMMA Origins ==
  ASSUME RangesTypeOK, Ordered, NEW begin \in Nat, NEW end \in Lo .. Hi + 1,
         NEW b \in 1 .. Len(RangeList_), NEW e \in b .. Len(RangeList_) + 1,
         begin < end, overlaps_back(RangeList_[b], begin, end),
         e <= Len(RangeList_) => overlaps_front(RangeList_[e], begin, end),
         Splice(b, e, begin, end)
  PROVE  Ordered'
<1> DEFINE n == Len(RangeList_)
           m == Len(RangeList_')
<1>1. /\ n \in Nat
      /\ \A i \in 1 .. n :
           RangeList_[i].first \in Nat /\ RangeList_[i].second \in Nat
      /\ end \in Nat
  BY ListFacts, RangeAssumption
<1>2. PICK f \in 0 .. 1, g \in 0 .. 1 : IsSpliced(b, e, begin, end, f, g)
  BY Entries
<1>3. begin < RangeList_[b].second
  BY DEF overlaps_back
<1> DEFINE s(k) == IF k < b THEN k
                   ELSE IF f = 1 /\ k = b THEN b
                   ELSE IF g = 1 /\ k = b + f THEN e
                   ELSE k - (b - 1 + f + g) + e
<1>4. ASSUME NEW k \in 1 .. m
      PROVE  /\ s(k) \in 1 .. n
             /\ RangeList_[s(k)].first <= RangeList_'[k].first
             /\ RangeList_'[k].first < RangeList_'[k].second
             /\ RangeList_'[k].second <= RangeList_[s(k)].second
             /\ RangeList_'[k].first \in Nat /\ RangeList_'[k].second \in Nat
  <2>1. CASE k < b
    BY SMTT(30), <1>1, <1>2, <2>1 DEF Ordered, IsSpliced
  <2>2. CASE f = 1 /\ k = b
    <3>1. /\ RangeList_[b].first < begin
          /\ RangeList_'[b].first = RangeList_[b].first
          /\ RangeList_'[b].second = begin
      BY <1>2, <2>2 DEF IsSpliced
    <3>2. s(k) = b
      BY <2>2
    <3> HIDE DEF s
    <3> QED
      BY <1>1, <1>3, <2>2, <3>1, <3>2
  <2>3. CASE ~(k < b) /\ g = 1 /\ k = b + f
    <3>1. s(k) = e /\ e \in 1 .. n
      BY <1>1, <1>2, <2>3 DEF IsSpliced
    <3>2. RangeList_[e].first < end
      BY SMTT(30), <3>1 DEF overlaps_front
    <3> QED
      <4>1. /\ end < RangeList_[e].second
            /\ RangeList_'[b + f].first = end
            /\ RangeList_'[b + f].second = RangeList_[e].second
        BY <1>2, <2>3 DEF IsSpliced
      <4> HIDE DEF s
      <4> QED
        BY <1>1, <2>3, <3>1, <3>2, <4>1
  <2>4. CASE /\ ~(k < b) /\ ~(f = 1 /\ k = b) /\ ~(g = 1 /\ k = b + f)
    <3>1. k - (b - 1 + f + g) \in 1 .. n - e /\ e <= n
      <4>1. k > b - 1 + f + g
        BY <1>1, <2>4
      <4>2. e <= n
        BY <1>1, <1>2, <4>1 DEF IsSpliced
      <4> QED
        BY <1>1, <1>2, <4>1, <4>2 DEF IsSpliced
    <3>2. s(k) = e + (k - (b - 1 + f + g)) /\ s(k) \in 1 .. n
      BY <1>1, <2>4, <3>1
    <3>3. RangeList_'[b - 1 + f + g + (k - (b - 1 + f + g))]
            = RangeList_[e + (k - (b - 1 + f + g))]
      BY <1>2, <3>1 DEF IsSpliced
    <3>4. RangeList_'[k] = RangeList_[s(k)]
      <4>1. b - 1 + f + g + (k - (b - 1 + f + g)) = k
        BY <1>1
      <4> HIDE DEF s
      <4> QED
        BY <3>2, <3>3, <4>1
    <3> HIDE DEF s
    <3> QED
      <4>1. s(k) \in 1 .. n
        BY <3>2
      <4>2. /\ RangeList_[s(k)].first \in Nat /\ RangeList_[s(k)].second \in Nat
            /\ RangeList_[s(k)].first < RangeList_[s(k)].second
        BY <1>1, <4>1, Zenon DEF Ordered
      <4> QED
        BY <3>4, <4>1, <4>2
  <2> QED
    BY <2>1, <2>2, <2>3, <2>4
<1>5. ASSUME NEW i \in 1 .. m, NEW j \in 1 .. m, i < j
      PROVE  RangeList_'[i].second < RangeList_'[j].first
  <2>1. \/ s(i) < s(j)
        \/ i = b /\ j = b + 1 /\ f = 1 /\ g = 1
    BY <1>1, <1>2, <1>5 DEF IsSpliced
  <2>2. CASE s(i) < s(j)
    <3> HIDE DEF s
    <3>1. RangeList_[s(i)].second < RangeList_[s(j)].first
      BY <1>4, <2>2 DEF Ordered
    <3>2. s(i) \in 1 .. n /\ s(j) \in 1 .. n
      BY <1>4
    <3>3. /\ RangeList_'[i].second <= RangeList_[s(i)].second
          /\ RangeList_[s(j)].first <= RangeList_'[j].first
          /\ RangeList_'[i].second \in Nat /\ RangeList_'[j].first \in Nat
      BY <1>4, Zenon
    <3>4. RangeList_[s(i)].second \in Nat /\ RangeList_[s(j)].first \in Nat
      BY <1>1, <3>2, Zenon
    <3>5. \A p, q, r, t \in Nat : p <= q /\ q < r /\ r <= t => p < t
      OBVIOUS
    <3> QED
      BY <3>1, <3>3, <3>4, <3>5, Zenon
  <2>3. CASE i = b /\ j = b + 1 /\ f = 1 /\ g = 1
    <3>1. RangeList_'[b].second = begin /\ RangeList_'[b + f].first = end
      BY <1>2, <2>3 DEF IsSpliced
    <3> QED
      BY <2>3, <3>1
  <2> QED
    BY <2>1, <2>2, <2>3
<1> QED
  BY <1>4, <1>5 DEF Ordered

-----------------------------------------------------------------------------

RangesInv == RangesTypeOK /\ Ordered

(* What a call of Remove finds and does, in one place. *)
LEMMA Removes ==
  ASSUME RangesInv, NEW begin \in Lo .. Hi + 1, NEW end \in Lo .. Hi + 1,
         Remove(begin, end)
  PROVE  \E b \in 1 .. Len(RangeList_), e \in 1 .. Len(RangeList_) + 1 :
           /\ begin \in Nat /\ end \in Nat /\ begin < end
           /\ e \in b .. Len(RangeList_) + 1
           /\ overlaps_back(RangeList_[b], begin, end)
           /\ e <= Len(RangeList_) => overlaps_front(RangeList_[e], begin, end)
           /\ e = Len(RangeList_) + 1 =>
                \A j \in 1 .. Len(RangeList_) :
                  ~overlaps_front(RangeList_[j], begin, end)
           /\ Splice(b, e, begin, end)
<1> DEFINE n == Len(RangeList_)
           b == FirstBack(begin, end)
           e == FirstFront(b, begin, end)
<1>1. n \in Nat /\ begin \in Nat /\ end \in Nat
  BY ListFacts, RangeAssumption DEF RangesInv
<1>2. begin < end /\ b <= n /\ Splice(b, e, begin, end)
  BY DEF Remove
<1>3. b \in 1 .. n /\ overlaps_back(RangeList_[b], begin, end)
  <2> HIDE DEF b
  <2>1. \/ b \in 1 .. n /\ overlaps_back(RangeList_[b], begin, end)
        \/ b = n + 1
    BY <1>1, FindBack DEF b, RangesInv
  <2> QED
    BY <1>1, <1>2, <2>1
<1> HIDE DEF b
<1>4. \/ e \in b .. n /\ overlaps_front(RangeList_[e], begin, end)
      \/ /\ e = n + 1
         /\ \A j \in 1 .. n : ~overlaps_front(RangeList_[j], begin, end)
  BY <1>1, <1>2, <1>3, FindFront DEF RangesInv
<1> HIDE DEF e
<1>5. /\ e \in b .. n + 1 /\ e \in 1 .. n + 1
      /\ e <= n => overlaps_front(RangeList_[e], begin, end)
      /\ e = n + 1 => \A j \in 1 .. n : ~overlaps_front(RangeList_[j], begin, end)
  BY <1>1, <1>3, <1>4
<1> QED
  BY <1>1, <1>2, <1>3, <1>5

(* The list has its type and its order for ever. *)
THEOREM RangesInvariance == RangesSpec => []RangesInv
<1>1. RangesInit => RangesInv
  <2> SUFFICES ASSUME RangesInit PROVE RangesInv
    OBVIOUS
  <2>0. request \in [begin : Nat, end : Nat]
    BY RangeAssumption DEF RangesInit
  <2>1. CASE Lo < Hi
    <3>1. make_pair(Lo, Hi) \in Range_t
      BY RangeAssumption, <2>1 DEF make_pair, Range_t
    <3>2. RangeList_ = <<make_pair(Lo, Hi)>>
      BY <2>1 DEF RangesInit
    <3>3. /\ Len(RangeList_) = 1 /\ RangeList_[1].first = Lo
          /\ RangeList_[1].second = Hi /\ RangeList_ \in Seq(Range_t)
      BY <3>1, <3>2 DEF make_pair
    <3> QED
      BY <2>0, <2>1, <3>3 DEF RangesInv, RangesTypeOK, Ordered
  <2>2. CASE ~(Lo < Hi)
    BY <2>0, <2>2 DEF RangesInit, RangesInv, RangesTypeOK, Ordered
  <2> QED
    BY <2>1, <2>2
<1>2. RangesInv /\ [RangesNext]_rangeVars => RangesInv'
  <2> SUFFICES ASSUME RangesInv, [RangesNext]_rangeVars PROVE RangesInv'
    OBVIOUS
  <2>0. request' \in [begin : Nat, end : Nat]
    BY RangeAssumption DEF RangesInv, RangesTypeOK, RangesNext, rangeVars
  <2>1. ASSUME NEW begin \in Lo .. Hi + 1, NEW end \in Lo .. Hi + 1,
               Remove(begin, end)
        PROVE  RangesInv'
    <3>1. PICK b \in 1 .. Len(RangeList_), e \in 1 .. Len(RangeList_) + 1 :
            /\ begin \in Nat /\ end \in Nat /\ begin < end
            /\ e \in b .. Len(RangeList_) + 1
            /\ overlaps_back(RangeList_[b], begin, end)
            /\ e <= Len(RangeList_) => overlaps_front(RangeList_[e], begin, end)
            /\ Splice(b, e, begin, end)
      BY <2>1, Removes
    <3>2. RangesTypeOK'
      BY <2>0, <3>1, Spliced DEF RangesInv, RangesTypeOK
    <3>3. Ordered'
      BY <3>1, Origins DEF RangesInv
    <3> QED
      BY <3>2, <3>3 DEF RangesInv
  <2>2. ASSUME UNCHANGED RangeList_ PROVE RangesInv'
    BY <2>0, <2>2 DEF RangesInv, RangesTypeOK, Ordered
  <2> QED
    BY <2>1, <2>2 DEF RangesNext, RemoveNothing, rangeVars
<1> QED
  BY <1>1, <1>2, PTL DEF RangesSpec

(* RangesTypeOK holds in every state. *)
THEOREM RangesTypeCorrect == RangesSpec => []RangesTypeOK
<1>1. RangesInv => RangesTypeOK
  BY DEF RangesInv
<1> QED
  BY <1>1, RangesInvariance, PTL

(* Ordered holds in every state: find_if always searches an ordered list of *)
(* ranges that are not empty and do not touch.                              *)
THEOREM StaysOrdered == RangesSpec => []Ordered
<1>1. RangesInv => Ordered
  BY DEF RangesInv
<1> QED
  BY <1>1, RangesInvariance, PTL

(* A call leaves the bytes in front of begin, and those from end on when it *)
(* finds the range of end.                                                  *)
LEMMA Takes ==
  ASSUME RangesInv, NEW begin \in Nat, NEW end \in Lo .. Hi + 1,
         NEW b \in 1 .. Len(RangeList_), NEW e \in b .. Len(RangeList_) + 1,
         begin < end, overlaps_back(RangeList_[b], begin, end),
         e <= Len(RangeList_) => overlaps_front(RangeList_[e], begin, end),
         Splice(b, e, begin, end)
  PROVE  \A x : x \in Planned' <=>
                 /\ x \in Planned
                 /\ x < begin \/ (e <= Len(RangeList_) /\ end <= x)
<1> SUFFICES ASSUME NEW x
             PROVE  x \in Planned' <=>
                      /\ x \in Planned
                      /\ x < begin \/ (e <= Len(RangeList_) /\ end <= x)
  OBVIOUS
<1> DEFINE n == Len(RangeList_)
           m == Len(RangeList_')
           In(k) == RangeList_[k].first <= x /\ x < RangeList_[k].second
           InNew(k) == RangeList_'[k].first <= x /\ x < RangeList_'[k].second
<1>1. /\ n \in Nat
      /\ \A i \in 1 .. n :
           RangeList_[i].first \in Nat /\ RangeList_[i].second \in Nat
      /\ end \in Nat
  BY ListFacts, RangeAssumption DEF RangesInv
<1>2. PICK f \in 0 .. 1, g \in 0 .. 1 : IsSpliced(b, e, begin, end, f, g)
  BY Entries DEF RangesInv
<1>3. /\ RangeList_[b].first <= begin /\ begin < RangeList_[b].second
      /\ e <= n => RangeList_[e].first < end /\ end <= RangeList_[e].second
  BY DEF overlaps_back, overlaps_front
<1>4. x \in Planned <=> x \in Int /\ \E k \in 1 .. n : In(k)
  BY InRanges DEF Planned, RangesInv, RangesTypeOK
<1>5. x \in Planned' <=> x \in Int /\ \E k \in 1 .. m : InNew(k)
  <2>1. RangeList_' \in Seq(Range_t)
    BY Spliced DEF RangesInv
  <2> QED
    BY <2>1, InRanges DEF Planned
<1>6. \A i, j \in 1 .. n : i < j => RangeList_[i].second < RangeList_[j].first
  BY DEF RangesInv, Ordered
<1>7. ASSUME x \in Int, NEW k \in 1 .. m, InNew(k)
      PROVE  /\ \E i \in 1 .. n : In(i)
             /\ x < begin \/ (e <= n /\ end <= x)
  <2>1. CASE k < b
    <3>1. In(k) /\ k \in 1 .. n
      BY <1>1, <1>2, <1>7, <2>1 DEF IsSpliced
    <3>2. RangeList_[k].second < RangeList_[b].first
      BY <1>6, <2>1, <3>1
    <3>3. x < begin
      BY SMTT(30), <1>1, <1>3, <1>7, <3>1, <3>2
    <3> QED
      BY <3>1, <3>3
  <2>2. CASE f = 1 /\ k = b
    <3>1. RangeList_[b].first <= x /\ x < begin
      BY <1>2, <1>7, <2>2 DEF IsSpliced
    <3>2. In(b)
      BY <1>1, <1>3, <1>7, <3>1
    <3> QED
      BY <3>1, <3>2
  <2>3. CASE g = 1 /\ k = b + f
    <3>1. e \in 1 .. n /\ end <= x /\ x < RangeList_[e].second
      BY <1>1, <1>2, <1>7, <2>3 DEF IsSpliced
    <3>2. In(e)
      BY <1>1, <1>3, <1>7, <3>1
    <3> QED
      BY <3>1, <3>2
  <2>4. CASE ~(k < b) /\ ~(f = 1 /\ k = b) /\ ~(g = 1 /\ k = b + f)
    <3> DEFINE d == k - (b - 1 + f + g)
    <3>1. d >= 1 /\ b - 1 + f + g + d = k /\ d \in Int
      BY <1>1, <2>4
    <3>2. e <= n /\ d <= n - e
      BY <1>1, <1>2, <3>1 DEF IsSpliced
    <3>3. d \in 1 .. n - e
      BY <1>1, <3>1, <3>2
    <3> HIDE DEF d
    <3>4. RangeList_'[b - 1 + f + g + d] = RangeList_[e + d]
      BY <1>2, <3>3 DEF IsSpliced
    <3>5. In(e + d) /\ e + d \in 1 .. n /\ e \in 1 .. n /\ e < e + d
      <4>1. RangeList_'[k] = RangeList_[e + d]
        BY <3>1, <3>4
      <4>2. In(e + d)
        BY <1>7, <4>1
      <4>3. e + d \in 1 .. n /\ e \in 1 .. n /\ e < e + d
        <5>1. n \in Nat /\ e \in Nat /\ e >= 1
          BY <1>1
        <5> QED
          BY <3>3, <5>1
      <4> QED
        BY <4>2, <4>3
    <3>6. RangeList_[e].second < RangeList_[e + d].first
      BY <1>6, <3>5
    <3>7. end <= x
      BY SMTT(30), <1>1, <1>3, <1>7, <3>2, <3>5, <3>6
    <3> QED
      BY <3>2, <3>5, <3>7
  <2> QED
    BY <2>1, <2>2, <2>3, <2>4
<1>8. ASSUME x \in Int, NEW i \in 1 .. n, In(i),
             x < begin \/ (e <= n /\ end <= x)
      PROVE  \E k \in 1 .. m : InNew(k)
  <2>1. CASE x < begin
    <3>1. i <= b
      <4>1. b < i => RangeList_[b].second < RangeList_[i].first
        BY <1>6
      <4> QED
        BY <1>1, <1>3, <1>8, <2>1, <4>1
    <3>2. CASE i < b
      <4>1. i \in 1 .. b - 1 /\ i \in 1 .. m
        BY <1>1, <1>2, <3>2 DEF IsSpliced
      <4>2. RangeList_'[i] = RangeList_[i]
        BY <1>2, <4>1 DEF IsSpliced
      <4> QED
        BY <1>8, <4>1, <4>2
    <3>3. CASE i = b
      <4>1. RangeList_[b].first < begin
        BY <1>1, <1>8, <2>1, <3>3
      <4>2. f = 1
        BY SMTT(30), <1>2, <4>1 DEF IsSpliced
      <4>3. InNew(b) /\ b \in 1 .. m
        BY SMTT(30), <1>1, <1>2, <1>8, <2>1, <3>3, <4>2 DEF IsSpliced
      <4> QED
        BY <4>3
    <3> QED
      BY <1>1, <3>1, <3>2, <3>3
  <2>2. CASE e <= n /\ end <= x
    <3>1. i >= e
      <4>1. i < e => RangeList_[i].second < RangeList_[e].first
        BY <1>1, <1>6, <2>2
      <4> QED
        BY SMTT(30), <1>1, <1>3, <1>8, <2>2, <4>1
    <3>2. CASE i = e
      <4>1. end < RangeList_[e].second
        BY <1>1, <1>8, <2>2, <3>2
      <4>2. g = 1
        BY <1>2, <2>2, <4>1 DEF IsSpliced
      <4>3. InNew(b + f) /\ b + f \in 1 .. m
        BY SMTT(30), <1>1, <1>2, <1>8, <2>2, <3>2, <4>2 DEF IsSpliced
      <4> QED
        BY <4>3
    <3>3. CASE i > e
      <4> DEFINE d == i - e
      <4>1. d \in 1 .. n - e /\ e + d = i
        BY <1>1, <3>3
      <4> HIDE DEF d
      <4>2. RangeList_'[b - 1 + f + g + d] = RangeList_[e + d]
        BY <1>2, <4>1 DEF IsSpliced
      <4>3. b - 1 + f + g + d \in 1 .. m
        BY <1>1, <1>2, <2>2, <4>1 DEF IsSpliced
      <4> QED
        BY <1>8, <4>1, <4>2, <4>3
    <3> QED
      BY SMTT(30), <1>1, <3>1, <3>2, <3>3
  <2> QED
    BY <1>8, <2>1, <2>2
<1> HIDE DEF In, InNew
<1> QED
  BY <1>4, <1>5, <1>7, <1>8

(* A byte that was removed is never planned again. *)
THEOREM Shrinks == RangesSpec => NeverAgain
<1>1. RangesInv /\ [RangesNext]_rangeVars => [Planned' \subseteq Planned]_rangeVars
  <2> SUFFICES ASSUME RangesInv, NEW begin \in Lo .. Hi + 1, NEW end \in Lo .. Hi + 1,
                      Remove(begin, end)
               PROVE  Planned' \subseteq Planned
    <3>1. UNCHANGED RangeList_ => Planned' \subseteq Planned
      BY DEF Planned
    <3> QED
      BY <3>1 DEF RangesNext, RemoveNothing
  <2>1. PICK b \in 1 .. Len(RangeList_), e \in 1 .. Len(RangeList_) + 1 :
          /\ begin \in Nat /\ end \in Nat /\ begin < end
          /\ e \in b .. Len(RangeList_) + 1
          /\ overlaps_back(RangeList_[b], begin, end)
          /\ e <= Len(RangeList_) => overlaps_front(RangeList_[e], begin, end)
          /\ Splice(b, e, begin, end)
    BY Removes
  <2> QED
    BY <2>1, Takes
<1> QED
  BY <1>1, RangesInvariance, PTL DEF RangesSpec, NeverAgain

(* A byte is planned when a range holds it: begin is when the first find_if *)
(* finds a range, and the last byte asked for when the second one does.     *)
LEMMA Finds ==
  ASSUME RangesInv, NEW begin \in Nat, NEW end \in Nat
  PROVE  /\ begin \in Planned <=>
              \E i \in 1 .. Len(RangeList_) : overlaps_back(RangeList_[i], begin, end)
         /\ end - 1 \in Planned <=>
              \E i \in 1 .. Len(RangeList_) : overlaps_front(RangeList_[i], begin, end)
<1>1. \A x : x \in Planned <=>
              /\ x \in Int
              /\ \E i \in 1 .. Len(RangeList_) :
                   RangeList_[i].first <= x /\ x < RangeList_[i].second
  BY InRanges DEF Planned, RangesInv, RangesTypeOK
<1>2. begin \in Int /\ end - 1 \in Int
  OBVIOUS
<1>3. \A i \in 1 .. Len(RangeList_) :
        /\ RangeList_[i].first \in Nat /\ RangeList_[i].second \in Nat
  BY ListFacts DEF RangesInv
<1>4. \A i \in 1 .. Len(RangeList_) :
        RangeList_[i].first <= end - 1 /\ end - 1 < RangeList_[i].second
          <=> overlaps_front(RangeList_[i], begin, end)
  BY <1>3 DEF overlaps_front
<1> QED
  BY <1>1, <1>2, <1>4, Zenon DEF overlaps_back

(* What a call that does nothing was asked for. *)
LEMMA NothingFound ==
  ASSUME RangesInv, NEW begin \in Nat, NEW end \in Nat, RemoveNothing(begin, end)
  PROVE  begin = end \/ begin \notin Planned
<1> SUFFICES ASSUME begin # end PROVE begin \notin Planned
  OBVIOUS
<1> DEFINE b == FirstBack(begin, end)
<1>1. Len(RangeList_) \in Nat
  BY ListFacts DEF RangesInv
<1>2. b > Len(RangeList_)
  BY DEF RemoveNothing
<1>3. \A j \in 1 .. Len(RangeList_) : ~overlaps_back(RangeList_[j], begin, end)
  BY <1>1, <1>2, FindBack DEF RangesInv
<1> QED
  BY <1>3, Finds

(* The list keeps the promise of PlannedBytes for every initial range and   *)
(* every sequence of calls: the arguments of a call say which bytes it      *)
(* leaves.                                                                  *)
THEOREM RangesRefinement == RangesSpec => PlannerSpec
<1>1. RangesInit => Promise!Init
  <2> SUFFICES ASSUME RangesInit PROVE Planned = Lo .. Hi - 1
    BY DEF RangesInit, Promise!Init
  <2>1. CASE Lo < Hi
    <3>1. RangeList_ = <<make_pair(Lo, Hi)>>
      BY <2>1 DEF RangesInit
    <3>2. Len(RangeList_) = 1 /\ RangeList_[1] = make_pair(Lo, Hi)
      BY <3>1
    <3>3. Bytes(make_pair(Lo, Hi)) = Lo .. Hi - 1
      BY DEF Bytes, make_pair
    <3>4. \A i : i \in 1 .. Len(RangeList_) <=> i = 1
      BY <3>2
    <3> QED
      BY <3>2, <3>3, <3>4, Zenon DEF Planned
  <2>2. CASE ~(Lo < Hi)
    <3>1. Planned = {}
      BY <2>2 DEF RangesInit, Planned
    <3>2. Lo .. Hi - 1 = {}
      BY <2>2, RangeAssumption
    <3> QED
      BY <3>1, <3>2
  <2> QED
    BY <2>1, <2>2
<1>2. RangesInv /\ [RangesNext]_rangeVars => [Promise!Next]_<<Planned, request>>
  <2> SUFFICES ASSUME RangesInv, [RangesNext]_rangeVars
               PROVE  [Promise!Next]_<<Planned, request>>
    OBVIOUS
  <2>1. ASSUME NEW begin \in Lo .. Hi + 1, NEW end \in Lo .. Hi + 1,
               Remove(begin, end)
        PROVE  Promise!Inside(begin, end) \/ Promise!OpenEnded(begin, end)
    <3> DEFINE n == Len(RangeList_)
    <3>1. PICK b \in 1 .. n, e \in 1 .. n + 1 :
            /\ begin \in Nat /\ end \in Nat /\ begin < end
            /\ e \in b .. n + 1
            /\ overlaps_back(RangeList_[b], begin, end)
            /\ e <= n => overlaps_front(RangeList_[e], begin, end)
            /\ e = n + 1 => \A j \in 1 .. n : ~overlaps_front(RangeList_[j], begin, end)
            /\ Splice(b, e, begin, end)
      BY <2>1, Removes
    <3>2. \A x : x \in Planned' <=>
                  x \in Planned /\ (x < begin \/ (e <= n /\ end <= x))
      BY <3>1, Takes
    <3>3. begin \in Planned
      BY <3>1, Finds
    <3>4. Planned \subseteq Int
      BY InRanges DEF Planned, RangesInv, RangesTypeOK
    <3>5. CASE e <= n
      <4>1. end - 1 \in Planned
        BY <3>1, <3>5, Finds
      <4>2. \A x \in Int : x < begin \/ end <= x <=> x \notin begin .. end - 1
        BY <3>1
      <4>3. Planned' = Planned \ (begin .. end - 1)
        BY <3>2, <3>4, <3>5, <4>2, Zenon
      <4> QED
        BY <3>1, <3>3, <4>1, <4>3 DEF Promise!Inside
    <3>6. CASE ~(e <= n)
      <4>1. e = n + 1
        BY <3>1, <3>6, ListFacts DEF RangesInv
      <4>2. end - 1 \notin Planned
        BY <3>1, <4>1, Finds
      <4>3. Planned' = {x \in Planned : x < begin}
        BY <3>2, <3>6
      <4> QED
        BY <3>1, <3>3, <4>2, <4>3 DEF Promise!OpenEnded
    <3> QED
      BY <3>5, <3>6
  <2>2. ASSUME NEW begin \in Lo .. Hi + 1, NEW end \in Lo .. Hi + 1,
               RemoveNothing(begin, end)
        PROVE  Promise!Nothing(begin, end)
    <3>1. begin \in Nat /\ end \in Nat
      BY RangeAssumption
    <3>2. begin = end \/ begin \notin Planned
      BY <2>2, <3>1, NothingFound
    <3>3. UNCHANGED Planned
      BY <2>2 DEF RemoveNothing, Planned
    <3> QED
      BY <3>2, <3>3 DEF Promise!Nothing
  <2>3. ASSUME UNCHANGED rangeVars PROVE UNCHANGED <<Planned, request>>
    BY <2>3 DEF rangeVars, Planned
  <2> QED
    BY <2>1, <2>2, <2>3 DEF RangesNext, Promise!Next
<1> QED
  BY <1>1, <1>2, RangesInvariance, PTL DEF RangesSpec, PlannerSpec, Promise!Spec, Promise!vars
=============================================================================
