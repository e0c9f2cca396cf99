---------------------------- MODULE ExecuteProofs ---------------------------
(***************************************************************************)
(* The three properties of Execute, for files of any size and content, any *)
(* size of a header and any handles and views: who has the file open at    *)
(* each step of spu_execute, what the search has found up to where it is,  *)
(* and which image each listing is of; and the property of SymbolNames,    *)
(* for any images and any order of questions.                              *)
(***************************************************************************)
EXTENDS Execute, SymbolNames, FiniteSetTheorems, SequenceTheorems,
  WellFoundedInduction, TLAPS

Clients == {"bearelf", "temporary", "SPU"}

-----------------------------------------------------------------------------

(* Opening a file that nobody has open leaves it open for one client. *)
LEMMA OpenStep ==
  ASSUME NEW client \in Clients, MM!TypeOK, Closed, OpenFile(client)
  PROVE  MM!TypeOK' /\ OpenedBy(client)'
<1>1. PICK h \in Handle, v \in View \cup {NULL} :
        /\ MM!OpenMiss(client, Eboot, h, v)
        /\ v # NULL => disk.bytes # <<>>
  BY DEF OpenFile
<1>2. /\ live' = {h}
      /\ begin_' = [begin_ EXCEPT ![h] = v]
      /\ backing' = IF v = NULL THEN backing ELSE [backing EXCEPT ![v] = Eboot]
      /\ MappedFiles' = [MappedFiles EXCEPT ![Eboot] = [first |-> 1, second |-> h]]
      /\ raw_file_' = [raw_file_ EXCEPT ![client] = h]
      /\ FilePath' = [FilePath EXCEPT ![client] = Eboot]
      /\ data_' = [data_ EXCEPT ![client] = v]
  BY <1>1 DEF MM!OpenMiss, MM!Take, Closed
<1>3. MM!TypeOK'
  BY <1>2 DEF MM!TypeOK, Clients
<1>4. /\ raw_file_'[client] = h
      /\ data_'[client] = v
      /\ begin_'[h] = v
      /\ MappedFiles'[Eboot] = [first |-> 1, second |-> h]
  BY <1>2 DEF MM!TypeOK, Clients
<1>5. \A w \in View : backing'[w] = IF w = v THEN Eboot ELSE NULL
  BY <1>2, AddressAssumption DEF MM!TypeOK, Closed, Mapped
<1> QED
  BY <1>2, <1>3, <1>4, <1>5 DEF OpenedBy

(* Closing it again leaves nothing of it, and the other clients with what  *)
(* they had.                                                               *)
LEMMA CloseStep ==
  ASSUME NEW client \in Clients, MM!TypeOK, OpenedBy(client), MM!Close(client)
  PROVE  /\ MM!TypeOK' /\ Closed'
         /\ \A other \in Clients \ {client} : data_'[other] = data_[other]
<1> DEFINE h == raw_file_[client]
<1>1. /\ h \in Handle
      /\ MappedFiles[Eboot] = [first |-> 1, second |-> h]
      /\ live = {h}
      /\ begin_[h] = data_[client]
      /\ \A v \in View : backing[v] = IF v = data_[client] THEN Eboot ELSE NULL
  BY DEF OpenedBy
<1>2. Eboot \in MM!Records(h)
  BY <1>1 DEF MM!Records
<1>3. MM!Records(h) = {Eboot}
  BY <1>2 DEF MM!Records
<1>4. MM!ReleaseRecord(Eboot) /\ MM!Drop(client) /\ begin_' = begin_
  BY <1>3 DEF MM!Close
<1>5. /\ live' = {}
      /\ MappedFiles' = [MappedFiles EXCEPT ![Eboot] = MM!NoRecord]
      /\ backing' = IF data_[client] = NULL THEN backing
                    ELSE [backing EXCEPT ![data_[client]] = NULL]
  BY <1>1, <1>4 DEF MM!ReleaseRecord, MM!UnmapViewOfFile
<1>6. MM!TypeOK'
  BY <1>4, <1>5 DEF MM!TypeOK, MM!Drop, MM!NoRecord, Clients
<1>7. MappedFiles'[Eboot] = MM!NoRecord
  BY <1>5 DEF MM!TypeOK
<1>8. ~Mapped'
  BY <1>1, <1>5, AddressAssumption DEF MM!TypeOK, Mapped, Clients
<1>9. \A other \in Clients \ {client} : data_'[other] = data_[other]
  BY <1>4 DEF MM!Drop, MM!TypeOK, Clients
<1> QED
  BY <1>5, <1>6, <1>7, <1>8, <1>9 DEF Closed

-----------------------------------------------------------------------------

(* The steps keep every variable in its type. *)
LEMMA TypeOKStep ==
  ASSUME TypeOK, CacheInv, SearchInv, [Next]_vars
  PROVE  TypeOK'
<1> USE DEF TypeOK
<1>1. CASE OpenAndCopy
  <2>1. disk.bytes \in Seq(Nat)
    BY ContentsAssumption
  <2>2. PICK size \in {0, Len(disk.bytes)} : fraw' = SubSeq(disk.bytes, 1, size)
    BY <1>1 DEF OpenAndCopy
  <2>3. fraw' \in Seq(Nat)
    BY <2>1, <2>2
  <2> QED
    BY <1>1, <2>3 DEF OpenAndCopy, written
<1>2. CASE CloseCopy
  BY <1>2 DEF CloseCopy, found, written
<1>3. CASE Scan
  <2>1. off \in Nat \cup {Npos}
    BY <1>3 DEF Scan, SearchInv
  <2>2. ELF_offsets' \in Seq(Nat)
    BY <1>3, <2>1, SMTT(30) DEF Scan
  <2> QED
    BY <1>3, <2>2 DEF Scan, written
<1>4. CASE OpenElf
  <2>1. opened' \in Seq(Contents \cup Replacements)
    <3> DEFINE Files == Contents \cup Replacements
    <3>1. opened \in Seq(Files) /\ disk \in Files
      OBVIOUS
    <3>2. opened' \in {opened, Append(opened, disk)}
      BY <1>4 DEF OpenElf
    <3> HIDE DEF Files, TypeOK
    <3>3. opened' \in Seq(Files)
      BY <3>1, <3>2
    <3> QED
      BY <3>3 DEF Files
  <2> QED
    BY <1>4, <2>1 DEF OpenElf, written
<1>5. CASE Construct
  BY <1>5 DEF Construct, found, written
<1>6. CASE CopyElf
  BY <1>6 DEF CopyElf, found, written
<1>7. CASE DropTemporary
  BY <1>7 DEF DropTemporary, found, written
<1>8. CASE Extract
  BY <1>8 DEF Extract, found, written
<1>9. CASE spuSwitchEndianness
  BY <1>9 DEF spuSwitchEndianness, found, written
<1>10. CASE List
  BY <1>10 DEF List, found, written
<1>11. CASE Destroy
  BY <1>11 DEF Destroy, found, written
<1>12. CASE Replace
  BY <1>12 DEF Replace, found, written
<1>13. CASE UNCHANGED vars
  BY <1>13 DEF vars, found, written
<1> QED
  BY <1>1, <1>2, <1>3, <1>4, <1>5, <1>6, <1>7, <1>8, <1>9, <1>10, <1>11,
     <1>12, <1>13 DEF Next

(* Nothing is open at first. *)
LEMMA CacheInvInit == Init => CacheInv
BY AddressAssumption DEF Init, CacheInv, MM!Init, MM!TypeOK, MM!NoRecord, Closed, Mapped

(* Every step leaves the cache as the next one expects it. *)
LEMMA CacheInvStep ==
  ASSUME TypeOK, CacheInv, [Next]_vars
  PROVE  CacheInv'
<1> USE DEF TypeOK, CacheInv
<1>1. CASE OpenAndCopy
  BY <1>1, OpenStep DEF OpenAndCopy, Clients, written
<1>2. CASE CloseCopy
  BY <1>2, CloseStep DEF CloseCopy, Clients, written
<1>3. CASE Scan
  BY <1>3 DEF Scan, map, written, MM!TypeOK, Closed, Mapped, OpenedBy
<1>4. CASE OpenElf
  <2>1. CASE next < Len(ELF_offsets)
    BY <1>4, <2>1, OpenStep DEF OpenElf, Clients, extracted, written
  <2>2. CASE ~(next < Len(ELF_offsets))
    BY <1>4, <2>2 DEF OpenElf, map, extracted, written, MM!TypeOK, Closed, Mapped
  <2> QED
    BY <2>1, <2>2
<1>5. CASE Construct
  BY <1>5 DEF Construct, map, written, MM!TypeOK, Closed, Mapped, OpenedBy
<1>6. CASE CopyElf
  BY <1>6 DEF CopyElf, MM!Take, written, MM!TypeOK, Closed, Mapped, OpenedBy
<1>7. CASE DropTemporary
  BY <1>7, CloseStep DEF DropTemporary, Clients, written, MM!TypeOK
<1>8. CASE Extract
  BY <1>8, AddressAssumption DEF Extract, Accessible, Object, map, written, MM!TypeOK, Closed, Mapped, OpenedBy
<1>9. CASE spuSwitchEndianness
  BY <1>9 DEF spuSwitchEndianness, map, written, MM!TypeOK, Closed, Mapped, OpenedBy
<1>10. CASE List
  BY <1>10 DEF List, map, written, MM!TypeOK, Closed, Mapped, OpenedBy
<1>11. CASE Destroy
  BY <1>11, CloseStep DEF Destroy, Object, Clients, written
<1>12. CASE Replace
  BY <1>12 DEF Replace, map, written, MM!TypeOK, Closed, Mapped, OpenedBy
<1>13. CASE UNCHANGED vars
  BY <1>13 DEF vars, map, written, MM!TypeOK, Closed, Mapped, OpenedBy
<1> QED
  BY <1>1, <1>2, <1>3, <1>4, <1>5, <1>6, <1>7, <1>8, <1>9, <1>10, <1>11,
     <1>12, <1>13 DEF Next

(* The released cache follows. *)
LEMMA CacheInvReleased == TypeOK /\ CacheInv => CacheReleased
<1>1. TypeOK => elided \in BOOLEAN
  BY DEF TypeOK
<1> QED
  BY <1>1, AddressAssumption DEF CacheInv, CacheReleased, Closed, OpenedBy, Mapped,
     Accessible, Object, MM!TypeOK

-----------------------------------------------------------------------------

(* A set of numbers with a member has a least one. *)
LEMMA Least ==
  ASSUME NEW S \in SUBSET Nat, S # {}
  PROVE  \E m \in S : \A k \in S : m <= k
<1> DEFINE R == {ss \in Nat \X Nat : ss[1] < ss[2]}
<1>1. IsWellFoundedOn(R, Nat)
  BY NatLessThanWellFounded DEF OpToRel
<1>2. \A x, y \in Nat : <<x, y>> \in R <=> x < y
  OBVIOUS
<1> HIDE DEF R
<1>3. PICK m \in S : \A y \in S : ~ (<<y, m>> \in R)
  BY <1>1, WFMin
<1>4. ASSUME NEW k \in S PROVE m <= k
  <2>1. k \in Nat /\ m \in Nat
    OBVIOUS
  <2>2. ~ (<<k, m>> \in R)
    BY <1>3
  <2>3. <<k, m>> \in R <=> k < m
    BY <1>2, <2>1
  <2>4. ~ (k < m)
    BY <2>2, <2>3
  <2> QED
    BY <2>1, <2>4
<1> QED
  BY <1>4

(* find returns the first magic from an offset on, or Npos if none is left.*)
LEMMA FindFirst ==
  ASSUME NEW bytes \in Seq(Nat), NEW from \in Nat
  PROVE  \/ /\ Find(bytes, from) = Npos
            /\ \A q \in from .. Len(bytes) - 1 : ~MagicAt(bytes, q)
         \/ /\ Find(bytes, from) \in from .. Len(bytes) - 1
            /\ MagicAt(bytes, Find(bytes, from))
            /\ \A q \in from .. Find(bytes, from) - 1 : ~MagicAt(bytes, q)
<1> DEFINE at == {p \in from .. Len(bytes) - 1 : MagicAt(bytes, p)}
<1>1. CASE at = {}
  BY <1>1 DEF Find
<1>2. CASE at # {}
  <2>1. at \in SUBSET Nat
    OBVIOUS
  <2>2. \E p \in at : \A q \in at : p <= q
    BY <1>2, <2>1, Least
  <2>3. Find(bytes, from) \in at /\ \A q \in at : Find(bytes, from) <= q
    BY <1>2, <2>2 DEF Find
  <2>4. \A q \in from .. Find(bytes, from) - 1 : ~MagicAt(bytes, q)
    BY <2>3
  <2> QED
    BY <2>3, <2>4
<1> QED
  BY <1>1, <1>2

(* The copy is a sequence of bytes, and nothing has been found before the  *)
(* search.                                                                 *)
LEMMA SearchInvInit == Init => SearchInv
BY DEF Init, SearchInv, Scanned

(* A turn of the search: it takes what it looks at if it is an SPU's, and  *)
(* goes on to the first magic that is not in the header of that.           *)
LEMMA SearchInvScan ==
  ASSUME TypeOK, SearchInv, Scan
  PROVE  SearchInv'
<1> DEFINE N == Len(fraw)
           at(s) == \E i \in 1 .. Len(ELF_offsets) : ELF_offsets[i] = s
<1> USE HeaderAssumption
<1>1. /\ fraw' = fraw
      /\ fraw \in Seq(Nat) /\ ELF_offsets \in Seq(Nat)
      /\ N \in Nat
      /\ pc = "scan"
  BY DEF TypeOK, Scan
<1>2. CASE off = Npos
  <2>1. pc' = "each" /\ ELF_offsets' = ELF_offsets
    BY <1>2 DEF Scan
  <2>2. SearchedTo(N) /\ FirstTaken
    BY <1>1, <1>2 DEF SearchInv, Npos
  <2>3. SearchedTo(N)' /\ FirstTaken'
    BY <1>1, <2>1, <2>2 DEF SearchedTo, FirstTaken, MachineOf
  <2> QED
    BY <2>1, <2>3 DEF SearchInv, Scanned
<1>3. CASE off # Npos
  <2>1. PICK machine \in ByteAt(fraw, off + MachineAt) :
          ELF_offsets' = IF machine = ELF_SPU_ARCH_ID
                         THEN Append(ELF_offsets, off) ELSE ELF_offsets
    BY <1>3 DEF Scan
  <2>2. pc' = "scan" /\ off' = Find(fraw, off + HeaderSize)
    BY <1>3 DEF Scan
  <2>3. /\ off \in Nat
        /\ SearchedTo(off)
        /\ off = 0 => ELF_offsets = <<>>
        /\ off # 0 => FirstTaken
        /\ off # 0 => MagicAt(fraw, off)
        /\ \A i \in 1 .. Len(ELF_offsets) : ELF_offsets[i] + HeaderSize <= off
    BY <1>1, <1>3 DEF SearchInv
  <2>4. /\ ELF_offsets' \in Seq(Nat)
        /\ Len(ELF_offsets) \in Nat
        /\ \/ /\ ELF_offsets' = ELF_offsets
              /\ machine # ELF_SPU_ARCH_ID
           \/ /\ Len(ELF_offsets') = Len(ELF_offsets) + 1
              /\ ELF_offsets'[Len(ELF_offsets) + 1] = off
              /\ machine = ELF_SPU_ARCH_ID
        /\ \A i \in 1 .. Len(ELF_offsets) : ELF_offsets'[i] = ELF_offsets[i]
    BY <1>1, <2>1, <2>3
  <2> DEFINE frontier == IF off' = Npos THEN N ELSE off'
  <2>5. /\ off' = Npos \/ off' \in off + HeaderSize .. N - 1
        /\ off' # Npos => MagicAt(fraw, off')
        /\ \A q \in off + HeaderSize .. frontier - 1 : ~MagicAt(fraw, q)
    BY <1>1, <2>2, <2>3, FindFirst DEF Npos
  <2>6. \A i \in 2 .. Len(ELF_offsets') :
          ELF_offsets'[i] >= ELF_offsets'[i - 1] + HeaderSize
    <3> TAKE i \in 2 .. Len(ELF_offsets')
    <3>1. CASE i \in 2 .. Len(ELF_offsets)
      <4>1. i \in 1 .. Len(ELF_offsets) /\ i - 1 \in 1 .. Len(ELF_offsets)
        BY <2>4, <3>1
      <4>2. ELF_offsets'[i] = ELF_offsets[i] /\ ELF_offsets'[i - 1] = ELF_offsets[i - 1]
        BY <2>4, <4>1
      <4> QED
        BY <2>3, <3>1, <4>2 DEF SearchedTo
    <3>2. CASE i \notin 2 .. Len(ELF_offsets)
      BY <2>3, <2>4, <3>2, SMTT(30)
    <3> QED
      BY <3>1, <3>2
  <2>7. \A i \in 1 .. Len(ELF_offsets') :
          /\ ELF_offsets'[i] = 0 \/ MagicAt(fraw, ELF_offsets'[i])
          /\ ELF_SPU_ARCH_ID \in MachineOf(ELF_offsets'[i])
    <3> TAKE i \in 1 .. Len(ELF_offsets')
    <3>1. CASE i \in 1 .. Len(ELF_offsets)
      BY <2>3, <2>4, <3>1 DEF SearchedTo
    <3>2. CASE i \notin 1 .. Len(ELF_offsets)
      <4>1. ELF_offsets'[i] = off /\ machine = ELF_SPU_ARCH_ID
        BY <2>4, <3>2
      <4> QED
        BY <2>1, <2>3, <4>1 DEF MachineOf
    <3> QED
      BY <3>1, <3>2
  <2>8. ASSUME NEW p \in 0 .. N - 1, p < frontier, MagicAt(fraw, p),
               MachineOf(p) = {ELF_SPU_ARCH_ID},
               \A i \in 1 .. Len(ELF_offsets') : ELF_offsets'[i] # p
        PROVE  \E q \in p - HeaderSize + 1 .. p - 1 : q = 0 \/ MagicAt(fraw, q)
    <3>1. CASE p < off
      <4>1. ~ \E i \in 1 .. Len(ELF_offsets) : ELF_offsets[i] = p
        BY <2>4, <2>8
      <4>2. ~ (p >= off)
        BY <2>3, <3>1
      <4> QED
        BY <2>3, <2>8, <4>1, <4>2 DEF SearchedTo
    <3>2. CASE p = off
      <4>1. machine = ELF_SPU_ARCH_ID
        BY <2>1, <2>8, <3>2 DEF MachineOf
      <4> QED
        BY <2>4, <2>8, <3>2, <4>1
    <3>3. CASE off < p /\ p < off + HeaderSize
      BY <2>3, <3>3
    <3>4. CASE p >= off + HeaderSize
      BY <2>3, <2>5, <2>8, <3>4
    <3> QED
      BY <2>3, <3>1, <3>2, <3>3, <3>4
  <2>9. off' # 0 /\ FirstTaken'
    <3>1. off' # 0
      BY <2>3, <2>5 DEF Npos
    <3>2. CASE off = 0
      <4>1. MachineOf(0) = {ELF_SPU_ARCH_ID} => machine = ELF_SPU_ARCH_ID
        BY <2>1, <3>2 DEF MachineOf
      <4> QED
        BY <1>1, <2>4, <3>1, <3>2, <4>1 DEF FirstTaken, MachineOf
    <3>3. CASE off # 0
      BY <1>1, <2>3, <2>4, <3>1, <3>3, SMTT(30) DEF FirstTaken, MachineOf
    <3> QED
      BY <3>1, <3>2, <3>3
  <2>10. off' # Npos =>
           \A i \in 1 .. Len(ELF_offsets') : ELF_offsets'[i] + HeaderSize <= off'
    <3> SUFFICES ASSUME off' # Npos, NEW i \in 1 .. Len(ELF_offsets')
                 PROVE  ELF_offsets'[i] + HeaderSize <= off'
      OBVIOUS
    <3>1. ELF_offsets'[i] + HeaderSize <= off + HeaderSize
      BY <2>3, <2>4, SMTT(30)
    <3> QED
      BY <2>3, <2>4, <2>5, <3>1, SMTT(30)
  <2>11. ASSUME NEW p \in 0 .. N - 1
         PROVE  \/ p >= frontier
                \/ \E i \in 1 .. Len(ELF_offsets') : ELF_offsets'[i] = p
                \/ ~(MagicAt(fraw, p) /\ MachineOf(p) = {ELF_SPU_ARCH_ID})
                \/ \E q \in p - HeaderSize + 1 .. p - 1 : q = 0 \/ MagicAt(fraw, q)
    <3>1. p >= frontier \/ p < frontier
      BY <1>1, <2>3, <2>5
    <3> QED
      BY <2>8, <3>1
  <2>12. SearchedTo(IF off = Npos THEN Len(fraw) ELSE off)'
    BY <1>1, <2>6, <2>7, <2>11 DEF SearchedTo, MachineOf
  <2>13. off' \in Nat \cup {Npos}
    BY <1>1, <2>3, <2>5
  <2>14. off' \in Nat \ {0} => MagicAt(fraw', off')
    BY <1>1, <2>5 DEF Npos
  <2>15. ~Scanned'
    BY <2>2 DEF Scanned
  <2> QED
    BY <1>1, <2>2, <2>4, <2>9, <2>10, <2>12, <2>13, <2>14, <2>15 DEF SearchInv
<1> QED
  BY <1>2, <1>3

(* After the search nothing changes what it found. *)
LEMMA SearchInvKept ==
  ASSUME TypeOK, SearchInv, Scanned, fraw' = fraw, ELF_offsets' = ELF_offsets,
         pc' \notin {"open", "close", "scan"}
  PROVE  SearchInv'
<1>1. SearchedTo(Len(fraw)) /\ FirstTaken
  BY DEF SearchInv
<1>2. SearchedTo(Len(fraw))' /\ FirstTaken'
  BY <1>1 DEF SearchedTo, FirstTaken, MachineOf
<1> QED
  BY <1>2 DEF SearchInv

(* Before and after the search the copy of the file stays what it was.     *)
LEMMA SearchInvStep ==
  ASSUME TypeOK, SearchInv, [Next]_vars
  PROVE  SearchInv'
<1>1. CASE OpenAndCopy
  <2>1. disk.bytes \in Seq(Nat)
    BY ContentsAssumption DEF TypeOK
  <2>2. PICK size \in {0, Len(disk.bytes)} : fraw' = SubSeq(disk.bytes, 1, size)
    BY <1>1 DEF OpenAndCopy
  <2>3. fraw' \in Seq(Nat)
    BY <2>1, <2>2
  <2>4. pc' \in {"lost", "close"} /\ ELF_offsets' = <<>> /\ off' = 0
    BY <1>1 DEF OpenAndCopy, SearchInv
  <2> QED
    BY <2>3, <2>4 DEF SearchInv, Scanned
<1>2. CASE CloseCopy
  <2>1. /\ pc' = "scan" /\ fraw' = fraw /\ fraw \in Seq(Nat)
        /\ ELF_offsets' = <<>> /\ off' = 0
    BY <1>2 DEF CloseCopy, TypeOK, SearchInv, found
  <2>2. SearchedTo(0)'
    BY <2>1 DEF SearchedTo
  <2> QED
    BY <2>1, <2>2 DEF SearchInv, Scanned, Npos
<1>3. CASE Scan
  BY <1>3, SearchInvScan
<1>4. CASE OpenElf
  BY <1>4, SearchInvKept DEF OpenElf, Scanned
<1>5. CASE Construct
  BY <1>5, SearchInvKept DEF Construct, Scanned, found
<1>6. CASE CopyElf
  BY <1>6, SearchInvKept DEF CopyElf, Scanned, found
<1>7. CASE DropTemporary
  BY <1>7, SearchInvKept DEF DropTemporary, Scanned, found
<1>8. CASE Extract
  BY <1>8, SearchInvKept DEF Extract, Scanned, found
<1>9. CASE spuSwitchEndianness
  BY <1>9, SearchInvKept DEF spuSwitchEndianness, Scanned, found
<1>10. CASE List
  BY <1>10, SearchInvKept DEF List, Scanned, found
<1>11. CASE Destroy
  BY <1>11, SearchInvKept DEF Destroy, Scanned, found
<1>12. CASE Replace \/ UNCHANGED vars
  BY <1>12 DEF Replace, vars, found, SearchInv, Scanned, SearchedTo, FirstTaken,
     MachineOf
<1> QED
  BY <1>1, <1>2, <1>3, <1>4, <1>5, <1>6, <1>7, <1>8, <1>9, <1>10, <1>11,
     <1>12 DEF Next

(* What the search has found of the whole file is what ScanFinds says. *)
LEMMA SearchInvFinds == TypeOK /\ SearchInv => ScanFinds
<1> SUFFICES ASSUME TypeOK, SearchInv, Scanned PROVE ScanFinds
  BY DEF ScanFinds
<1>1. /\ ELF_offsets \in Seq(Nat) /\ fraw \in Seq(Nat)
      /\ SearchedTo(Len(fraw)) /\ FirstTaken
  BY DEF TypeOK, SearchInv
<1>2. \A x : x \in ToSet(ELF_offsets) <=>
             \E i \in 1 .. Len(ELF_offsets) : ELF_offsets[i] = x
  BY <1>1 DEF ToSet
<1>3. \A p \in 0 .. Len(fraw) - 1 : ~ (p >= Len(fraw))
  BY <1>1
<1> QED
  BY <1>1, <1>2, <1>3 DEF ScanFinds, SearchedTo, FirstTaken, MachineOf

-----------------------------------------------------------------------------

Widths == Seq(1 .. 4)

(* Bytes are pairs of a field and a number in it. *)
LEMMA BytesBeforeMembers ==
  ASSUME NEW w, NEW k
  PROVE  \A b : b \in BytesBefore(w, k) <=>
                  \E j \in 1 .. k - 1 : \E i \in 1 .. w[j] : b = <<j, i>>
<1>1. \A b : b \in BytesBefore(w, k) <=>
              \E j \in 1 .. k - 1 : b \in {j} \X (1 .. w[j])
  BY Zenon DEF BytesBefore
<1>2. ASSUME NEW b, NEW j
      PROVE  b \in {j} \X (1 .. w[j]) <=> \E i \in 1 .. w[j] : b = <<j, i>>
  OBVIOUS
<1> TAKE b
<1>3. b \in BytesBefore(w, k) <=> \E j \in 1 .. k - 1 : b \in {j} \X (1 .. w[j])
  BY <1>1
<1>4. \A j \in 1 .. k - 1 :
        b \in {j} \X (1 .. w[j]) <=> \E i \in 1 .. w[j] : b = <<j, i>>
  BY <1>2
<1> QED
  BY <1>3, <1>4, Zenon

LEMMA BytesBeforeBounded ==
  ASSUME NEW w \in Widths, NEW k \in 1 .. Len(w) + 1
  PROVE  /\ IsFiniteSet(BytesBefore(w, k))
         /\ Cardinality(BytesBefore(w, k)) \in Nat
<1>1. Len(w) \in Nat /\ \A j \in 1 .. k - 1 : w[j] \in 1 .. 4
  BY DEF Widths
<1>2. IsFiniteSet(1 .. Len(w)) /\ IsFiniteSet(1 .. 4)
  <2>1. 1 \in Int /\ 4 \in Int /\ Len(w) \in Int
    BY <1>1
  <2>2. IsFiniteSet(1 .. Len(w))
    BY <2>1, FS_Interval
  <2>3. IsFiniteSet(1 .. 4)
    BY <2>1, FS_Interval
  <2> QED
    BY <2>2, <2>3
<1>3. IsFiniteSet((1 .. Len(w)) \X (1 .. 4))
  BY <1>2, FS_Product
<1>4. BytesBefore(w, k) \in SUBSET ((1 .. Len(w)) \X (1 .. 4))
  <2> SUFFICES ASSUME NEW b \in BytesBefore(w, k)
               PROVE  b \in (1 .. Len(w)) \X (1 .. 4)
    OBVIOUS
  <2>1. PICK j \in 1 .. k - 1 : \E i \in 1 .. w[j] : b = <<j, i>>
    BY BytesBeforeMembers
  <2>2. PICK i \in 1 .. w[j] : b = <<j, i>>
    BY <2>1
  <2>3. j \in 1 .. Len(w) /\ i \in 1 .. 4
    BY <1>1, <2>1, <2>2
  <2> QED
    BY <2>2, <2>3
<1> QED
  BY <1>3, <1>4, FS_Subset, FS_CardinalityType

(* The fields follow one another without a gap. *)
LEMMA FirstByteNext ==
  ASSUME NEW w \in Widths, NEW k \in DOMAIN w
  PROVE  /\ FirstByte(w, k) \in Nat \ {0}
         /\ FirstByte(w, k + 1) = FirstByte(w, k) + w[k]
<1> DEFINE kth == {k} \X (1 .. w[k])
<1>1. /\ k \in 1 .. Len(w) /\ k \in Nat \ {0} /\ Len(w) \in Nat
      /\ w[k] \in 1 .. 4
  BY DEF Widths
<1>2. k \in 1 .. Len(w) + 1
  BY <1>1
<1>4. IsFiniteSet(BytesBefore(w, k)) /\ Cardinality(BytesBefore(w, k)) \in Nat
  BY <1>2, BytesBeforeBounded
<1>5. IsFiniteSet(kth) /\ Cardinality(kth) = w[k]
  <2>1. IsFiniteSet({k}) /\ Cardinality({k}) = 1
    BY FS_Singleton
  <2>2. IsFiniteSet(1 .. w[k]) /\ Cardinality(1 .. w[k]) = w[k]
    <3>1. w[k] \in Int /\ ~(1 > w[k])
      BY <1>1
    <3>2. IsFiniteSet(1 .. w[k]) /\ Cardinality(1 .. w[k]) = w[k] - 1 + 1
      BY <3>1, FS_Interval
    <3> QED
      BY <3>1, <3>2
  <2>3. IsFiniteSet(kth) /\ Cardinality(kth) = 1 * w[k]
    BY <2>1, <2>2, FS_Product, ZenonT(30)
  <2> QED
    BY <1>1, <2>3
<1>6. BytesBefore(w, k + 1) = BytesBefore(w, k) \cup kth
  <2>1. \A j : j \in 1 .. (k + 1) - 1 <=> j \in 1 .. k - 1 \/ j = k
    BY <1>1
  <2>2. \A b : b \in kth <=> \E i \in 1 .. w[k] : b = <<k, i>>
    OBVIOUS
  <2>3. ASSUME NEW b
        PROVE  b \in BytesBefore(w, k + 1) <=> b \in BytesBefore(w, k) \/ b \in kth
    <3>1. b \in BytesBefore(w, k + 1) <=>
            \E j \in 1 .. (k + 1) - 1 : \E i \in 1 .. w[j] : b = <<j, i>>
      BY BytesBeforeMembers
    <3>2. b \in BytesBefore(w, k) <=>
            \E j \in 1 .. k - 1 : \E i \in 1 .. w[j] : b = <<j, i>>
      BY BytesBeforeMembers
    <3> QED
      BY <2>1, <2>2, <3>1, <3>2, Zenon
  <2> QED
    BY <2>3
<1>7. BytesBefore(w, k) \cap kth = {}
  <2> SUFFICES ASSUME NEW b \in BytesBefore(w, k), b \in kth PROVE FALSE
    OBVIOUS
  <2>1. PICK j \in 1 .. k - 1 : \E i \in 1 .. w[j] : b = <<j, i>>
    BY BytesBeforeMembers
  <2>2. b[1] = j /\ b[1] = k
    BY <2>1
  <2> QED
    BY <1>1, <2>1, <2>2
<1>8. Cardinality({}) = 0
  BY FS_EmptySet
<1>9. Cardinality(BytesBefore(w, k + 1)) = Cardinality(BytesBefore(w, k)) + w[k]
  <2>1. Cardinality(BytesBefore(w, k) \cup kth)
          = Cardinality(BytesBefore(w, k)) + Cardinality(kth)
              - Cardinality(BytesBefore(w, k) \cap kth)
    BY <1>4, <1>5, FS_Union
  <2>2. Cardinality(BytesBefore(w, k) \cap kth) = 0
    BY <1>7, <1>8
  <2>3. Cardinality(BytesBefore(w, k) \cup kth)
          = Cardinality(BytesBefore(w, k)) + w[k] - 0
    BY <1>5, <2>1, <2>2
  <2>4. Cardinality(BytesBefore(w, k + 1)) = Cardinality(BytesBefore(w, k)) + w[k] - 0
    BY <1>6, <2>3
  <2>5. \A m, n \in Nat : m + n - 0 = m + n
    OBVIOUS
  <2>6. w[k] \in Nat
    BY <1>1
  <2> QED
    BY <1>4, <2>4, <2>5, <2>6
<1> QED
  BY <1>1, <1>4, <1>9 DEF FirstByte

(* Later fields begin later. *)
LEMMA FirstByteMonotone ==
  ASSUME NEW w \in Widths, NEW j \in 1 .. Len(w) + 1, NEW k \in 1 .. Len(w) + 1, j <= k
  PROVE  FirstByte(w, j) \in Nat /\ FirstByte(w, j) <= FirstByte(w, k)
<1>1. Len(w) \in Nat
  BY DEF Widths
<1>3. /\ IsFiniteSet(BytesBefore(w, k))
      /\ Cardinality(BytesBefore(w, k)) \in Nat
  BY BytesBeforeBounded
<1>4. BytesBefore(w, j) \in SUBSET BytesBefore(w, k)
  <2>1. \A l \in 1 .. j - 1 : l \in 1 .. k - 1
    BY <1>1
  <2>2. ASSUME NEW b \in BytesBefore(w, j) PROVE b \in BytesBefore(w, k)
    <3>1. PICK l \in 1 .. j - 1 : \E i \in 1 .. w[l] : b = <<l, i>>
      BY BytesBeforeMembers
    <3>2. l \in 1 .. k - 1
      BY <2>1
    <3> QED
      BY <3>1, <3>2, BytesBeforeMembers
  <2> QED
    BY <2>2
<1>5. /\ IsFiniteSet(BytesBefore(w, j))
      /\ Cardinality(BytesBefore(w, j)) <= Cardinality(BytesBefore(w, k))
  BY <1>3, <1>4, FS_Subset
<1>6. Cardinality(BytesBefore(w, j)) \in Nat /\ Cardinality(BytesBefore(w, k)) \in Nat
  BY <1>3, BytesBeforeBounded
<1> QED
  BY <1>5, <1>6 DEF FirstByte

(* No byte is in two fields. *)
LEMMA RunOfField ==
  ASSUME NEW w \in Widths, NEW k \in DOMAIN w,
         NEW i \in FirstByte(w, k) .. FirstByte(w, k) + w[k] - 1
  PROVE  RunOf(w, i) = {k}
<1>1. /\ k \in 1 .. Len(w) /\ Len(w) \in Nat /\ DOMAIN w = 1 .. Len(w)
      /\ \A j \in DOMAIN w : w[j] \in 1 .. 4
  BY DEF Widths
<1>2. /\ FirstByte(w, k) \in Nat
      /\ FirstByte(w, k + 1) = FirstByte(w, k) + w[k]
  BY FirstByteNext
<1>3. k \in RunOf(w, i)
  BY <1>1, <1>2 DEF RunOf
<1>4. ASSUME NEW j \in RunOf(w, i) PROVE j = k
  <2>1. /\ j \in 1 .. Len(w)
        /\ FirstByte(w, j) <= i /\ i < FirstByte(w, j) + w[j]
    BY <1>1 DEF RunOf
  <2>2. /\ FirstByte(w, j) \in Nat
        /\ FirstByte(w, j + 1) = FirstByte(w, j) + w[j]
    BY <1>1, <2>1, FirstByteNext
  <2>3. CASE j < k
    <3>1. FirstByte(w, j + 1) <= FirstByte(w, k)
      BY <1>1, <2>1, <2>3, FirstByteMonotone
    <3> QED
      BY <1>1, <1>2, <2>1, <2>2, <3>1, SMTT(30)
  <2>4. CASE k < j
    <3>1. FirstByte(w, k + 1) <= FirstByte(w, j)
      BY <1>1, <2>1, <2>4, FirstByteMonotone
    <3> QED
      BY <1>1, <1>2, <2>1, <2>2, <3>1, SMTT(30)
  <2> QED
    BY <1>1, <2>1, <2>3, <2>4
<1> QED
  BY <1>3, <1>4

Slice(s, first, last) == SubSeq(s, first, last)

LEMMA TurnedAround ==
  ASSUME NEW r, NEW s, NEW F \in Nat \ {0}, NEW L \in Nat, F <= L,
         \A i \in F .. L : s[i] = i /\ r[i] = F + L - i
  PROVE  Slice(r, F, L) = Reverse(Slice(s, F, L))
<1> DEFINE n == L - F + 1
           t == SubSeq(s, F, L)
<1>1. n \in Nat \ {0} /\ F \in Int /\ L \in Int
  OBVIOUS
<1>2. \A i \in F .. L : s[i] \in Int /\ r[i] \in Int
  OBVIOUS
<1>3. /\ SubSeq(r, F, L) \in Seq(Int)
      /\ Len(SubSeq(r, F, L)) = n
      /\ \A i \in 1 .. n : SubSeq(r, F, L)[i] = r[F + i - 1]
  BY <1>1, <1>2, SubSeqProperties
<1>4. /\ t \in Seq(Int)
      /\ Len(t) = n
      /\ \A i \in 1 .. n : t[i] = s[F + i - 1]
  BY <1>1, <1>2, SubSeqProperties
<1>5. \A i \in 1 .. n : t[n - i + 1] \in Int /\ t[n - i + 1] = s[F + (n - i + 1) - 1]
  <2> TAKE i \in 1 .. n
  <2>1. n - i + 1 \in 1 .. n
    OBVIOUS
  <2> HIDE DEF t, n
  <2> QED
    BY <1>4, <2>1
<1>6. /\ Reverse(t) \in Seq(Int)
      /\ Len(Reverse(t)) = n
      /\ \A i \in 1 .. n : Reverse(t)[i] = t[n - i + 1]
  <2> HIDE DEF t, n
  <2>1. Reverse(t) = [i \in 1 .. n |-> t[n - i + 1]]
    BY <1>4 DEF Reverse
  <2> QED
    BY <1>1, <1>5, <2>1
<1>7. \A i \in 1 .. n : SubSeq(r, F, L)[i] = Reverse(t)[i]
  <2> TAKE i \in 1 .. n
  <2>1. r[F + i - 1] = L + 1 - i
    OBVIOUS
  <2>2. s[F + (n - i + 1) - 1] = L + 1 - i
    OBVIOUS
  <2> HIDE DEF t, n
  <2> QED
    BY <1>3, <1>5, <1>6, <2>1, <2>2
<1> HIDE DEF t, n
<1>8. SubSeq(r, F, L) = Reverse(t)
  BY <1>3, <1>6, <1>7, SeqEqual
<1> QED
  BY <1>8 DEF t, Slice

(* A layout that has the widths of the fields turns every field around and *)
(* leaves none as it is.                                                   *)
LEMMA AllFieldsRead ==
  ASSUME NEW w \in Widths
  PROVE  FieldsRead(w, w) = DOMAIN w
<1> DEFINE stored == [i \in 1 .. BytesOf(w) |-> i]
           read == ReverseBytesInRange(stored, w)
           field(s, k) == SubSeq(s, FirstByte(w, k), FirstByte(w, k) + w[k] - 1)
<1> SUFFICES ASSUME NEW k \in DOMAIN w
             PROVE  field(read, k) = Reverse(field(stored, k))
  BY DEF FieldsRead
<1> DEFINE F == FirstByte(w, k)
<1>1. /\ k \in 1 .. Len(w) /\ Len(w) \in Nat /\ w[k] \in 1 .. 4
  BY DEF Widths
<1>2. /\ F \in Nat \ {0}
      /\ F + w[k] - 1 <= BytesOf(w)
      /\ BytesOf(w) \in Nat
  <2>1. F \in Nat \ {0} /\ FirstByte(w, k + 1) = F + w[k]
    BY FirstByteNext
  <2>2. /\ FirstByte(w, k + 1) \in Nat
        /\ FirstByte(w, Len(w) + 1) \in Nat
        /\ FirstByte(w, k + 1) <= FirstByte(w, Len(w) + 1)
    BY <1>1, FirstByteMonotone
  <2> QED
    BY <1>1, <2>1, <2>2, SMTT(30) DEF BytesOf
<1>3. \A i \in F .. F + w[k] - 1 : read[i] = 2 * F + w[k] - 1 - i
  <2> TAKE i \in F .. F + w[k] - 1
  <2>1. RunOf(w, i) = {k}
    BY RunOfField
  <2>2. /\ i \in 1 .. BytesOf(w)
        /\ 2 * F + w[k] - 1 - i \in 1 .. BytesOf(w)
    BY <1>1, <1>2, SMTT(30)
  <2>3. read[i] = stored[2 * F + w[k] - 1 - i]
    BY <2>1, <2>2 DEF ReverseBytesInRange
  <2> QED
    BY <2>2, <2>3
<1>4. \A i \in F .. F + w[k] - 1 : stored[i] = i
  BY <1>1, <1>2
<1> HIDE DEF read, stored
<1> DEFINE L == F + w[k] - 1
<1>5. \A i \in F .. L : stored[i] = i /\ read[i] = F + L - i
  BY <1>1, <1>2, <1>3, <1>4
<1>6. F \in Nat \ {0} /\ L \in Nat /\ F <= L
  BY <1>1, <1>2
<1> HIDE DEF F, L
<1>7. Slice(read, F, L) = Reverse(Slice(stored, F, L))
  BY <1>5, <1>6, TurnedAround
<1> QED
  BY <1>7 DEF F, L, Slice

LEMMA Repeated ==
  ASSUME NEW n \in Nat
  PROVE  /\ Ones(n) \in Widths /\ Len(Ones(n)) = n
         /\ Twos(n) \in Widths /\ Len(Twos(n)) = n
         /\ Fours(n) \in Widths /\ Len(Fours(n)) = n
BY DEF Ones, Twos, Fours, Widths

LEMMA Joined ==
  ASSUME NEW v \in Widths, NEW w \in Widths
  PROVE  v \o w \in Widths /\ Len(v \o w) = Len(v) + Len(w)
BY ConcatProperties DEF Widths

(* The layout strings have the widths of the structs, so every field of    *)
(* every struct comes out right.                                           *)
LEMMA LayoutsFit ==
  /\ HeaderFields = 1 .. 29
  /\ ProgramHeaderFields = 1 .. 8
  /\ SectionHeaderFields = 1 .. 10
  /\ SymbolFields = 1 .. 6
<1>1. Elf32_Ehdr \in Widths /\ Len(Elf32_Ehdr) = 29
  <2>1. /\ Ones(16) \o Twos(2) \in Widths
        /\ Len(Ones(16) \o Twos(2)) = 18
    BY Repeated, Joined
  <2>2. /\ (Ones(16) \o Twos(2)) \o Fours(5) \in Widths
        /\ Len((Ones(16) \o Twos(2)) \o Fours(5)) = 23
    BY <2>1, Repeated, Joined
  <2>3. /\ ((Ones(16) \o Twos(2)) \o Fours(5)) \o Twos(6) \in Widths
        /\ Len(((Ones(16) \o Twos(2)) \o Fours(5)) \o Twos(6)) = 29
    BY <2>2, Repeated, Joined
  <2> QED
    BY <2>3 DEF Elf32_Ehdr
<1>2. Elf32_Phdr \in Widths /\ Len(Elf32_Phdr) = 8
  BY Repeated DEF Elf32_Phdr
<1>3. Elf32_Shdr \in Widths /\ Len(Elf32_Shdr) = 10
  BY Repeated DEF Elf32_Shdr
<1>4. Elf32_Sym \in Widths /\ Len(Elf32_Sym) = 6
  <2>1. /\ Fours(3) \o Ones(2) \in Widths
        /\ Len(Fours(3) \o Ones(2)) = 5
    BY Repeated, Joined
  <2>2. /\ (Fours(3) \o Ones(2)) \o Twos(1) \in Widths
        /\ Len((Fours(3) \o Ones(2)) \o Twos(1)) = 6
    BY <2>1, Repeated, Joined
  <2> QED
    BY <2>2 DEF Elf32_Sym
<1>5. /\ header_layout = Elf32_Ehdr
      /\ pheader_layout = Elf32_Phdr
      /\ sheader_layout = Elf32_Shdr
      /\ symbol_layout = Elf32_Sym
  BY DEF header_layout, pheader_layout, sheader_layout, symbol_layout,
     Elf32_Ehdr, Elf32_Phdr, Elf32_Shdr, Elf32_Sym
<1>6. \A w \in Widths : FieldsRead(w, w) = 1 .. Len(w)
  BY AllFieldsRead DEF Widths
<1> QED
  BY <1>1, <1>2, <1>3, <1>4, <1>5, <1>6 DEF HeaderFields, ProgramHeaderFields,
     SectionHeaderFields, SymbolFields

(* Reading a struct leaves what its fields say. *)
LEMMA StructsRead ==
  ASSUME NEW image, IsImage(image)
  PROVE  /\ ReadHeader(image.header) = image.header
         /\ \A k \in DOMAIN image.phdrs :
              ReadProgramHeader(image.phdrs[k]) = image.phdrs[k]
         /\ \A k \in DOMAIN image.shdrs :
              ReadSectionHeader(image.shdrs[k]) = image.shdrs[k]
<1>1. ReadHeader(image.header) = image.header
  BY LayoutsFit DEF IsImage, ReadHeader, ReadField
<1>2. \A k \in DOMAIN image.phdrs :
        ReadProgramHeader(image.phdrs[k]) = image.phdrs[k]
  <2> TAKE k \in DOMAIN image.phdrs
  <2> DEFINE Headers == [p_offset : Nat, p_vaddr : Nat, p_filesz : Nat]
  <2>1. image.phdrs \in Seq(Headers)
    BY DEF IsImage
  <2>2. image.phdrs[k] \in Headers
    <3> HIDE DEF Headers
    <3> QED
      BY <2>1
  <2> QED
    BY <2>2, LayoutsFit DEF ReadProgramHeader, ReadField
<1>3. \A k \in DOMAIN image.shdrs :
        ReadSectionHeader(image.shdrs[k]) = image.shdrs[k]
  <2> TAKE k \in DOMAIN image.shdrs
  <2> DEFINE Headers == [sh_name : Nat, sh_offset : Nat, sh_size : Nat]
  <2>1. image.shdrs \in Seq(Headers)
    BY DEF IsImage
  <2>2. image.shdrs[k] \in Headers
    <3> HIDE DEF Headers
    <3> QED
      BY <2>1
  <2> QED
    BY <2>2, LayoutsFit DEF ReadSectionHeader, ReadField
<1> QED
  BY <1>1, <1>2, <1>3

(* The object shows the header and the segments of its image, *)
LEMMA SegmentsShown ==
  ASSUME NEW image, IsImage(image)
  PROVE  /\ ElfFile(image).HeaderLE_ = image.header
         /\ ElfFile(image).ProgramHeaders_ = image.phdrs
         /\ ElfFile(image).PData_ =
              [k \in DOMAIN image.phdrs |->
                 MemRange(image.phdrs[k].p_offset, image.phdrs[k].p_filesz)]
<1> DEFINE phdrs == [k \in DOMAIN image.phdrs |-> ReadProgramHeader(image.phdrs[k])]
<1>1. ReadHeader(image.header) = image.header
  BY StructsRead
<1>2. phdrs = image.phdrs
  <2>1. image.phdrs = [k \in DOMAIN image.phdrs |-> image.phdrs[k]]
    BY DEF IsImage
  <2>2. \A k \in DOMAIN image.phdrs :
          ReadProgramHeader(image.phdrs[k]) = image.phdrs[k]
    BY StructsRead
  <2> QED
    BY <2>1, <2>2
<1>3. /\ ElfFile(image).HeaderLE_ = ReadHeader(image.header)
      /\ ElfFile(image).ProgramHeaders_ = phdrs
      /\ ElfFile(image).PData_ =
           [k \in DOMAIN phdrs |-> MemRange(phdrs[k].p_offset, phdrs[k].p_filesz)]
  BY DEF ElfFile
<1> HIDE DEF phdrs
<1> QED
  BY <1>1, <1>2, <1>3

(* only one section is taken for a name, *)
LEMMA OneSection ==
  ASSUME NEW names, DOMAIN names \subseteq Nat \ {0}, NEW name,
         NEW t \in SectionNamed(names, name)
  PROVE  /\ SectionNamed(names, name) = {t}
         /\ (CHOOSE k \in SectionNamed(names, name) : TRUE) = t
         /\ t \in DOMAIN names
<1>1. t \in DOMAIN names /\ names[t] = name /\ \A j \in 1 .. t - 1 : names[j] # name
  BY DEF SectionNamed
<1>2. ASSUME NEW k \in SectionNamed(names, name), k # t PROVE FALSE
  <2>1. k \in DOMAIN names /\ names[k] = name /\ \A j \in 1 .. k - 1 : names[j] # name
    BY DEF SectionNamed
  <2>2. k \in Nat \ {0} /\ t \in Nat \ {0}
    BY <1>1, <2>1
  <2> QED
    BY <1>1, <1>2, <2>1, <2>2
<1> QED
  BY <1>1, <1>2

(* and its strings are the ones of the section that is taken for .strtab.  *)
LEMMA StringsShown ==
  ASSUME NEW image, IsImage(image),
         NEW t \in SectionNamed(ElfFile(image).SHNames_, strtab)
  PROVE  /\ t \in DOMAIN image.shdrs
         /\ (CHOOSE k \in SectionNamed(ElfFile(image).SHNames_, strtab) : TRUE) = t
         /\ ElfFile(image).StringTBL_ =
              StringTable(image.strings,
                          MemRange(image.shdrs[t].sh_offset, image.shdrs[t].sh_size))
<1> DEFINE shdrs == [k \in DOMAIN image.shdrs |-> ReadSectionHeader(image.shdrs[k])]
           sdata == [k \in DOMAIN shdrs |-> MemRange(shdrs[k].sh_offset, shdrs[k].sh_size)]
           header == ReadHeader(image.header)
           names == IF header.e_shstrndx = 0 THEN <<>>
                    ELSE [k \in DOMAIN shdrs |->
                            CString(image.strings,
                                    sdata[header.e_shstrndx + 1].data_ + shdrs[k].sh_name)]
           tables == {sdata[k] : k \in SectionNamed(names, strtab)}
<1>1. DOMAIN names \subseteq DOMAIN image.shdrs
  <2>1. \/ names = <<>>
        \/ DOMAIN names = DOMAIN shdrs
    OBVIOUS
  <2>2. DOMAIN shdrs = DOMAIN image.shdrs
    OBVIOUS
  <2> HIDE DEF names, shdrs
  <2> QED
    BY <2>1, <2>2
<1>0. names = ElfFile(image).SHNames_
  BY DEF ElfFile
<1>2. DOMAIN image.shdrs \subseteq Nat \ {0}
  <2>1. DOMAIN image.shdrs = 1 .. Len(image.shdrs) /\ Len(image.shdrs) \in Nat
    BY DEF IsImage
  <2> QED
    BY <2>1
<1>3. ElfFile(image).StringTBL_ =
        IF tables = {} THEN <<>>
        ELSE StringTable(image.strings, CHOOSE r \in tables : TRUE)
  BY DEF ElfFile
<1>4. /\ SectionNamed(names, strtab) = {t}
      /\ (CHOOSE k \in SectionNamed(names, strtab) : TRUE) = t
      /\ t \in DOMAIN names
  <2> HIDE DEF names
  <2>1. t \in SectionNamed(names, strtab)
    BY <1>0
  <2> QED
    BY <1>1, <1>2, <2>1, OneSection
<1>5. t \in DOMAIN image.shdrs
  BY <1>1, <1>4
<1>6. sdata[t] = MemRange(image.shdrs[t].sh_offset, image.shdrs[t].sh_size)
  BY <1>5, StructsRead
<1>7. tables = {sdata[t]}
  BY <1>4
<1> HIDE DEF sdata, tables, names
<1>8. ElfFile(image).StringTBL_ = StringTable(image.strings, sdata[t])
  BY <1>3, <1>7
<1> QED
  BY <1>0, <1>4, <1>5, <1>6, <1>8

(* and the names of the symbols start where the image says. *)
LEMMA SymbolsShown ==
  ASSUME NEW image, IsImage(image), Readable(image),
         NEW k \in DOMAIN ElfFile(image).Symbols
  PROVE  /\ ElfFile(image).Symbols[k].st_name = image.symbols[k].st_name
         /\ image.symbols[k].st_name \in Nat
<1> DEFINE Entries == [st_name : Nat]
<1>1. image.symbols \in Seq(Entries) /\ k \in DOMAIN image.symbols
  BY DEF IsImage
<1>2. image.symbols[k] \in Entries
  <2> HIDE DEF Entries
  <2> QED
    BY <1>1
<1>3. ReadSymbol(image.symbols[k]) = [st_name |-> image.symbols[k].st_name]
  BY LayoutsFit DEF ReadSymbol, ReadField
<1>4. ElfFile(image).Symbols[k] = ReadSymbol(image.symbols[k])
  <2>1. PICK D : \/ ElfFile(image).Symbols = <<>>
                 \/ ElfFile(image).Symbols = [j \in D |-> ReadSymbol(image.symbols[j])]
    BY DEF ElfFile
  <2> QED
    BY <2>1
<1> QED
  BY <1>2, <1>3, <1>4

(* Another table of strings leaves the rest of an object as it is. *)
LEMMA TableReplaced ==
  ASSUME NEW image, NEW table, NEW other
  PROVE  LET made == ElfFile(image)
             elf == [made EXCEPT !.StringTBL_ = table]
         IN /\ elf.HeaderLE_ = made.HeaderLE_
            /\ elf.ProgramHeaders_ = made.ProgramHeaders_
            /\ elf.SHNames_ = made.SHNames_
            /\ elf.Symbols = made.Symbols
            /\ elf.StringTBL_ = table
            /\ [elf EXCEPT !.StringTBL_ = other] = [made EXCEPT !.StringTBL_ = other]
            /\ [made EXCEPT !.StringTBL_ = made.StringTBL_] = made
<1>1. PICK a, b, c, d, e, f :
        ElfFile(image) = [HeaderLE_ |-> a, ProgramHeaders_ |-> b, PData_ |-> c,
                          SHNames_ |-> d, StringTBL_ |-> e, Symbols |-> f]
  BY DEF ElfFile
<1> QED
  BY <1>1

(* There is one section with the strings at most, and the object's table   *)
(* has the ones that start in it.                                          *)
LEMMA SectionShown ==
  ASSUME source \in Images, object.SHNames_ = ElfFile(source).SHNames_,
         NEW section \in StringSections
  PROVE  /\ StringSections = {section}
         /\ section.sh_size \in Nat
         /\ ElfFile(source).StringTBL_ =
              [at \in StringStarts(section) |->
                 CString(source.strings, section.sh_offset + at)]
<1>1. IsImage(source)
  BY ImagesAssumption
<1>2. PICK t \in SectionNamed(ElfFile(source).SHNames_, strtab) :
        section = source.shdrs[t]
  BY DEF StringSections
<1>3. ASSUME NEW u \in SectionNamed(ElfFile(source).SHNames_, strtab)
      PROVE  u = t
  BY <1>1, <1>2, <1>3, StringsShown
<1>4. StringSections = {section}
  BY <1>2, <1>3 DEF StringSections
<1>5. section.sh_size \in Nat
  <2> DEFINE Headers == [sh_name : Nat, sh_offset : Nat, sh_size : Nat]
  <2>1. source.shdrs \in Seq(Headers)
    BY <1>1 DEF IsImage
  <2>2. source.shdrs[t] \in Headers
    <3> HIDE DEF Headers
    <3> QED
      BY <1>1, <2>1, StringsShown
  <2> QED
    BY <1>2, <2>2
<1>6. ElfFile(source).StringTBL_ =
        StringTable(source.strings, MemRange(section.sh_offset, section.sh_size))
  BY <1>1, <1>2, StringsShown
<1> QED
  BY <1>4, <1>5, <1>6 DEF StringTable, MemRange, StringStarts

(* As many strings as start in the section and were inserted are in the    *)
(* table, and there are no more than the section has characters.           *)
LEMMA StringsCounted ==
  ASSUME NEW section, section.sh_size \in Nat,
         missed \subseteq (0 .. section.sh_size - 1) \ StringStarts(section)
  PROVE  /\ Cardinality(StringStarts(section) \cup missed) = Strings(section)
         /\ Strings(section) \in Nat
         /\ Strings(section) <= section.sh_size
<1> DEFINE size == section.sh_size
           starts == StringStarts(section)
<1>1. starts \subseteq 0 .. size - 1
  BY DEF StringStarts
<1>2. missed \subseteq 0 .. size - 1 /\ starts \cap missed = {}
  OBVIOUS
<1> HIDE DEF size, starts
<1>3. size \in Nat
  BY DEF size
<1>4. IsFiniteSet(0 .. size - 1) /\ Cardinality(0 .. size - 1) = size
  <2>1. 0 \in Int /\ size - 1 \in Int
    BY <1>3
  <2>2. /\ IsFiniteSet(0 .. size - 1)
        /\ Cardinality(0 .. size - 1) = IF 0 > size - 1 THEN 0 ELSE (size - 1) - 0 + 1
    BY <2>1, FS_Interval
  <2> QED
    BY <1>3, <2>2
<1>5. IsFiniteSet(starts) /\ IsFiniteSet(missed)
  BY <1>1, <1>2, <1>4, FS_Subset
<1>6. IsFiniteSet(starts \cup missed) /\ Cardinality(starts \cup missed) <= size
  <2>1. starts \cup missed \subseteq 0 .. size - 1
    BY <1>1, <1>2
  <2> QED
    BY <1>4, <2>1, FS_Subset
<1>7. Cardinality(starts \cup missed) =
        Cardinality(starts) + Cardinality(missed) - Cardinality(starts \cap missed)
  BY <1>5, FS_Union
<1>8. Cardinality(starts \cap missed) = 0
  BY <1>2, FS_EmptySet
<1>9. Cardinality(starts) \in Nat /\ Cardinality(missed) \in Nat
  BY <1>5, FS_CardinalityType
<1>10. Strings(section) = Cardinality(starts) + Cardinality(missed)
  BY DEF Strings, starts
<1>11. Cardinality(starts \cup missed) = Strings(section)
  BY <1>7, <1>8, <1>9, <1>10
<1> QED
  BY <1>6, <1>9, <1>10, <1>11 DEF starts, size

(* What GetSymbolName returns and inserts, by what the section says. *)
LEMMA NameLookedUp ==
  ASSUME NEW section, section.sh_size \in Nat, NEW at \in Nat,
         missed \subseteq (0 .. section.sh_size - 1) \ StringStarts(section),
         object.StringTBL_ =
           [i \in StringStarts(section) \cup missed |->
              IF i \in missed THEN <<>>
              ELSE CString(source.strings, section.sh_offset + i)]
  PROVE  LET looked == GetSymbolName(object, at)
             starts == StringStarts(section)
             name(i) == CString(source.strings, section.sh_offset + i)
             more == IF at < Strings(section) /\ at \notin starts THEN missed \cup {at}
                     ELSE missed
         IN /\ looked.name = IF at \in starts /\ at < Strings(section) THEN name(at)
                             ELSE <<>>
            /\ looked.StringTBL_ =
                 [i \in starts \cup more |-> IF i \in more THEN <<>> ELSE name(i)]
            /\ more \subseteq (0 .. section.sh_size - 1) \ starts
<1> DEFINE starts == StringStarts(section)
           name(i) == CString(source.strings, section.sh_offset + i)
           bound == Strings(section)
           size == section.sh_size
           more == IF at < bound /\ at \notin starts THEN missed \cup {at} ELSE missed
           absent == IF at < bound THEN {at} \ (starts \cup missed) ELSE {}
           table == [i \in (starts \cup missed) \cup absent |->
                       IF i \in absent THEN <<>> ELSE object.StringTBL_[i]]
<1>1. /\ Cardinality(DOMAIN object.StringTBL_) = bound
      /\ DOMAIN object.StringTBL_ = starts \cup missed
      /\ bound \in Nat /\ bound <= size
  BY StringsCounted
<1>2. GetSymbolName(object, at) =
        [name |-> IF at < bound THEN table[at] ELSE <<>>, StringTBL_ |-> table]
  <2> HIDE DEF bound, starts
  <2> QED
    BY <1>1 DEF GetSymbolName
<1>3. /\ size \in Nat /\ missed \subseteq (0 .. size - 1) \ starts
      /\ \A i \in starts \cup missed :
           object.StringTBL_[i] = IF i \in missed THEN <<>> ELSE name(i)
  OBVIOUS
<1> HIDE DEF starts, name, bound, size
<1>4. more \subseteq (0 .. size - 1) \ starts
  BY <1>1, <1>3
<1>5. (starts \cup missed) \cup absent = starts \cup more
  OBVIOUS
<1>6. \A i \in starts \cup more : table[i] = IF i \in more THEN <<>> ELSE name(i)
  BY <1>3
<1>7. table = [i \in starts \cup more |-> IF i \in more THEN <<>> ELSE name(i)]
  BY <1>5, <1>6
<1>8. at < bound => at \in starts \cup more
  OBVIOUS
<1>9. (IF at < bound THEN table[at] ELSE <<>>) =
         IF at \in starts /\ at < bound THEN name(at) ELSE <<>>
  BY <1>3, <1>6, <1>8
<1> HIDE DEF more, table
<1> QED
  BY <1>2, <1>4, <1>7, <1>9 DEF more, starts, name, bound, size

(* Asking for a name changes nothing but the table. *)
LEMMA NamesInvStep ==
  ASSUME NamesInv, NEW k \in DOMAIN object.Symbols, AskName(k)
  PROVE  NamesInv'
<1> DEFINE made == ElfFile(source)
           at == source.symbols[k].st_name
           looked == GetSymbolName(object, at)
<1>1. source \in Images /\ IsImage(source) /\ Readable(source)
  BY ImagesAssumption DEF NamesInv
<1>2. object = [made EXCEPT !.StringTBL_ = object.StringTBL_]
  BY DEF NamesInv
<1>3. /\ object.HeaderLE_ = made.HeaderLE_
      /\ object.ProgramHeaders_ = made.ProgramHeaders_
      /\ object.SHNames_ = made.SHNames_
      /\ object.Symbols = made.Symbols
  <2>1. PICK table : object = [ElfFile(source) EXCEPT !.StringTBL_ = table]
    BY <1>2
  <2> QED
    BY <2>1, TableReplaced
<1>4. object.Symbols[k].st_name = at /\ at \in Nat
  BY <1>1, <1>3, SymbolsShown
<1>5. /\ asked' = k /\ answer' = looked.name /\ source' = source
      /\ object' = [object EXCEPT !.StringTBL_ = looked.StringTBL_]
      /\ missed' = IF \E section \in StringSections :
                        at < Strings(section) /\ at \notin StringStarts(section)
                   THEN missed \cup {at} ELSE missed
  BY <1>4 DEF AskName
<1> HIDE DEF looked
<1>6. object' = [made EXCEPT !.StringTBL_ = looked.StringTBL_]
  BY <1>2, <1>5, TableReplaced, Zenon
<1>7. /\ object'.HeaderLE_ = made.HeaderLE_
      /\ object'.ProgramHeaders_ = made.ProgramHeaders_
      /\ object'.SHNames_ = object.SHNames_
      /\ object'.StringTBL_ = looked.StringTBL_
  <2> DEFINE read == looked.StringTBL_
  <2> HIDE DEF read
  <2>1. object' = [ElfFile(source) EXCEPT !.StringTBL_ = read]
    BY <1>6 DEF read
  <2>2. /\ object'.HeaderLE_ = ElfFile(source).HeaderLE_
        /\ object'.ProgramHeaders_ = ElfFile(source).ProgramHeaders_
        /\ object'.SHNames_ = ElfFile(source).SHNames_
        /\ object'.StringTBL_ = read
    BY <2>1, TableReplaced
  <2> QED
    BY <1>3, <2>2 DEF read
<1>8. StringSections' = StringSections
  BY <1>5, <1>7 DEF StringSections
<1>9. ASSUME NEW section \in StringSections
      PROVE  LET name(i) == CString(source.strings, section.sh_offset + i)
             IN /\ missed' \subseteq (0 .. section.sh_size - 1) \ StringStarts(section)
                /\ object'.StringTBL_ =
                     [i \in StringStarts(section) \cup missed' |->
                        IF i \in missed' THEN <<>> ELSE name(i)]
                /\ answer' = name(at) <=>
                     \/ name(at) = <<>>
                     \/ at \in StringStarts(section) /\ at < Strings(section)'
  <2> DEFINE starts == StringStarts(section)
             name(i) == CString(source.strings, section.sh_offset + i)
             bound == Strings(section)
             more == IF at < bound /\ at \notin starts THEN missed \cup {at} ELSE missed
  <2>1. StringSections = {section} /\ section.sh_size \in Nat
    BY <1>1, <1>3, <1>9, SectionShown
  <2>2. /\ missed \subseteq (0 .. section.sh_size - 1) \ starts
        /\ object.StringTBL_ =
             [i \in starts \cup missed |-> IF i \in missed THEN <<>> ELSE name(i)]
    BY <1>9 DEF NamesInv
  <2>3. /\ looked.name = IF at \in starts /\ at < bound THEN name(at) ELSE <<>>
        /\ looked.StringTBL_ =
             [i \in starts \cup more |-> IF i \in more THEN <<>> ELSE name(i)]
        /\ more \subseteq (0 .. section.sh_size - 1) \ starts
    BY <1>4, <2>1, <2>2, NameLookedUp DEF looked
  <2>4. missed' = more
    BY <1>5, <2>1
  <2>5. at \in starts => Strings(section)' = bound
    BY <1>5, <2>4 DEF Strings, StringStarts
  <2> HIDE DEF starts, name, bound, more
  <2>6. answer' = name(at) <=>
          \/ name(at) = <<>>
          \/ at \in starts /\ at < Strings(section)'
    BY <1>5, <2>3, <2>5
  <2> QED
    BY <1>7, <2>3, <2>4, <2>6 DEF starts, name
<1>10. NamesFound'
  <2>1. made.HeaderLE_ = source.header /\ made.ProgramHeaders_ = source.phdrs
    BY <1>1, SegmentsShown
  <2>2. \A section : StringStarts(section)' = StringStarts(section)
    BY <1>5 DEF StringStarts
  <2> QED
    BY <1>5, <1>7, <1>8, <1>9, <2>1, <2>2 DEF NamesFound
<1> QED
  <2>1. \A section : StringStarts(section)' = StringStarts(section)
    BY <1>5 DEF StringStarts
  <2>2. object' = [ElfFile(source') EXCEPT !.StringTBL_ = object'.StringTBL_]
    BY <1>5, <1>6, <1>7
  <2> QED
    BY <1>1, <1>5, <1>8, <1>9, <1>10, <2>1, <2>2 DEF NamesInv

-----------------------------------------------------------------------------

(* There are no listings at first. *)
LEMMA ListInvInit == Init => ListInv
BY DEF Init, ListInv, NumberInv, OpenedInv, ShownInv

(* What Extract takes out of the object are the words of the image. *)
LEMMA ExtractedRight ==
  ASSUME NEW image, IsImage(image), ElfFile(image).PData_ # <<>>
  PROVE  /\ image.phdrs # <<>>
         /\ [EntryPoint |-> ElfFile(image).HeaderLE_.e_entry,
             VirtualBaseAddress |-> ElfFile(image).ProgramHeaders_[1].p_vaddr,
             Binary |-> WordsOf(image, ElfFile(image).PData_[1])] = Unswitched(image)
<1>1. 1 \in DOMAIN image.phdrs
  <2>1. image.phdrs \in Seq([p_offset : Nat, p_vaddr : Nat, p_filesz : Nat])
    BY DEF IsImage
  <2>2. ElfFile(image).PData_ =
          [k \in DOMAIN image.phdrs |->
             MemRange(image.phdrs[k].p_offset, image.phdrs[k].p_filesz)]
    BY SegmentsShown
  <2>3. Len(image.phdrs) # 0
    BY <2>1, <2>2
  <2> QED
    BY <2>1, <2>3
<1> DEFINE text == image.phdrs[1]
<1>2. ElfFile(image).PData_[1] = MemRange(text.p_offset, text.p_filesz)
  <2>1. ElfFile(image).PData_ =
          [k \in DOMAIN image.phdrs |->
             MemRange(image.phdrs[k].p_offset, image.phdrs[k].p_filesz)]
    BY SegmentsShown
  <2> QED
    BY <1>1, <2>1
<1>3. WordsOf(image, MemRange(text.p_offset, text.p_filesz)) =
        [k \in 1 .. text.p_filesz \div 4 |-> image.words[text.p_offset + 4 * (k - 1)]]
  BY DEF WordsOf, MemRange
<1>4. /\ ElfFile(image).HeaderLE_.e_entry = image.header.e_entry
      /\ ElfFile(image).ProgramHeaders_[1].p_vaddr = text.p_vaddr
  BY SegmentsShown
<1>5. image.phdrs # <<>>
  BY <1>1
<1> QED
  BY <1>2, <1>3, <1>4, <1>5 DEF Unswitched

(* Turning its words around makes them the program a listing should show.  *)
LEMMA SwitchedRight ==
  ASSUME NEW image, program = Unswitched(image), spuSwitchEndianness
  PROVE  program' = Program(image)
<1> DEFINE text == image.phdrs[1]
           words == [k \in 1 .. text.p_filesz \div 4 |->
                       image.words[text.p_offset + 4 * (k - 1)]]
           turned == [k \in 1 .. text.p_filesz \div 4 |->
                        Reverse(image.words[text.p_offset + 4 * (k - 1)])]
<1>1. program = [EntryPoint |-> image.header.e_entry,
                 VirtualBaseAddress |-> text.p_vaddr, Binary |-> words]
  BY DEF Unswitched
<1>2. program' = [program EXCEPT !.Binary =
                    [k \in DOMAIN program.Binary |-> Reverse(program.Binary[k])]]
  BY DEF spuSwitchEndianness
<1>3. [k \in DOMAIN words |-> Reverse(words[k])] = turned
  OBVIOUS
<1>4. program.Binary = words
  BY <1>1
<1> HIDE DEF words, turned
<1>5. program' = [program EXCEPT !.Binary = turned]
  BY <1>2, <1>3, <1>4
<1>6. program' = [EntryPoint |-> image.header.e_entry,
                  VirtualBaseAddress |-> text.p_vaddr, Binary |-> turned]
  BY <1>1, <1>5
<1> QED
  BY <1>6 DEF Program, turned

(* The offsets are gone through one after the other, and each gets the     *)
(* number that comes next.                                                 *)
LEMMA NumberInvStep ==
  ASSUME TypeOK, CacheInv, SearchInv, NumberInv, [Next]_vars
  PROVE  NumberInv'
<1> USE DEF NumberInv
<1>0. counter \in Nat /\ ELF_offsets \in Seq(Nat) /\ elided \in BOOLEAN
  BY DEF TypeOK
<1>1. CASE OpenAndCopy
  BY <1>0, <1>1 DEF OpenAndCopy, extracted, written
<1>2. CASE CloseCopy
  BY <1>0, <1>2 DEF CloseCopy, found, extracted, written
<1>3. CASE Scan
  <2>1. pc = "scan" /\ next = 0 /\ counter = 0 /\ pc' \in {"scan", "each"}
    BY <1>0, <1>3 DEF Scan
  <2>2. next' = next /\ counter' = counter /\ listings' = listings
    BY <1>0, <1>3 DEF Scan, written
  <2>3. Len(ELF_offsets') \in Nat
    BY TypeOKStep DEF TypeOK
  <2> QED
    BY <1>0, <2>1, <2>2, <2>3
<1>4. CASE OpenElf
  BY <1>0, <1>4, SMTT(30) DEF OpenElf, extracted, written
<1>5. CASE Construct
  BY <1>0, <1>5 DEF Construct, found, written
<1>6. CASE CopyElf
  BY <1>0, <1>6 DEF CopyElf, found, extracted, written
<1>7. CASE DropTemporary
  BY <1>0, <1>7 DEF DropTemporary, found, extracted, written
<1>8. CASE Extract
  BY <1>0, <1>8 DEF Extract, found, written
<1>9. CASE spuSwitchEndianness
  BY <1>0, <1>9 DEF spuSwitchEndianness, found, written
<1>10. CASE List
  <2>1. /\ pc = "list" /\ next' = next /\ ELF_offsets' = ELF_offsets
        /\ next = counter + 1
    BY <1>10 DEF List, found
  <2>2. CASE pc' = "lost"
    BY <1>0, <1>10, <2>1, <2>2 DEF List, written
  <2>3. CASE pc' # "lost"
    <3>1. PICK listing \in {{program}, {}} :
            listings' = [n \in DOMAIN listings \cup {counter} |->
                           IF n = counter THEN listing ELSE listings[n]]
      BY <1>10, <2>3 DEF List
    <3>2. pc' = "destroy" /\ counter' = counter + 1
      BY <1>10, <2>3 DEF List
    <3>3. DOMAIN listings' = 0 .. counter
      BY <1>0, <3>1
    <3> QED
      BY <1>0, <2>1, <3>2, <3>3
  <2> QED
    BY <2>2, <2>3
<1>11. CASE Destroy
  BY <1>0, <1>11 DEF Destroy, found, written
<1>12. CASE Replace
  BY <1>0, <1>12 DEF Replace, found, extracted, written
<1>13. CASE UNCHANGED vars
  BY <1>0, <1>13 DEF vars, found, extracted, written
<1> QED
  BY <1>1, <1>2, <1>3, <1>4, <1>5, <1>6, <1>7, <1>8, <1>9, <1>10, <1>11,
     <1>12, <1>13 DEF Next

(* A step that opens nothing leaves what is known of what was opened, if   *)
(* it does not map the file.                                               *)
LEMMA OpenedInvKept ==
  ASSUME OpenedInv, opened' = opened, next' = next, disk' = disk,
         replaced' = replaced, fraw' = fraw,
         LET Read == {"construct", "duplicate", "drop", "extract"}
         IN pc' \in Read /\ Mapped' => pc \in Read /\ Mapped
  PROVE  OpenedInv'
BY DEF OpenedInv

(* The file that was opened for an offset is the one there is as long as   *)
(* it is mapped, and the one that was searched if none was replaced.       *)
LEMMA OpenedInvStep ==
  ASSUME TypeOK, CacheInv, NumberInv, OpenedInv, [Next]_vars
  PROVE  OpenedInv'
<1>0. /\ replaced \in Nat /\ next \in Nat
      /\ opened \in Seq(Contents \cup Replacements)
  BY DEF TypeOK, NumberInv
<1>1. CASE OpenAndCopy
  <2>1. disk.bytes \in Seq(Nat)
    BY ContentsAssumption DEF TypeOK
  <2>2. PICK size \in {0, Len(disk.bytes)} : fraw' = SubSeq(disk.bytes, 1, size)
    BY <1>1 DEF OpenAndCopy
  <2>3. fraw' \in {<<>>, disk.bytes}
    BY <2>1, <2>2
  <2> QED
    BY <1>1, <2>3 DEF OpenAndCopy, OpenedInv
<1>2. CASE CloseCopy
  BY <1>2, OpenedInvKept DEF CloseCopy, found
<1>3. CASE Scan
  BY <1>3, OpenedInvKept DEF Scan
<1>4. CASE OpenElf
  <2>1. CASE next < Len(ELF_offsets)
    <3>1. /\ next' = next + 1 /\ opened' = Append(opened, disk)
          /\ disk' = disk /\ replaced' = replaced /\ fraw' = fraw
      BY <1>4, <2>1 DEF OpenElf
    <3>2. Len(opened) = next
      BY DEF OpenedInv
    <3>3. /\ Len(opened') = next' /\ opened'[next'] = disk'
          /\ \A i \in DOMAIN opened' : opened'[i] = disk \/ i \in DOMAIN opened
          /\ \A i \in DOMAIN opened : opened'[i] = opened[i]
      BY <1>0, <3>1, <3>2
    <3> QED
      BY <3>1, <3>3 DEF OpenedInv
  <2>2. CASE ~(next < Len(ELF_offsets))
    BY <1>4, <2>2, OpenedInvKept DEF OpenElf
  <2> QED
    BY <2>1, <2>2
<1>5. CASE Construct
  BY <1>5, OpenedInvKept DEF Construct, found, map, Mapped
<1>6. CASE CopyElf
  BY <1>6, OpenedInvKept DEF CopyElf, found, Mapped
<1>7. CASE DropTemporary
  <2>1. pc' = "extract" /\ ~elided' /\ CacheInv'
    BY <1>7, CacheInvStep DEF DropTemporary, CacheInv
  <2>2. ~Mapped'
    BY <2>1 DEF CacheInv, Closed
  <2> QED
    BY <1>7, <2>2, OpenedInvKept DEF DropTemporary, found
<1>8. CASE Extract
  BY <1>8, OpenedInvKept DEF Extract, found
<1>9. CASE spuSwitchEndianness
  BY <1>9, OpenedInvKept DEF spuSwitchEndianness, found
<1>10. CASE List
  BY <1>10, OpenedInvKept DEF List, found
<1>11. CASE Destroy
  BY <1>11, OpenedInvKept DEF Destroy, found
<1>12. CASE Replace
  BY <1>0, <1>12 DEF Replace, OpenedInv, map, found, Mapped
<1>13. CASE UNCHANGED vars
  BY <1>13, OpenedInvKept DEF vars, found, map, Mapped
<1> QED
  BY <1>1, <1>2, <1>3, <1>4, <1>5, <1>6, <1>7, <1>8, <1>9, <1>10, <1>11,
     <1>12, <1>13 DEF Next

(* A step that lists nothing leaves the listings what they are of. *)
LEMMA ShownInvKept ==
  ASSUME ShownInv, listings' = listings, opened' = opened,
         ELF_offsets' = ELF_offsets, pc' \notin {"switch", "list"}
  PROVE  ShownInv'
BY DEF ShownInv

(* What is extracted, turned around and listed is an image of the file as  *)
(* it was opened.                                                          *)
LEMMA ShownInvStep ==
  ASSUME TypeOK, CacheInv, NumberInv, OpenedInv, ShownInv, [Next]_vars
  PROVE  ShownInv'
<1>0. /\ counter \in Nat /\ ELF_offsets \in Seq(Nat) /\ elided \in BOOLEAN
      /\ opened \in Seq(Contents \cup Replacements)
      /\ disk \in Contents \cup Replacements
      /\ Len(opened) = next /\ next \in Nat
      /\ DOMAIN listings = 0 .. counter - 1
  BY DEF TypeOK, NumberInv, OpenedInv
<1>1. CASE OpenAndCopy
  BY <1>1, ShownInvKept DEF OpenAndCopy, written
<1>2. CASE CloseCopy
  BY <1>2, ShownInvKept DEF CloseCopy, found, written
<1>3. CASE Scan
  <2>1. listings' = listings /\ counter = 0 /\ pc' \notin {"switch", "list"}
    BY <1>3 DEF Scan, written, NumberInv
  <2> QED
    BY <1>0, <2>1 DEF ShownInv
<1>4. CASE OpenElf
  <2>1. CASE next < Len(ELF_offsets)
    <3>1. /\ opened' = Append(opened, disk) /\ pc' = "construct" /\ counter = next
          /\ ELF_offsets' = ELF_offsets /\ listings' = listings
      BY <1>4, <2>1 DEF OpenElf, written, NumberInv
    <3>2. \A n \in DOMAIN listings : opened'[n + 1] = opened[n + 1]
      BY <1>0, <3>1
    <3> QED
      BY <3>1, <3>2 DEF ShownInv
  <2>2. CASE ~(next < Len(ELF_offsets))
    BY <1>4, <2>2, ShownInvKept DEF OpenElf, written
  <2> QED
    BY <2>1, <2>2
<1>5. CASE Construct
  BY <1>5, ShownInvKept DEF Construct, found, written
<1>6. CASE CopyElf
  BY <1>6, ShownInvKept DEF CopyElf, found, written
<1>7. CASE DropTemporary
  BY <1>7, ShownInvKept DEF DropTemporary, found, written
<1>8. CASE Extract
  <2>1. CASE pc' # "switch"
    BY <1>8, <2>1, ShownInvKept DEF Extract, found, written
  <2>2. CASE pc' = "switch"
    <3>1. pc = "extract" /\ Accessible /\ SPU.PData_ # <<>>
      BY <1>8, <2>2 DEF Extract
    <3>2. Mapped
      BY <1>0, <3>1, AddressAssumption DEF CacheInv, Accessible, Object, Closed,
         OpenedBy, Mapped, MM!TypeOK
    <3>3. PICK image \in ImagesAt(disk, off) :
            /\ SPU = ElfFile(image)
            /\ program' = [EntryPoint |-> SPU.HeaderLE_.e_entry,
                           VirtualBaseAddress |-> SPU.ProgramHeaders_[1].p_vaddr,
                           Binary |-> WordsOf(image, SPU.PData_[1])]
      BY <1>8, <2>2, <3>1 DEF Extract
    <3>4. IsImage(image)
      BY <1>0, ContentsAssumption, NoiseAssumption DEF ImagesAt
    <3>5. image.phdrs # <<>>
      BY <3>1, <3>3, <3>4, ExtractedRight
    <3>6. program' = Unswitched(image)
      BY <3>1, <3>3, <3>4, ExtractedRight
    <3>7. opened[next] = disk
      BY <3>1, <3>2 DEF OpenedInv
    <3>8. /\ opened' = opened /\ next' = next /\ off' = off
          /\ ELF_offsets' = ELF_offsets /\ listings' = listings
      BY <1>8 DEF Extract, found, written
    <3>9. \E i \in ImagesAt(opened'[next'], off') :
            i.phdrs # <<>> /\ program' = Unswitched(i)
      BY <3>5, <3>6, <3>7, <3>8
    <3> QED
      BY <2>2, <3>8, <3>9 DEF ShownInv
  <2> QED
    BY <2>1, <2>2
<1>9. CASE spuSwitchEndianness
  <2>1. PICK image \in ImagesAt(opened[next], off) :
          image.phdrs # <<>> /\ program = Unswitched(image)
    BY <1>9 DEF spuSwitchEndianness, ShownInv
  <2>2. program' = Program(image)
    BY <1>9, <2>1, SwitchedRight
  <2>3. program' \in ProgramsAt(opened[next], off)
    BY <2>1, <2>2 DEF ProgramsAt
  <2>4. /\ opened' = opened /\ next' = next /\ off' = off /\ pc' = "list"
        /\ ELF_offsets' = ELF_offsets /\ listings' = listings
    BY <1>9 DEF spuSwitchEndianness, found, written
  <2> QED
    BY <2>3, <2>4 DEF ShownInv
<1>10. CASE List
  <2>1. CASE pc' = "lost"
    BY <1>10, <2>1, ShownInvKept DEF List, found, written
  <2>2. CASE pc' # "lost"
    <3>1. PICK listing \in {{program}, {}} :
            listings' = [n \in DOMAIN listings \cup {counter} |->
                           IF n = counter THEN listing ELSE listings[n]]
      BY <1>10, <2>2 DEF List
    <3>2. /\ pc = "list" /\ pc' = "destroy"
          /\ ELF_offsets' = ELF_offsets /\ opened' = opened
      BY <1>10, <2>2 DEF List, found
    <3>3. next = counter + 1 /\ off = ELF_offsets[counter + 1]
      BY <1>0, <3>2 DEF NumberInv
    <3>4. listing \subseteq ProgramsAt(opened[counter + 1], ELF_offsets[counter + 1])
      BY <3>2, <3>3 DEF ShownInv
    <3>5. ASSUME NEW n \in DOMAIN listings'
          PROVE  listings'[n] \subseteq ProgramsAt(opened[n + 1], ELF_offsets[n + 1])
      <4>1. CASE n = counter
        BY <3>1, <3>4, <4>1
      <4>2. CASE n # counter
        BY <3>1, <3>5, <4>2 DEF ShownInv
      <4> QED
        BY <4>1, <4>2
    <3> QED
      BY <3>2, <3>5 DEF ShownInv
  <2> QED
    BY <2>1, <2>2
<1>11. CASE Destroy
  BY <1>11, ShownInvKept DEF Destroy, found, written
<1>12. CASE Replace
  BY <1>12 DEF Replace, ShownInv, found, extracted, written
<1>13. CASE UNCHANGED vars
  BY <1>13 DEF vars, ShownInv, found, extracted, written
<1> QED
  BY <1>1, <1>2, <1>3, <1>4, <1>5, <1>6, <1>7, <1>8, <1>9, <1>10, <1>11,
     <1>12, <1>13 DEF Next

(* An image is opened, read, extracted, turned around and listed under the *)
(* number that comes next.                                                 *)
LEMMA ListInvStep ==
  ASSUME TypeOK, CacheInv, SearchInv, ListInv, [Next]_vars
  PROVE  ListInv'
BY NumberInvStep, OpenedInvStep, ShownInvStep DEF ListInv

(* Whatever the step is, the numbers and the offsets gone through agree.   *)
LEMMA ListInvMatches == TypeOK /\ ListInv => ListingsMatch
<1> SUFFICES ASSUME TypeOK, ListInv PROVE ListingsMatch
  OBVIOUS
<1>1. next \in Nat /\ counter \in Nat /\ replaced \in Nat
  BY DEF TypeOK, ListInv, NumberInv
<1>2. counter \in {next - 1, next} \/ next = 0
  <2>1. CASE pc \in {"open", "close", "scan"}
    BY <2>1 DEF ListInv, NumberInv
  <2>2. CASE pc \in {"each", "returned", "destroy"}
    BY <1>1, <2>2 DEF ListInv, NumberInv
  <2>3. CASE pc \in {"construct", "duplicate", "drop", "thrown", "extract", "switch", "list"}
    BY <1>1, <2>3 DEF ListInv, NumberInv
  <2>4. CASE pc = "lost"
    BY <2>4 DEF ListInv, NumberInv
  <2> QED
    BY <2>1, <2>2, <2>3, <2>4 DEF TypeOK
<1>3. \A i \in DOMAIN opened :
        opened[i].bytes = fraw \/ fraw = <<>> \/ replaced > 0
  BY <1>1 DEF ListInv, OpenedInv
<1> QED
  BY <1>2, <1>3 DEF ListInv, NumberInv, ShownInv, ListingsMatch

-----------------------------------------------------------------------------

(* At every step of spu_execute the cache has exactly the entry that step  *)
(* needs, the search has missed nothing it could see, and the offset, the  *)
(* object and the number in hand belong together.                          *)
THEOREM Invariance == Spec => []IInv
<1>1. Init => IInv
  BY CacheInvInit, SearchInvInit, ListInvInit DEF Init, IInv, TypeOK
<1>2. IInv /\ [Next]_vars => IInv'
  BY TypeOKStep, CacheInvStep, SearchInvStep, ListInvStep DEF IInv
<1> QED
  BY <1>1, <1>2, PTL DEF Spec

(* However often opening fails, whoever replaces the file and whether or   *)
(* not the copy of the ElfFile is left out: the file is mapped while an    *)
(* image is used and released afterwards, except by a constructor that     *)
(* throws, and with the copy nothing is ever listed.                       *)
THEOREM CacheCorrect == Spec => []CacheReleased
<1>1. IInv => CacheReleased
  BY CacheInvReleased DEF IInv
<1> QED
  BY <1>1, Invariance, PTL

(* spuFindSPUOffsetsInELFFile finds, in any file and for any size of a     *)
(* header, the SPU images that do not begin within another header.         *)
THEOREM ScanCorrect == Spec => []ScanFinds
<1>1. IInv => ScanFinds
  BY SearchInvFinds DEF IInv
<1> QED
  BY <1>1, Invariance, PTL

(* The listings are numbered without a gap, and each shows the program of  *)
(* an image at its offset, whole and as it was when the file was opened    *)
(* for it - which is what was searched unless the file was replaced.       *)
THEOREM ListingsCorrect == Spec => []ListingsMatch
<1>1. IInv => ListingsMatch
  BY ListInvMatches DEF IInv
<1> QED
  BY <1>1, Invariance, PTL

(* An ElfFile has the header and the segments of its image.  Whatever was  *)
(* asked before, it finds the name of a symbol exactly when a string starts*)
(* at the offset and the table has more strings than that, the ones counted*)
(* that earlier questions have inserted.                                   *)
THEOREM NamesCorrect == NamesSpec => []NamesFound
<1>1. NamesInit => NamesInv
  <2> SUFFICES ASSUME NamesInit PROVE NamesInv
    OBVIOUS
  <2>1. source \in Images /\ object = ElfFile(source) /\ asked = 0 /\ missed = {}
    BY DEF NamesInit
  <2>2. IsImage(source)
    BY <2>1, ImagesAssumption
  <2>3. object = [ElfFile(source) EXCEPT !.StringTBL_ = object.StringTBL_]
    BY <2>1, TableReplaced, Zenon
  <2>4. ASSUME NEW section \in StringSections
        PROVE  object.StringTBL_ =
                 [at \in StringStarts(section) \cup missed |->
                    IF at \in missed THEN <<>>
                    ELSE CString(source.strings, section.sh_offset + at)]
    BY <2>1, <2>4, SectionShown
  <2>5. NamesFound
    BY <2>1, <2>2, SegmentsShown DEF NamesFound
  <2> QED
    BY <2>1, <2>3, <2>4, <2>5 DEF NamesInv
<1>2. NamesInv /\ [NamesNext]_namesVars => NamesInv'
  <2>1. ASSUME NamesInv, NamesNext PROVE NamesInv'
    BY <2>1, NamesInvStep DEF NamesNext
  <2>2. ASSUME NamesInv, UNCHANGED namesVars PROVE NamesInv'
    <3>1. /\ source' = source /\ object' = object /\ asked' = asked
          /\ answer' = answer /\ missed' = missed
      BY <2>2 DEF namesVars
    <3>2. /\ StringSections' = StringSections
          /\ \A section : StringStarts(section)' = StringStarts(section)
      BY <3>1 DEF StringSections, StringStarts
    <3>3. \A section : Strings(section)' = Strings(section)
      BY <3>1, <3>2 DEF Strings
    <3>4. NamesFound'
      BY <2>2, <3>1, <3>2, <3>3 DEF NamesInv, NamesFound
    <3> QED
      BY <2>2, <3>1, <3>2, <3>4 DEF NamesInv
  <2> QED
    BY <2>1, <2>2
<1>3. NamesInv => NamesFound
  BY DEF NamesInv
<1> QED
  BY <1>1, <1>2, <1>3, PTL DEF NamesSpec
=============================================================================
