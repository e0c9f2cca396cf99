------------------------------- MODULE MemMap -------------------------------
(***************************************************************************)
(* The memory-map cache of raw.cpp and the discipline its users follow.    *)
(*                                                                         *)
(* open(path) looks the path up in the map MappedFiles; a hit adds one to  *)
(* the record's count, a miss maps the file, allocates a memmap_t for the  *)
(* view and records it with count 1.  close(handle) searches MappedFiles   *)
(* for the record that holds that very pointer: count 1 unmaps the view,   *)
(* deletes the memmap_t and erases the record, any other count is          *)
(* decremented.  No call checks whether the mapping succeeded.             *)
(*                                                                         *)
(* The allocator may hand out again an address that was deleted, and the   *)
(* operating system a view that was unmapped: handles and views are drawn  *)
(* from sets, and any one that is free can be returned.                    *)
(*                                                                         *)
(* The users are the ElfFile objects of elf_helper.h (open in the          *)
(* constructor, close in the destructor, and pointers into the view kept   *)
(* in PData_ and SData_ in between) and spu_execute, which opens, copies   *)
(* and closes.                                                             *)
(***************************************************************************)
EXTENDS Naturals, FiniteSets

CONSTANTS
  Path,     \* file names passed to open
  Client,   \* ElfFile objects and other callers of open
  Handle,   \* addresses operator new can return for a memmap_t
  View,     \* addresses MapViewOfFile can return
  NULL,     \* the null pointer
  NoImage   \* of the abstract specification: the file is not mapped

ASSUME NullAssumption ==
  /\ NULL \notin Path \cup Handle \cup View
  /\ NoImage \notin View \cup {NULL}

ASSUME FiniteClients == IsFiniteSet(Client)

VARIABLES
  MappedFiles,  \* path -> (count, handle); (0, NULL) is what operator[] makes
  live,         \* the handles that are allocated
  begin_,       \* the begin_ field of the memmap_t at each address
  backing,      \* backing[v]: the file the system shows at view v, or NULL
  raw_file_,    \* raw_file_[c]: the handle client c got from open, or NULL
  FilePath,     \* FilePath[c]: the path client c opened, or NULL
  data_         \* data_[c]: the view address c took from begin(raw_file_[c])

vars == <<MappedFiles, live, begin_, backing, raw_file_, FilePath, data_>>

NoRecord == [first |-> 0, second |-> NULL]

(* Counts are never negative, and every pointer is null or an address that *)
(* the allocator or the system handed out.                                 *)
TypeOK ==
  /\ MappedFiles \in [Path -> [first : Nat, second : Handle \cup {NULL}]]
  /\ live \in SUBSET Handle
  /\ begin_ \in [Handle -> View \cup {NULL}]
  /\ backing \in [View -> Path \cup {NULL}]
  /\ raw_file_ \in [Client -> Handle \cup {NULL}]
  /\ FilePath \in [Client -> Path \cup {NULL}]
  /\ data_ \in [Client -> View \cup {NULL}]

Init ==
  /\ MappedFiles = [p \in Path |-> NoRecord]
  /\ live = {}
  /\ begin_ = [h \in Handle |-> NULL]
  /\ backing = [v \in View |-> NULL]
  /\ raw_file_ = [c \in Client |-> NULL]
  /\ FilePath = [c \in Client |-> NULL]
  /\ data_ = [c \in Client |-> NULL]

-----------------------------------------------------------------------------

(* The client keeps what open returned and reads begin() through it. *)
Take(c, p, h, v) ==
  /\ raw_file_' = [raw_file_ EXCEPT ![c] = h]
  /\ FilePath' = [FilePath EXCEPT ![c] = p]
  /\ data_' = [data_ EXCEPT ![c] = v]

(* open finds the path with a handle. *)
OpenHit(c, p) ==
  /\ raw_file_[c] = NULL
  /\ MappedFiles[p].second # NULL
  /\ MappedFiles' = [MappedFiles EXCEPT ![p].first = @ + 1]
  /\ Take(c, p, MappedFiles[p].second, begin_[MappedFiles[p].second])
  /\ UNCHANGED <<live, begin_, backing>>

(* Mutant: a hit is decided by the view and not by the handle, so a file   *)
(* that failed to map is mapped again while it is in use.                  *)
OpenMissRetries(c, p, h, v) ==
  /\ raw_file_[c] = NULL
  /\ MappedFiles[p].second \in {NULL} \cup {m \in live : begin_[m] = NULL}
  /\ h \notin live
  /\ v # NULL => backing[v] = NULL
  /\ live' = live \cup {h}
  /\ begin_' = [begin_ EXCEPT ![h] = v]
  /\ backing' = IF v = NULL THEN backing ELSE [backing EXCEPT ![v] = p]
  /\ MappedFiles' = [MappedFiles EXCEPT ![p] = [first |-> 1, second |-> h]]
  /\ Take(c, p, h, v)

(* open maps the file: v is the view MapViewOfFile returned, NULL if any   *)
(* of the calls that lead to it failed; the record is made either way.     *)
OpenMiss(c, p, h, v) ==
  /\ raw_file_[c] = NULL
  /\ MappedFiles[p].second = NULL
  /\ h \notin live
  /\ v # NULL => backing[v] = NULL
  /\ live' = live \cup {h}
  /\ begin_' = [begin_ EXCEPT ![h] = v]
  /\ backing' = IF v = NULL THEN backing ELSE [backing EXCEPT ![v] = p]
  /\ MappedFiles' = [MappedFiles EXCEPT ![p] = [first |-> 1, second |-> h]]
  /\ Take(c, p, h, v)

(* The records std::find_if can stop at. *)
Records(h) == {p \in Path : MappedFiles[p].second = h}

(* The client's object is gone after close. *)
Drop(c) ==
  /\ raw_file_' = [raw_file_ EXCEPT ![c] = NULL]
  /\ FilePath' = [FilePath EXCEPT ![c] = NULL]
  /\ data_' = [data_ EXCEPT ![c] = NULL]

(* UnmapViewOfFile; it fails, and nothing happens, on the null pointer. *)
UnmapViewOfFile(v) ==
  backing' = IF v = NULL THEN backing ELSE [backing EXCEPT ![v] = NULL]

(* Mutant: the record outlives the memmap_t it points to. *)
ReleaseKeepsRecord(p) ==
  LET m == MappedFiles[p].second IN
  IF MappedFiles[p].first = 1
  THEN /\ UnmapViewOfFile(begin_[m])
       /\ live' = live \ {m}
       /\ MappedFiles' = [MappedFiles EXCEPT ![p].first = 0]
  ELSE /\ MappedFiles' = [MappedFiles EXCEPT ![p].first = @ - 1]
       /\ UNCHANGED <<live, backing>>

(* Mutant: the view is left mapped. *)
ReleaseKeepsView(p) ==
  LET m == MappedFiles[p].second IN
  IF MappedFiles[p].first = 1
  THEN /\ live' = live \ {m}
       /\ MappedFiles' = [MappedFiles EXCEPT ![p] = NoRecord]
       /\ UNCHANGED backing
  ELSE /\ MappedFiles' = [MappedFiles EXCEPT ![p].first = @ - 1]
       /\ UNCHANGED <<live, backing>>

(* Mutant: any close of a shared file unmaps it. *)
ReleaseAtTwo(p) ==
  LET m == MappedFiles[p].second IN
  IF MappedFiles[p].first <= 2
  THEN /\ UnmapViewOfFile(begin_[m])
       /\ live' = live \ {m}
       /\ MappedFiles' = [MappedFiles EXCEPT ![p] = NoRecord]
  ELSE /\ MappedFiles' = [MappedFiles EXCEPT ![p].first = @ - 1]
       /\ UNCHANGED <<live, backing>>

(* What close does to the record it found. *)
ReleaseRecord(p) ==
  LET m == MappedFiles[p].second IN
  IF MappedFiles[p].first = 1
  THEN /\ UnmapViewOfFile(begin_[m])
       /\ live' = live \ {m}
       /\ MappedFiles' = [MappedFiles EXCEPT ![p] = NoRecord]
  ELSE /\ MappedFiles' = [MappedFiles EXCEPT ![p].first = @ - 1]
       /\ UNCHANGED <<live, backing>>

(* close(raw_file_[c]): a handle that no record holds is ignored. *)
Close(c) ==
  /\ raw_file_[c] # NULL
  /\ IF Records(raw_file_[c]) = {}
     THEN UNCHANGED <<MappedFiles, live, backing>>
     ELSE \E p \in Records(raw_file_[c]) : ReleaseRecord(p)
  /\ Drop(c)
  /\ UNCHANGED begin_

Next ==
  \E c \in Client :
    \/ \E p \in Path :
         \/ OpenHit(c, p)
         \/ \E h \in Handle, v \in View \cup {NULL} : OpenMiss(c, p, h, v)
    \/ Close(c)

Spec == Init /\ [][Next]_vars

-----------------------------------------------------------------------------

Users(p) == {c \in Client : FilePath[c] = p}

(* The count of a record is the number of users that opened its path and   *)
(* have not closed it: counting in open and in close never drifts apart.   *)
CountIsUsers ==
  \A p \in Path : MappedFiles[p].first = Cardinality(Users(p))

(* The pointer search in close finds, for every user, the record of the    *)
(* path that user opened and no other, however addresses were reused.      *)
CloseFindsOwnRecord ==
  \A c \in Client :
    raw_file_[c] # NULL => Records(raw_file_[c]) = {FilePath[c]}

(* The pointers a user keeps into its file (PData_, SData_) never outlive  *)
(* the view: they point into a view that still shows the file it opened,   *)
(* or were null from the start, and the memmap_t behind them is allocated. *)
NoDanglingUser ==
  \A c \in Client : raw_file_[c] # NULL =>
    /\ raw_file_[c] \in live
    /\ begin_[raw_file_[c]] = data_[c]
    /\ data_[c] # NULL => backing[data_[c]] = FilePath[c]

(* Nothing is leaked: a memmap_t is allocated only while a record holds    *)
(* it, a view is mapped only while some user of that file is left.         *)
NoLeak ==
  /\ \A h \in live : Records(h) # {}
  /\ \A v \in View : backing[v] # NULL =>
       \E c \in Client : FilePath[c] = backing[v] /\ data_[c] = v

-----------------------------------------------------------------------------

(* The parts of the inductive invariant behind the four properties above. *)
HandlesDistinct ==
  \A p, q \in Path :
    MappedFiles[p].second # NULL /\ MappedFiles[p].second = MappedFiles[q].second
      => p = q

RecordsOwn ==
  \A p \in Path : LET r == MappedFiles[p] IN
    /\ r.second = NULL <=> r.first = 0
    /\ r.second # NULL => r.second \in live
    /\ r.second # NULL /\ begin_[r.second] # NULL => backing[begin_[r.second]] = p

NothingUnowned ==
  /\ \A h \in live : \E p \in Path : MappedFiles[p].second = h
  /\ \A v \in View : backing[v] # NULL =>
       /\ MappedFiles[backing[v]].second # NULL
       /\ begin_[MappedFiles[backing[v]].second] = v

UsersHold ==
  \A c \in Client :
    /\ raw_file_[c] = NULL => FilePath[c] = NULL
    /\ raw_file_[c] # NULL =>
         /\ FilePath[c] # NULL
         /\ raw_file_[c] = MappedFiles[FilePath[c]].second
         /\ data_[c] = begin_[raw_file_[c]]

(* Records and memmap_t objects correspond one to one, so do mapped views  *)
(* and records whose mapping succeeded, and every user holds the record of *)
(* its path: what open and close keep up between them.                     *)
IInv ==
  TypeOK /\ HandlesDistinct /\ RecordsOwn /\ NothingUnowned /\ UsersHold
    /\ CountIsUsers

-----------------------------------------------------------------------------

(* The image of a file, as its users see it. *)
Image(p) ==
  IF MappedFiles[p].second = NULL
  THEN NoImage
  ELSE begin_[MappedFiles[p].second]

Lease == INSTANCE FileLease WITH
           lease <- FilePath,
           image <- [p \in Path |-> Image(p)]

(* The cache keeps the promise of FileLease: one stable image per file for *)
(* as long as anyone uses it, dropped with the last user.                  *)
LeaseSpec == Lease!Spec
=============================================================================
