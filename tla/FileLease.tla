----------------------------- MODULE FileLease -----------------------------
(***************************************************************************)
(* What the memory-map cache of raw.cpp promises to its users, without its *)
(* reference counts, its heap objects or its search by pointer.            *)
(*                                                                         *)
(* A user takes a lease on a file and gives it back.  While at least one   *)
(* lease on a file is out, the file has one image, shared by all its       *)
(* leases, and that image does not change; when the last lease on the file *)
(* is returned the image is dropped, and the next lease makes a new one.   *)
(***************************************************************************)

CONSTANTS
  Path,     \* the files that can be opened
  Client,   \* the users of the cache
  View,     \* the address ranges a file can be mapped at
  NULL,     \* the null pointer: no lease, or an image that failed to map
  NoImage   \* the file has no image at all

VARIABLES
  lease,    \* lease[c]: the file c has on loan, or NULL
  image     \* image[p]: where p is mapped, NULL if mapping it failed, or NoImage

vars == <<lease, image>>

Holders(p) == {c \in Client : lease[c] = p}

(* A view shows one file at a time. *)
Vacant == {v \in View : \A p \in Path : image[p] # v}

Init ==
  /\ lease = [c \in Client |-> NULL]
  /\ image = [p \in Path |-> NoImage]

(* The first lease makes the image; it may fail to, and then the lease is  *)
(* on the null image.                                                      *)
Acquire(c, p, v) ==
  /\ lease[c] = NULL
  /\ image[p] = NoImage
  /\ v \in Vacant \cup {NULL}
  /\ lease' = [lease EXCEPT ![c] = p]
  /\ image' = [image EXCEPT ![p] = v]

(* Every further lease shares the image that is there. *)
Share(c, p) ==
  /\ lease[c] = NULL
  /\ image[p] # NoImage
  /\ lease' = [lease EXCEPT ![c] = p]
  /\ UNCHANGED image

(* A lease is returned; the last one takes the image with it. *)
Release(c) ==
  /\ lease[c] # NULL
  /\ lease' = [lease EXCEPT ![c] = NULL]
  /\ image' = [image EXCEPT
                 ![lease[c]] = IF Holders(lease[c]) = {c} THEN NoImage ELSE @]

Next ==
  \E c \in Client :
    \/ \E p \in Path :
         \/ Share(c, p)
         \/ \E v \in View \cup {NULL} : Acquire(c, p, v)
    \/ Release(c)

Spec == Init /\ [][Next]_vars
=============================================================================
