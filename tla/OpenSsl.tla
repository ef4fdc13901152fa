-------------------------------- MODULE OpenSsl --------------------------------
(***************************************************************************)
(* The objects a process gets from OpenSSL and the kernel and has to give  *)
(* back: contexts, sessions, certificates, keys and descriptors.  An       *)
(* object is its place in the heap, which is not used again.  Whoever made *)
(* it has one reference, which must be released once; a session keeps its  *)
(* context alive after SSL_CTX_free.                                       *)
(***************************************************************************)
EXTENDS Naturals, Sequences

CONSTANTS
  MaxObjects,   \* bound on what is ever allocated
  Nil

VARIABLES
  heap,
  process   \* "up" or "terminated"

libvars == <<heap, process>>

Kinds == {"SSL_CTX", "SSL", "X509", "RSA", "fd"}

Users == {"client", "server"}

ASSUME LibraryAssumption == MaxObjects \in Nat /\ Nil \notin Nat

LibraryInit == heap = <<>> /\ process = "up"

LibraryTypeOK ==
  /\ heap \in Seq([kind : Kinds, parent : 1..MaxObjects \cup {Nil}, user : Users,
                   released : BOOLEAN])
  /\ Len(heap) <= MaxObjects
  /\ process \in {"up", "terminated"}

Object(kind, parent, user) ==
  [kind |-> kind, parent |-> parent, user |-> user, released |-> FALSE]

(* The objects are the next ones of the heap.                               *)
Allocate(objects) ==
  /\ Len(heap) + Len(objects) <= MaxObjects
  /\ heap' = heap \o objects

(* What a call would allocate next, and after that.                         *)
Fresh == Len(heap) + 1

(* *_free or close of whatever is not null among these.                     *)
Release(objects) ==
  heap' = [o \in DOMAIN heap |-> IF o \in objects THEN [heap[o] EXCEPT !.released = TRUE]
                                 ELSE heap[o]]

(* A pointer of this kind that may be used and freed, or null.              *)
Good(o, kind) == o = Nil \/ (o \in DOMAIN heap /\ heap[o].kind = kind /\ ~heap[o].released)

(* What a user has not given back.                                          *)
Kept(user) == {o \in DOMAIN heap : heap[o].user = user /\ ~heap[o].released}

(* A null pointer used, an exception nobody catches, abort().               *)
Terminate == process' = "terminated"
===============================================================================
