--------------------------- MODULE MainProgramProofs ---------------------------
(* Theorems about MainProgram, for any bounds on objects and loads.         *)
EXTENDS MainProgram, Integers, TLAPS

HeapObjects ==
  [kind : Kinds, parent : 1..MaxObjects \cup {Nil}, user : Users, released : BOOLEAN]

(* The object of a pointer is there, in the hands of the user that made it. *)
HeldIn(h, o, kind, user) ==
  o # Nil => /\ o \in DOMAIN h
             /\ h[o].kind = kind
             /\ h[o].user = user
             /\ ~h[o].released

ClientHolds ==
  /\ HeldIn(heap, m_ctx, "SSL_CTX", "client")
  /\ HeldIn(heap, m_SSL, "SSL", "client")
  /\ IF m_clientSocket THEN HeldIn(heap, m_socketId, "fd", "client")
     ELSE m_SSL = Nil /\ m_socketId \in {Nil, Garbage}

ServerHolds ==
  /\ HeldIn(heap, m_pSSLContext, "SSL_CTX", "server")
  /\ HeldIn(heap, m_pCertFile, "X509", "server")
  /\ HeldIn(heap, m_pKeyFile, "RSA", "server")
  /\ \A s \in sessions : s # Nil /\ HeldIn(heap, s, "SSL", "server")

(* As long as nothing was repeated the client holds all it has allocated,   *)
(* and a client that is destroyed holds nothing.                            *)
NothingLost ==
  /\ ~repeated => \A o \in DOMAIN heap :
       heap[o].user = "client" /\ ~heap[o].released => o \in {m_ctx, m_SSL, m_socketId}
  /\ client = "destroyed" /\ process = "up" =>
       m_ctx = Nil /\ m_SSL = Nil /\ m_socketId \in {Nil, Garbage}

(* The server runs only after a load that has succeeded; while there was    *)
(* just the one, it is the one the acceptor takes its sessions from.        *)
LoadInv ==
  /\ load \in {"context", "files", "loaded"} => m_pSSLContext # Nil
  /\ load = "loaded" => m_pSSLContext \in configured
  /\ load # "no" => loads >= 1
  /\ main = "loading" => sessions = {}
  /\ main \in {"serving", "stopping"} => loads >= 1 /\ (loads = 1 => load = "loaded")

IInv == TypeOK /\ ClientHolds /\ ServerHolds /\ NothingLost /\ LoadInv /\ SessionsCertified

-------------------------------------------------------------------------------
(* The heap *)

(* An allocation leaves every object where and as it is.                    *)
LEMMA AllocateKeeps ==
  ASSUME heap \in Seq(HeapObjects), NEW objects \in Seq(HeapObjects), Allocate(objects)
  PROVE  /\ heap' \in Seq(HeapObjects)
         /\ Len(heap') = Len(heap) + Len(objects)
         /\ Len(heap') <= MaxObjects
         /\ \A o \in DOMAIN heap : o \in DOMAIN heap' /\ heap'[o] = heap[o]
         /\ \A k \in 1..Len(objects) : heap'[Len(heap) + k] = objects[k]
         /\ \A o \in DOMAIN heap' : o \in DOMAIN heap \/ o - Len(heap) \in 1..Len(objects)
<1>1. heap' = heap \o objects /\ Len(heap) + Len(objects) <= MaxObjects
  BY DEF Allocate
<1>2. heap' \in Seq(HeapObjects) /\ Len(heap') = Len(heap) + Len(objects)
  BY <1>1
<1>3. \A o \in DOMAIN heap : o \in DOMAIN heap' /\ heap'[o] = heap[o]
  BY <1>1
<1>4. \A k \in 1..Len(objects) : heap'[Len(heap) + k] = objects[k]
  BY <1>1
<1>5. \A o \in DOMAIN heap' : o \in DOMAIN heap \/ o - Len(heap) \in 1..Len(objects)
  BY <1>2
<1> QED
  BY <1>1, <1>2, <1>3, <1>4, <1>5

(* What is held stays held across an allocation.                            *)
LEMMA AllocateHolds ==
  ASSUME heap \in Seq(HeapObjects), NEW objects \in Seq(HeapObjects), Allocate(objects),
         NEW o, NEW kind, NEW user, HeldIn(heap, o, kind, user)
  PROVE  HeldIn(heap', o, kind, user)
BY AllocateKeeps DEF HeldIn

(* Releasing keeps the heap's shape, and every object that is not released. *)
LEMMA ReleaseKeeps ==
  ASSUME heap \in Seq(HeapObjects), NEW objects, Release(objects)
  PROVE  /\ heap' \in Seq(HeapObjects)
         /\ Len(heap') = Len(heap)
         /\ DOMAIN heap' = DOMAIN heap
         /\ \A o \in DOMAIN heap : /\ o \notin objects => heap'[o] = heap[o]
                                   /\ o \in objects => heap'[o].released
                                   /\ heap'[o].user = heap[o].user
                                   /\ heap'[o].parent = heap[o].parent
<1>1. heap' = [o \in 1..Len(heap) |-> IF o \in objects THEN [heap[o] EXCEPT !.released = TRUE]
                                      ELSE heap[o]]
  BY DEF Release
<1>2. \A o \in 1..Len(heap) : heap[o] \in HeapObjects
  OBVIOUS
<1>3. \A o \in 1..Len(heap) : heap'[o] \in HeapObjects
  BY <1>1, <1>2 DEF HeapObjects
<1>4. heap' \in Seq(HeapObjects) /\ Len(heap') = Len(heap)
  BY <1>1, <1>3
<1>5. DOMAIN heap' = DOMAIN heap
  BY <1>4
<1>6. \A o \in DOMAIN heap : /\ o \notin objects => heap'[o] = heap[o]
                             /\ o \in objects => heap'[o].released
                             /\ heap'[o].user = heap[o].user
                             /\ heap'[o].parent = heap[o].parent
  BY <1>1, <1>2 DEF HeapObjects
<1> QED
  BY <1>4, <1>5, <1>6

LEMMA ReleaseHolds ==
  ASSUME heap \in Seq(HeapObjects), NEW objects, Release(objects),
         NEW o, NEW kind, NEW user, HeldIn(heap, o, kind, user), o \notin objects
  PROVE  HeldIn(heap', o, kind, user)
BY ReleaseKeeps DEF HeldIn

-------------------------------------------------------------------------------
(* Types *)

LEMMA Library == LibraryTypeOK => heap \in Seq(HeapObjects) /\ Len(heap) \in Nat /\ Len(heap) <= MaxObjects
BY DEF LibraryTypeOK, HeapObjects

LEMMA NewObject ==
  ASSUME NEW kind \in Kinds, NEW parent \in 1..MaxObjects \cup {Nil}, NEW user \in Users
  PROVE  /\ Object(kind, parent, user) \in HeapObjects
         /\ <<Object(kind, parent, user)>> \in Seq(HeapObjects)
         /\ Len(<<Object(kind, parent, user)>>) = 1
<1> DEFINE o == Object(kind, parent, user)
<1>1. o \in HeapObjects
  BY DEF Object, HeapObjects
<1> HIDE DEF o
<1>2. <<o>> \in Seq(HeapObjects) /\ Len(<<o>>) = 1
  BY <1>1
<1> QED
  BY <1>1, <1>2 DEF o

LEMMA TwoObjects ==
  ASSUME NEW a \in HeapObjects, NEW b \in HeapObjects
  PROVE  <<a, b>> \in Seq(HeapObjects) /\ Len(<<a, b>>) = 2
OBVIOUS

LEMMA KindsAndUsers ==
  /\ "SSL_CTX" \in Kinds /\ "SSL" \in Kinds /\ "X509" \in Kinds /\ "RSA" \in Kinds /\ "fd" \in Kinds
  /\ "client" \in Users /\ "server" \in Users
BY DEF Kinds, Users

(* Allocating one or two objects keeps the library's types, and the places  *)
(* of the new ones are pointers.                                            *)
LEMMA AllocateTyped ==
  ASSUME LibraryTypeOK, NEW objects \in Seq(HeapObjects), Allocate(objects),
         process' \in {"up", "terminated"}
  PROVE  /\ LibraryTypeOK'
         /\ Len(objects) >= 1 => Fresh \in 1..MaxObjects
         /\ Len(objects) >= 2 => Fresh + 1 \in 1..MaxObjects
         /\ Len(objects) >= 1 => Len(heap') \in 1..MaxObjects
<1> USE LibraryAssumption, Library
<1>1. heap' \in Seq(HeapObjects) /\ Len(heap') = Len(heap) + Len(objects) /\ Len(heap') <= MaxObjects
  BY AllocateKeeps
<1>2. Len(objects) \in Nat
  OBVIOUS
<1>3. LibraryTypeOK'
  BY <1>1 DEF LibraryTypeOK, HeapObjects
<1> QED
  BY <1>1, <1>2, <1>3 DEF Fresh

LEMMA AllocateOne ==
  ASSUME LibraryTypeOK, NEW kind \in Kinds, NEW parent \in 1..MaxObjects \cup {Nil},
         NEW user \in Users, Allocate(<<Object(kind, parent, user)>>), UNCHANGED process
  PROVE  LibraryTypeOK' /\ Fresh \in 1..MaxObjects
<1> DEFINE objects == <<Object(kind, parent, user)>>
<1>1. process' \in {"up", "terminated"}
  BY DEF LibraryTypeOK
<1>2. objects \in Seq(HeapObjects) /\ Len(objects) = 1 /\ Allocate(objects)
  BY NewObject
<1> HIDE DEF objects
<1> QED
  BY <1>1, <1>2, AllocateTyped, SMTT(30)

LEMMA ReleaseTyped ==
  ASSUME LibraryTypeOK, NEW objects, Release(objects), process' \in {"up", "terminated"}
  PROVE  LibraryTypeOK'
<1>1. heap' \in Seq(HeapObjects) /\ Len(heap') = Len(heap)
  BY Library, ReleaseKeeps
<1> QED
  BY <1>1 DEF LibraryTypeOK, HeapObjects

LEMMA ObjectFields ==
  ASSUME NEW kind, NEW parent, NEW user
  PROVE  /\ Object(kind, parent, user).kind = kind
         /\ Object(kind, parent, user).parent = parent
         /\ Object(kind, parent, user).user = user
         /\ ~Object(kind, parent, user).released
BY DEF Object

(* The certificate and the key that were read are the server's.             *)
LEMMA FileOwners ==
  ASSUME NEW cert \in BOOLEAN, NEW key \in BOOLEAN, NEW objects,
         objects = (IF cert THEN <<Object("X509", Nil, "server")>> ELSE <<>>) \o
                   (IF key THEN <<Object("RSA", Nil, "server")>> ELSE <<>>)
  PROVE  /\ objects \in Seq(HeapObjects)
         /\ \A k \in 1..Len(objects) : objects[k].user = "server" /\ ~objects[k].released
         /\ cert => 1 \in 1..Len(objects) /\ objects[1].kind = "X509"
         /\ key => Len(objects) \in 1..Len(objects) /\ objects[Len(objects)].kind = "RSA"
<1> DEFINE x509 == Object("X509", Nil, "server")
           rsa == Object("RSA", Nil, "server")
<1>0. objects = (IF cert THEN <<x509>> ELSE <<>>) \o (IF key THEN <<rsa>> ELSE <<>>)
  OBVIOUS
<1>1. x509 \in HeapObjects /\ rsa \in HeapObjects
  BY NewObject, KindsAndUsers
<1>2. x509.kind = "X509" /\ x509.user = "server" /\ ~x509.released
  BY ObjectFields
<1>3. rsa.kind = "RSA" /\ rsa.user = "server" /\ ~rsa.released
  BY ObjectFields
<1> HIDE DEF x509, rsa
<1>4. CASE cert /\ key
  <2>1. /\ objects \in Seq(HeapObjects) /\ Len(objects) = 2
        /\ objects[1] = x509 /\ objects[2] = rsa
    <3> DEFINE both == <<x509>> \o <<rsa>>
    <3>1. objects = both
      BY <1>0, <1>4
    <3>2. both \in Seq(HeapObjects) /\ Len(both) = 2 /\ both[1] = x509 /\ both[2] = rsa
      BY <1>1
    <3> HIDE DEF both
    <3> QED
      BY <3>1, <3>2
  <2> QED
    BY <1>2, <1>3, <1>4, <2>1
<1>5. CASE cert /\ ~key
  <2>1. objects \in Seq(HeapObjects) /\ Len(objects) = 1 /\ objects[1] = x509
    BY <1>0, <1>1, <1>5
  <2> QED
    BY <1>2, <1>5, <2>1
<1>6. CASE ~cert /\ key
  <2>1. objects \in Seq(HeapObjects) /\ Len(objects) = 1 /\ objects[1] = rsa
    BY <1>0, <1>1, <1>6
  <2> QED
    BY <1>3, <1>6, <2>1
<1>7. CASE ~cert /\ ~key
  <2>1. objects \in Seq(HeapObjects) /\ Len(objects) = 0
    BY <1>0, <1>7
  <2> QED
    BY <1>7, <2>1
<1> QED
  BY <1>4, <1>5, <1>6, <1>7

(* The steps of a client and the types.                                     *)
LEMMA ClientTyped ==
  ASSUME TypeOK, SendDataUsingTLS, UNCHANGED <<certvars, main>>
  PROVE  TypeOK'
<1>1. LibraryTypeOK /\ process \in {"up", "terminated"} /\ m_ctx \in 1..MaxObjects \cup {Nil}
  BY DEF TypeOK, LibraryTypeOK, Pointers
<1>2. CASE InitCTX
  <2>1. CASE UNCHANGED heap /\ m_ctx' = Nil
    <3>1. LibraryTypeOK'
      BY <1>1, <1>2, <2>1 DEF InitCTX, LibraryTypeOK
    <3> QED
      BY <1>2, <2>1, <3>1 DEF InitCTX, Move, TypeOK, Pointers, certvars
  <2>2. CASE Allocate(<<Object("SSL_CTX", Nil, "client")>>) /\ m_ctx' = Fresh
    <3>1. LibraryTypeOK' /\ Fresh \in 1..MaxObjects
      BY <1>1, <1>2, <2>2, AllocateOne, KindsAndUsers DEF InitCTX
    <3> QED
      BY <1>2, <2>2, <3>1 DEF InitCTX, Move, TypeOK, Pointers, certvars
  <2> QED
    BY <1>2, <2>1, <2>2 DEF InitCTX
<1>3. CASE CreateSocketFails
  <2>1. LibraryTypeOK'
    BY <1>1, <1>3 DEF CreateSocketFails, libvars, LibraryTypeOK
  <2> QED
    BY <1>3, <2>1 DEF CreateSocketFails, Move, HoldsSocket, TypeOK, Pointers, certvars
<1>4. CASE Connect
  <2>1. CASE m_ctx # Nil /\ Allocate(<<Object("fd", Nil, "client"), Object("SSL", m_ctx, "client")>>)
             /\ m_SSL' = Fresh + 1
    <3> DEFINE objects == <<Object("fd", Nil, "client"), Object("SSL", m_ctx, "client")>>
    <3>1. objects \in Seq(HeapObjects) /\ Len(objects) = 2
      BY <1>1, NewObject, TwoObjects, KindsAndUsers
    <3>2. Allocate(objects) /\ process' \in {"up", "terminated"}
      BY <1>1, <1>4, <2>1 DEF Connect
    <3> HIDE DEF objects
    <3>3. LibraryTypeOK' /\ Fresh \in 1..MaxObjects /\ Fresh + 1 \in 1..MaxObjects
      BY <1>1, <3>1, <3>2, AllocateTyped, SMTT(30)
    <3> QED
      BY <1>4, <2>1, <3>3 DEF Connect, Move, HoldsSocket, TypeOK, Pointers, certvars
  <2>2. CASE Allocate(<<Object("fd", Nil, "client")>>) /\ m_SSL' = Nil
    <3>1. LibraryTypeOK' /\ Fresh \in 1..MaxObjects
      BY <1>1, <1>4, <2>2, AllocateOne, KindsAndUsers DEF Connect
    <3> QED
      BY <1>4, <2>2, <3>1 DEF Connect, Move, HoldsSocket, TypeOK, Pointers, certvars
  <2> QED
    BY <1>4, <2>1, <2>2 DEF Connect
<1>5. CASE SendData \/ ReceiveData
  <2>1. LibraryTypeOK'
    BY <1>1, <1>5 DEF SendData, ReceiveData, Transfer, Terminate, LibraryTypeOK
  <2> QED
    BY <1>5, <2>1 DEF SendData, ReceiveData, Transfer, Move, resources, TypeOK, Pointers, certvars
<1>6. ASSUME NEW from, NEW to \in {"leaving", "destroyed"}, Close(from, to) PROVE TypeOK'
  <2>1. CASE m_clientSocket
    <3>1. LibraryTypeOK'
      BY <1>1, <1>6, <2>1, ReleaseTyped DEF Close
    <3> QED
      BY <1>6, <2>1, <3>1 DEF Close, Move, TypeOK, Pointers, certvars
  <2>2. CASE ~m_clientSocket
    <3>1. LibraryTypeOK'
      BY <1>1, <1>6, <2>2 DEF Close, Terminate, LibraryTypeOK
    <3> QED
      BY <1>6, <2>2, <3>1 DEF Close, Move, resources, TypeOK, Pointers, certvars
  <2> QED
    BY <2>1, <2>2
<1> QED
  BY <1>2, <1>3, <1>4, <1>5, <1>6 DEF SendDataUsingTLS, Destroy

(* The steps of loadCertificate and of the acceptor, and the types.         *)
LEMMA ServerTyped ==
  ASSUME TypeOK, LoadInv, InitCertificationManager \/ GetNewCertificate \/ FreeSession,
         UNCHANGED <<clientvars, main>>
  PROVE  TypeOK'
<1>1. LibraryTypeOK /\ process \in {"up", "terminated"}
  BY DEF TypeOK, LibraryTypeOK
<1>2. CASE LoadCertificate
  <2>1. LibraryTypeOK'
    BY <1>1, <1>2 DEF LoadCertificate, libvars, LibraryTypeOK
  <2>2. loads' \in 0..MaxLoads
    BY <1>2, LoadsAssumption DEF LoadCertificate, TypeOK
  <2> QED
    BY <1>2, <2>1, <2>2 DEF LoadCertificate, TypeOK, Pointers, clientvars, resources
<1>3. CASE CreateCertificateContext
  <2>1. CASE UNCHANGED <<heap, m_pSSLContext>> /\ load' = "failed"
    <3>1. LibraryTypeOK'
      BY <1>1, <1>3, <2>1 DEF CreateCertificateContext, LibraryTypeOK
    <3> QED
      BY <1>3, <2>1, <3>1 DEF CreateCertificateContext, TypeOK, Pointers, clientvars, resources
  <2>2. CASE Allocate(<<Object("SSL_CTX", Nil, "server")>>) /\ m_pSSLContext' = Fresh
             /\ load' = "context"
    <3>1. LibraryTypeOK' /\ Fresh \in 1..MaxObjects
      BY <1>1, <1>3, <2>2, AllocateOne, KindsAndUsers DEF CreateCertificateContext
    <3> QED
      BY <1>3, <2>2, <3>1 DEF CreateCertificateContext, TypeOK, Pointers, clientvars, resources
  <2> QED
    BY <1>3, <2>1, <2>2 DEF CreateCertificateContext
<1>4. CASE LoadCertificateFromFile
  <2>1. CASE UNCHANGED <<heap, m_pCertFile, m_pKeyFile, load>> /\ Terminate
    <3>1. LibraryTypeOK'
      BY <1>1, <1>4, <2>1 DEF LibraryTypeOK, Terminate
    <3> QED
      BY <1>4, <2>1, <3>1 DEF LoadCertificateFromFile, TypeOK, Pointers, clientvars, resources
  <2>2. ASSUME NEW cert \in BOOLEAN, NEW key \in BOOLEAN,
               Allocate((IF cert THEN <<Object("X509", Nil, "server")>> ELSE <<>>) \o
                        (IF key THEN <<Object("RSA", Nil, "server")>> ELSE <<>>)),
               m_pCertFile' = IF cert THEN Fresh ELSE Nil,
               m_pKeyFile' = IF key THEN Len(heap') ELSE Nil,
               load' = IF cert /\ key THEN "files" ELSE "failed",
               UNCHANGED process
        PROVE  TypeOK'
    <3>0. PICK objects :
            objects = (IF cert THEN <<Object("X509", Nil, "server")>> ELSE <<>>) \o
                      (IF key THEN <<Object("RSA", Nil, "server")>> ELSE <<>>)
      OBVIOUS
    <3>1. /\ objects \in Seq(HeapObjects) /\ Allocate(objects)
          /\ cert \/ key => Len(objects) >= 1
      BY <2>2, <3>0, FileOwners
    <3>2. LibraryTypeOK' /\ (cert \/ key => Fresh \in 1..MaxObjects /\ Len(heap') \in 1..MaxObjects)
      BY <1>1, <2>2, <3>1, AllocateTyped
    <3> QED
      BY <1>4, <2>2, <3>2 DEF LoadCertificateFromFile, TypeOK, Pointers, clientvars, resources
  <2> QED
    BY <1>4, <2>1, <2>2 DEF LoadCertificateFromFile
<1>5. CASE ConfigureSSLContext
  <2>1. LibraryTypeOK'
    BY <1>1, <1>5 DEF ConfigureSSLContext, LibraryTypeOK, Terminate
  <2>2. m_pSSLContext \in 1..MaxObjects
    BY <1>5 DEF ConfigureSSLContext, TypeOK, Pointers, LoadInv
  <2>3. configured' \subseteq 1..MaxObjects /\ load' \in {"files", "loaded"}
    BY <1>5, <2>2 DEF ConfigureSSLContext, TypeOK
  <2>4. UNCHANGED <<clientvars, main, m_sslCertificateHandler, m_pSSLContext, m_pCertFile,
                    m_pKeyFile, loads, sessions>>
    BY <1>5 DEF ConfigureSSLContext
  <2> QED
    BY <2>1, <2>3, <2>4 DEF TypeOK, Pointers, clientvars, resources
<1>6. CASE GetNewCertificate
  <2>1. m_pSSLContext \in 1..MaxObjects
    BY <1>6 DEF GetNewCertificate, TypeOK, Pointers
  <2>2. LibraryTypeOK' /\ Fresh \in 1..MaxObjects
    BY <1>1, <1>6, <2>1, AllocateOne, KindsAndUsers DEF GetNewCertificate
  <2> QED
    BY <1>6, <2>2 DEF GetNewCertificate, TypeOK, Pointers, clientvars, resources
<1>7. CASE FreeSession
  <2>1. LibraryTypeOK'
    BY <1>1, <1>7, ReleaseTyped DEF FreeSession
  <2> QED
    BY <1>7, <2>1 DEF FreeSession, TypeOK, Pointers, clientvars, resources
<1> QED
  BY <1>2, <1>3, <1>4, <1>5, <1>6, <1>7 DEF InitCertificationManager

-------------------------------------------------------------------------------
(* What a step of one side leaves to the other *)

(* A step that spares the server's objects keeps what the server holds.     *)
LEMMA ServerKept ==
  ASSUME ServerHolds, SessionsCertified, UNCHANGED certvars,
         \A o \in DOMAIN heap : heap[o].user = "server" => o \in DOMAIN heap' /\ heap'[o] = heap[o]
  PROVE  ServerHolds' /\ SessionsCertified'
<1>1. ASSUME NEW o, NEW kind, HeldIn(heap, o, kind, "server")
      PROVE  HeldIn(heap', o, kind, "server") /\ (o # Nil => heap'[o] = heap[o])
  BY <1>1 DEF HeldIn
<1>2. ServerHolds'
  BY <1>1 DEF ServerHolds, certvars
<1>3. SessionsCertified'
  BY <1>1 DEF ServerHolds, SessionsCertified, certvars
<1> QED
  BY <1>2, <1>3

(* A step that spares the client's objects and adds none keeps what the     *)
(* client holds, and that it holds all.                                     *)
LEMMA ClientKept ==
  ASSUME ClientHolds, NothingLost, UNCHANGED clientvars, process' = "up" => process = "up",
         \A o \in DOMAIN heap : heap[o].user = "client" => o \in DOMAIN heap' /\ heap'[o] = heap[o],
         \A o \in DOMAIN heap' :
           heap'[o].user = "client" /\ ~heap'[o].released => o \in DOMAIN heap /\ heap'[o] = heap[o]
  PROVE  ClientHolds' /\ NothingLost'
<1>1. ASSUME NEW o, NEW kind, HeldIn(heap, o, kind, "client")
      PROVE  HeldIn(heap', o, kind, "client")
  BY <1>1 DEF HeldIn
<1>2. ClientHolds'
  BY <1>1 DEF ClientHolds, clientvars, resources
<1>3. NothingLost'
  BY DEF NothingLost, clientvars, resources
<1> QED
  BY <1>2, <1>3

(* Allocating for one user spares the objects of both.                      *)
LEMMA AllocateSpares ==
  ASSUME heap \in Seq(HeapObjects), NEW objects \in Seq(HeapObjects), Allocate(objects),
         NEW user, \A k \in 1..Len(objects) : objects[k].user # user
  PROVE  /\ \A o \in DOMAIN heap : o \in DOMAIN heap' /\ heap'[o] = heap[o]
         /\ \A o \in DOMAIN heap' : heap'[o].user = user => o \in DOMAIN heap /\ heap'[o] = heap[o]
<1>1. \A o \in DOMAIN heap : o \in DOMAIN heap' /\ heap'[o] = heap[o]
  BY AllocateKeeps
<1>2. ASSUME NEW o \in DOMAIN heap', o \notin DOMAIN heap PROVE heap'[o].user # user
  <2>1. o - Len(heap) \in 1..Len(objects) /\ o \in Nat
    BY <1>2, AllocateKeeps
  <2>2. heap'[Len(heap) + (o - Len(heap))] = objects[o - Len(heap)]
    BY <2>1, AllocateKeeps
  <2>3. Len(heap) + (o - Len(heap)) = o
    BY <2>1
  <2> QED
    BY <2>1, <2>2, <2>3
<1> QED
  BY <1>1, <1>2

(* Releasing objects of one user spares those of the other.                 *)
LEMMA ReleaseSpares ==
  ASSUME heap \in Seq(HeapObjects), NEW objects, Release(objects),
         NEW user, \A o \in objects \cap DOMAIN heap : heap[o].user # user
  PROVE  /\ \A o \in DOMAIN heap : heap[o].user = user => o \in DOMAIN heap' /\ heap'[o] = heap[o]
         /\ \A o \in DOMAIN heap' : heap'[o].user = user => o \in DOMAIN heap /\ heap'[o] = heap[o]
BY ReleaseKeeps

(* What a user has allocated it holds.                                      *)
LEMMA AllocatedHeld ==
  ASSUME heap \in Seq(HeapObjects), NEW objects \in Seq(HeapObjects), Allocate(objects),
         NEW k \in 1..Len(objects), ~objects[k].released
  PROVE  HeldIn(heap', Len(heap) + k, objects[k].kind, objects[k].user)
<1>1. heap'[Len(heap) + k] = objects[k] /\ Len(heap) + k \in DOMAIN heap'
  BY AllocateKeeps
<1> QED
  BY <1>1 DEF HeldIn

(* One object allocated.                                                    *)
LEMMA OneAllocated ==
  ASSUME heap \in Seq(HeapObjects), NEW object \in HeapObjects, Allocate(<<object>>),
         ~object.released
  PROVE  /\ HeldIn(heap', Fresh, object.kind, object.user)
         /\ heap'[Fresh] = object
         /\ \A o \in DOMAIN heap : o \in DOMAIN heap' /\ heap'[o] = heap[o]
         /\ \A o \in DOMAIN heap' : o \in DOMAIN heap \/ o = Fresh
         /\ \A o, kind, user : HeldIn(heap, o, kind, user) => HeldIn(heap', o, kind, user)
<1> DEFINE objects == <<object>>
<1>1. objects \in Seq(HeapObjects) /\ Len(objects) = 1 /\ objects[1] = object /\ Allocate(objects)
  OBVIOUS
<1> HIDE DEF objects
<1>2. heap'[Fresh] = object /\ HeldIn(heap', Fresh, object.kind, object.user)
  <2>1. 1 \in 1..Len(objects) /\ ~objects[1].released
    BY <1>1
  <2>2. heap'[Len(heap) + 1] = objects[1]
    BY <1>1, <2>1, AllocateKeeps
  <2>3. HeldIn(heap', Len(heap) + 1, objects[1].kind, objects[1].user)
    BY <1>1, <2>1, AllocatedHeld
  <2> QED
    BY <1>1, <2>2, <2>3 DEF Fresh
<1>3. \A o \in DOMAIN heap : o \in DOMAIN heap' /\ heap'[o] = heap[o]
  BY <1>1, AllocateKeeps
<1>4. ASSUME NEW o \in DOMAIN heap', o \notin DOMAIN heap PROVE o = Fresh
  <2>1. o - Len(heap) \in 1..1 /\ o \in Nat
    BY <1>1, <1>4, AllocateKeeps
  <2> QED
    BY <2>1 DEF Fresh
<1> QED
  BY <1>2, <1>3, <1>4 DEF HeldIn

(* Two objects allocated.                                                   *)
LEMMA TwoAllocated ==
  ASSUME heap \in Seq(HeapObjects), NEW a \in HeapObjects, NEW b \in HeapObjects,
         Allocate(<<a, b>>), ~a.released, ~b.released
  PROVE  /\ HeldIn(heap', Fresh, a.kind, a.user) /\ HeldIn(heap', Fresh + 1, b.kind, b.user)
         /\ heap'[Fresh] = a /\ heap'[Fresh + 1] = b
         /\ \A o \in DOMAIN heap : o \in DOMAIN heap' /\ heap'[o] = heap[o]
         /\ \A o \in DOMAIN heap' : o \in DOMAIN heap \/ o = Fresh \/ o = Fresh + 1
         /\ \A o, kind, user : HeldIn(heap, o, kind, user) => HeldIn(heap', o, kind, user)
<1> DEFINE objects == <<a, b>>
<1>1. /\ objects \in Seq(HeapObjects) /\ Len(objects) = 2 /\ objects[1] = a /\ objects[2] = b
      /\ Allocate(objects) /\ 1 \in 1..Len(objects) /\ 2 \in 1..Len(objects)
  BY TwoObjects
<1> HIDE DEF objects
<1>2. heap'[Fresh] = a /\ HeldIn(heap', Fresh, a.kind, a.user)
  <2>1. heap'[Len(heap) + 1] = objects[1]
    BY <1>1, AllocateKeeps
  <2>2. HeldIn(heap', Len(heap) + 1, objects[1].kind, objects[1].user)
    BY <1>1, AllocatedHeld
  <2> QED
    BY <1>1, <2>1, <2>2 DEF Fresh
<1>3. heap'[Fresh + 1] = b /\ HeldIn(heap', Fresh + 1, b.kind, b.user)
  <2>1. heap'[Len(heap) + 2] = objects[2]
    BY <1>1, AllocateKeeps
  <2>2. HeldIn(heap', Len(heap) + 2, objects[2].kind, objects[2].user)
    BY <1>1, AllocatedHeld
  <2>3. Fresh + 1 = Len(heap) + 2
    BY DEF Fresh
  <2> QED
    BY <1>1, <2>1, <2>2, <2>3
<1>4. \A o \in DOMAIN heap : o \in DOMAIN heap' /\ heap'[o] = heap[o]
  BY <1>1, AllocateKeeps
<1>5. ASSUME NEW o \in DOMAIN heap', o \notin DOMAIN heap PROVE o = Fresh \/ o = Fresh + 1
  <2>1. o - Len(heap) \in 1..2 /\ o \in Nat
    BY <1>1, <1>5, AllocateKeeps
  <2> QED
    BY <2>1 DEF Fresh
<1> QED
  BY <1>2, <1>3, <1>4, <1>5 DEF HeldIn

-------------------------------------------------------------------------------
(* The steps of a client *)

LEMMA InitCTXStep ==
  ASSUME IInv, process = "up", InitCTX, UNCHANGED <<certvars, main>>
  PROVE  ClientHolds' /\ NothingLost' /\ ServerHolds' /\ SessionsCertified'
<1>1. heap \in Seq(HeapObjects) /\ Len(heap) \in Nat
  BY Library DEF IInv, TypeOK
<1>2. client' # "destroyed" /\ (~repeated' => ~repeated /\ m_ctx = Nil)
  BY DEF InitCTX, Move
<1>3. UNCHANGED <<m_clientSocket, m_SSL, m_socketId>>
  BY DEF InitCTX
<1>4. CASE UNCHANGED heap /\ m_ctx' = Nil
  <2>1. ServerHolds' /\ SessionsCertified'
    BY <1>4, ServerKept DEF IInv
  <2>2. ClientHolds'
    BY <1>3, <1>4 DEF IInv, ClientHolds, HeldIn
  <2>3. NothingLost'
    BY <1>2, <1>3, <1>4 DEF IInv, NothingLost
  <2> QED
    BY <2>1, <2>2, <2>3
<1>5. CASE Allocate(<<Object("SSL_CTX", Nil, "client")>>) /\ m_ctx' = Fresh
  <2>1. PICK object \in HeapObjects :
          /\ object = Object("SSL_CTX", Nil, "client")
          /\ object.kind = "SSL_CTX" /\ object.user = "client" /\ ~object.released
    <3> DEFINE object == Object("SSL_CTX", Nil, "client")
    <3>1. object \in HeapObjects
      BY NewObject, KindsAndUsers
    <3>2. object.kind = "SSL_CTX" /\ object.user = "client" /\ ~object.released
      BY ObjectFields
    <3> HIDE DEF object
    <3> QED
      BY <3>1, <3>2 DEF object
  <2>2. Allocate(<<object>>)
    BY <1>5, <2>1
  <2>3. ServerHolds' /\ SessionsCertified'
    BY <1>1, <2>1, <2>2, OneAllocated, ServerKept DEF IInv
  <2>4. ClientHolds'
    BY <1>1, <1>3, <1>5, <2>1, <2>2, OneAllocated DEF IInv, ClientHolds
  <2>5. ASSUME ~repeated', NEW o \in DOMAIN heap', heap'[o].user = "client", ~heap'[o].released
        PROVE  o \in {m_ctx', m_SSL', m_socketId'}
    <3>1. CASE o \in DOMAIN heap
      <4>1. o \in {m_ctx, m_SSL, m_socketId} /\ m_ctx = Nil /\ o \in Nat
        BY <1>1, <1>2, <2>1, <2>2, <2>5, <3>1, OneAllocated DEF IInv, NothingLost
      <4> QED
        BY <1>3, <4>1, LibraryAssumption
    <3>2. CASE o = Fresh
      BY <1>5, <3>2
    <3> QED
      BY <1>1, <2>1, <2>2, <2>5, <3>1, <3>2, OneAllocated
  <2>6. NothingLost'
    BY <1>2, <2>5 DEF NothingLost
  <2> QED
    BY <2>3, <2>4, <2>6
<1> QED
  BY <1>4, <1>5 DEF InitCTX

LEMMA CreateSocketFailsStep ==
  ASSUME IInv, process = "up", CreateSocketFails, UNCHANGED <<certvars, main>>
  PROVE  ClientHolds' /\ NothingLost' /\ ServerHolds' /\ SessionsCertified'
<1>1. client' # "destroyed" /\ UNCHANGED <<m_ctx, m_clientSocket, m_SSL, heap, process>>
  BY DEF CreateSocketFails, Move, libvars
<1>2. ServerHolds' /\ SessionsCertified'
  BY <1>1, ServerKept DEF IInv
<1>3. ClientHolds'
  BY <1>1 DEF IInv, ClientHolds, HeldIn, CreateSocketFails
<1>4. ASSUME ~repeated', NEW o \in DOMAIN heap, heap[o].user = "client", ~heap[o].released
      PROVE  o \in {m_ctx, m_SSL, m_socketId'}
  <2>1. ~repeated /\ (m_socketId' = Nil => m_socketId \in {Nil, Garbage})
    BY <1>4 DEF CreateSocketFails, HoldsSocket
  <2>2. o \in {m_ctx, m_SSL, m_socketId} /\ o \in Nat
    BY <1>4, <2>1, Library DEF IInv, NothingLost, TypeOK
  <2>3. o \notin {Nil, Garbage}
    BY <2>2, LibraryAssumption, ClientAssumption
  <2> QED
    BY <2>1, <2>2, <2>3 DEF CreateSocketFails
<1>5. NothingLost'
  BY <1>1, <1>4 DEF NothingLost
<1> QED
  BY <1>2, <1>3, <1>5

LEMMA TransferStep ==
  ASSUME IInv, process = "up", NEW from, NEW to \in {"sent", "closing"}, Transfer(from, to),
         UNCHANGED <<certvars, main>>
  PROVE  ClientHolds' /\ NothingLost' /\ ServerHolds' /\ SessionsCertified'
<1>1. client' # "destroyed" /\ UNCHANGED <<resources, repeated, heap>>
  BY DEF Transfer, Move
<1>2. ServerHolds' /\ SessionsCertified'
  BY <1>1, ServerKept DEF IInv
<1>3. ClientHolds' /\ NothingLost'
  BY <1>1 DEF IInv, ClientHolds, NothingLost, HeldIn, resources
<1> QED
  BY <1>2, <1>3

LEMMA CloseStep ==
  ASSUME IInv, process = "up", NEW from, NEW to, Close(from, to), UNCHANGED <<certvars, main>>
  PROVE  ClientHolds' /\ NothingLost' /\ ServerHolds' /\ SessionsCertified'
<1>1. CASE m_clientSocket
  <2> DEFINE objects == {m_SSL, m_socketId, m_ctx}
  <2>1. heap \in Seq(HeapObjects) /\ Release(objects)
    BY <1>1, Library DEF IInv, TypeOK, Close
  <2>2. \A o \in objects \cap DOMAIN heap : heap[o].user # "server"
    <3>1. Nil \notin DOMAIN heap
      BY <2>1, LibraryAssumption
    <3> QED
      BY <1>1, <3>1 DEF IInv, ClientHolds, HeldIn
  <2>3. /\ m_SSL' = Nil /\ m_socketId' = Nil /\ m_ctx' = Nil
        /\ UNCHANGED <<m_clientSocket, repeated, process>>
    BY <1>1 DEF Close
  <2>4. ServerHolds' /\ SessionsCertified'
    <3> HIDE DEF objects
    <3> QED
      BY <2>1, <2>2, ReleaseSpares, ServerKept DEF IInv
  <2>5. ClientHolds'
    BY <1>1, <2>3 DEF ClientHolds, HeldIn
  <2>6. ASSUME ~repeated, NEW o \in DOMAIN heap', heap'[o].user = "client"
        PROVE  heap'[o].released
    <3>1. CASE o \in objects
      BY <2>1, <2>6, <3>1, ReleaseKeeps
    <3>2. CASE o \notin objects
      <4>1. o \in DOMAIN heap /\ heap'[o] = heap[o]
        <5> HIDE DEF objects
        <5> QED
          BY <2>1, <2>6, <3>2, ReleaseKeeps
      <4> QED
        BY <2>6, <3>2, <4>1 DEF IInv, NothingLost
    <3> QED
      BY <3>1, <3>2
  <2>7. NothingLost'
    BY <2>3, <2>6 DEF NothingLost
  <2> QED
    BY <2>4, <2>5, <2>7
<1>2. CASE ~m_clientSocket
  <2>1. process' # "up" /\ UNCHANGED <<resources, repeated, heap>>
    BY <1>2 DEF Close, Terminate
  <2>2. ServerHolds' /\ SessionsCertified'
    BY <2>1, ServerKept DEF IInv
  <2>3. ClientHolds' /\ NothingLost'
    BY <2>1 DEF IInv, ClientHolds, NothingLost, HeldIn, resources
  <2> QED
    BY <2>2, <2>3
<1> QED
  BY <1>1, <1>2

LEMMA ConnectStep ==
  ASSUME IInv, process = "up", Connect, UNCHANGED <<certvars, main>>
  PROVE  ClientHolds' /\ NothingLost' /\ ServerHolds' /\ SessionsCertified'
<1>1. /\ heap \in Seq(HeapObjects) /\ Len(heap) \in Nat
      /\ m_ctx \in 1..MaxObjects \cup {Nil}
  BY Library DEF IInv, TypeOK, Pointers
<1>2. /\ client' # "destroyed" /\ m_socketId' = Fresh /\ m_clientSocket' /\ m_ctx' = m_ctx
      /\ ~repeated' => ~repeated /\ m_SSL = Nil /\ m_socketId \in {Nil, Garbage}
  BY DEF Connect, Move, HoldsSocket
<1>3. ASSUME ~repeated', NEW o \in DOMAIN heap, heap[o].user = "client", ~heap[o].released
      PROVE  o = m_ctx
  <2>1. o \in {m_ctx, Nil, Garbage} /\ o \in Nat
    BY <1>1, <1>2, <1>3 DEF IInv, NothingLost
  <2> QED
    BY <2>1, LibraryAssumption, ClientAssumption
<1>4. CASE m_ctx # Nil /\ Allocate(<<Object("fd", Nil, "client"), Object("SSL", m_ctx, "client")>>)
           /\ m_SSL' = Fresh + 1
  <2>1. PICK fd \in HeapObjects, ssl \in HeapObjects :
          /\ fd = Object("fd", Nil, "client") /\ ssl = Object("SSL", m_ctx, "client")
          /\ fd.kind = "fd" /\ fd.user = "client" /\ ~fd.released
          /\ ssl.kind = "SSL" /\ ssl.user = "client" /\ ~ssl.released
    <3> DEFINE fd == Object("fd", Nil, "client")
               ssl == Object("SSL", m_ctx, "client")
    <3>1. fd \in HeapObjects /\ ssl \in HeapObjects
      BY <1>1, NewObject, KindsAndUsers
    <3>2. fd.kind = "fd" /\ fd.user = "client" /\ ~fd.released
      BY ObjectFields
    <3>3. ssl.kind = "SSL" /\ ssl.user = "client" /\ ~ssl.released
      BY ObjectFields
    <3> HIDE DEF fd, ssl
    <3> QED
      BY <3>1, <3>2, <3>3 DEF fd, ssl
  <2>2. Allocate(<<fd, ssl>>)
    BY <1>4, <2>1
  <2>3. ServerHolds' /\ SessionsCertified'
    BY <1>1, <2>1, <2>2, TwoAllocated, ServerKept DEF IInv
  <2>4. ClientHolds'
    BY <1>1, <1>2, <1>4, <2>1, <2>2, TwoAllocated DEF IInv, ClientHolds
  <2>5. ASSUME ~repeated', NEW o \in DOMAIN heap', heap'[o].user = "client", ~heap'[o].released
        PROVE  o \in {m_ctx', m_SSL', m_socketId'}
    <3>1. CASE o \in DOMAIN heap
      BY <1>1, <1>2, <1>3, <2>1, <2>2, <2>5, <3>1, TwoAllocated
    <3>2. CASE o = Fresh \/ o = Fresh + 1
      BY <1>2, <1>4, <3>2
    <3> QED
      BY <1>1, <2>1, <2>2, <2>5, <3>1, <3>2, TwoAllocated
  <2>6. NothingLost'
    BY <1>2, <2>5 DEF NothingLost
  <2> QED
    BY <2>3, <2>4, <2>6
<1>5. CASE Allocate(<<Object("fd", Nil, "client")>>) /\ m_SSL' = Nil
  <2>1. PICK fd \in HeapObjects :
          fd = Object("fd", Nil, "client") /\ fd.kind = "fd" /\ fd.user = "client" /\ ~fd.released
    <3> DEFINE fd == Object("fd", Nil, "client")
    <3>1. fd \in HeapObjects
      BY NewObject, KindsAndUsers
    <3>2. fd.kind = "fd" /\ fd.user = "client" /\ ~fd.released
      BY ObjectFields
    <3> HIDE DEF fd
    <3> QED
      BY <3>1, <3>2 DEF fd
  <2>2. Allocate(<<fd>>)
    BY <1>5, <2>1
  <2>3. ServerHolds' /\ SessionsCertified'
    BY <1>1, <2>1, <2>2, OneAllocated, ServerKept DEF IInv
  <2>4. ClientHolds'
    <3>1. HeldIn(heap', m_SSL', "SSL", "client")
      BY <1>5 DEF HeldIn
    <3> QED
      BY <1>1, <1>2, <1>5, <2>1, <2>2, <3>1, OneAllocated DEF IInv, ClientHolds
  <2>5. ASSUME ~repeated', NEW o \in DOMAIN heap', heap'[o].user = "client", ~heap'[o].released
        PROVE  o \in {m_ctx', m_SSL', m_socketId'}
    <3>1. CASE o \in DOMAIN heap
      BY <1>1, <1>2, <1>3, <2>1, <2>2, <2>5, <3>1, OneAllocated
    <3>2. CASE o = Fresh
      BY <1>2, <3>2
    <3> QED
      BY <1>1, <2>1, <2>2, <2>5, <3>1, <3>2, OneAllocated
  <2>6. NothingLost'
    BY <1>2, <2>5 DEF NothingLost
  <2> QED
    BY <2>3, <2>4, <2>6
<1> QED
  BY <1>4, <1>5 DEF Connect

(* A step of the client preserves the invariant.                            *)
LEMMA ClientStep ==
  ASSUME IInv, process = "up", SendDataUsingTLS, UNCHANGED <<certvars, main>>
  PROVE  IInv'
<1>1. TypeOK'
  BY ClientTyped DEF IInv
<1>2. LoadInv'
  BY DEF IInv, LoadInv, certvars
<1>3. ClientHolds' /\ NothingLost' /\ ServerHolds' /\ SessionsCertified'
  BY InitCTXStep, CreateSocketFailsStep, ConnectStep, TransferStep, CloseStep
     DEF SendDataUsingTLS, SendData, ReceiveData, Destroy
<1> QED
  BY <1>1, <1>2, <1>3 DEF IInv

-------------------------------------------------------------------------------
(* The steps of the server *)

LEMMA LoadCertificateStep ==
  ASSUME IInv, process = "up", LoadCertificate, UNCHANGED <<clientvars, main>>,
         main = "loading" \/ main = "serving"
  PROVE  ClientHolds' /\ NothingLost' /\ ServerHolds' /\ LoadInv' /\ SessionsCertified'
<1>1. UNCHANGED <<heap, process, configured, sessions>> /\ loads' = loads + 1 /\ load' = "named"
      /\ m_pSSLContext' = Nil /\ m_pCertFile' = Nil /\ m_pKeyFile' = Nil
  BY DEF LoadCertificate, libvars
<1>2. loads \in Nat
  BY DEF IInv, TypeOK
<1>3. ClientHolds' /\ NothingLost'
  BY <1>1, ClientKept DEF IInv
<1>4. ServerHolds'
  BY <1>1 DEF IInv, ServerHolds, HeldIn
<1>5. LoadInv'
  BY <1>1, <1>2 DEF IInv, LoadInv
<1>6. SessionsCertified'
  <2>1. CASE loads = 0
    BY <1>1, <2>1 DEF IInv, LoadInv, SessionsCertified
  <2>2. CASE loads # 0
    BY <1>1, <1>2, <2>2 DEF SessionsCertified
  <2> QED
    BY <2>1, <2>2
<1> QED
  BY <1>3, <1>4, <1>5, <1>6

(* What the rest of loading has to show of the sessions and the phases.     *)
LEMMA LoadPhases ==
  ASSUME IInv, load # "loaded", load # "no", load' # "no", UNCHANGED <<main, loads, sessions>>,
         main = "loading" \/ main = "serving",
         load' \in {"context", "files", "loaded"} => m_pSSLContext' # Nil,
         load' = "loaded" => m_pSSLContext' \in configured'
  PROVE  LoadInv' /\ SessionsCertified'
<1>1. sessions = {} \/ loads # 1
  BY DEF IInv, LoadInv
<1> QED
  BY <1>1 DEF IInv, LoadInv, SessionsCertified

LEMMA CreateCertificateContextStep ==
  ASSUME IInv, process = "up", CreateCertificateContext, UNCHANGED <<clientvars, main>>,
         main = "loading" \/ main = "serving"
  PROVE  ClientHolds' /\ NothingLost' /\ ServerHolds' /\ LoadInv' /\ SessionsCertified'
<1>1. /\ UNCHANGED <<process, m_pCertFile, m_pKeyFile, configured, loads, sessions>>
      /\ load = "named"
  BY DEF CreateCertificateContext
<1>2. heap \in Seq(HeapObjects) /\ Len(heap) \in Nat
  BY Library DEF IInv, TypeOK
<1>3. CASE UNCHANGED <<heap, m_pSSLContext>> /\ load' = "failed"
  <2>1. ClientHolds' /\ NothingLost'
    BY <1>1, <1>3, ClientKept DEF IInv
  <2>2. ServerHolds'
    BY <1>1, <1>3 DEF IInv, ServerHolds, HeldIn
  <2>3. LoadInv' /\ SessionsCertified'
    BY <1>1, <1>3, LoadPhases
  <2> QED
    BY <2>1, <2>2, <2>3
<1>4. CASE Allocate(<<Object("SSL_CTX", Nil, "server")>>) /\ m_pSSLContext' = Fresh
           /\ load' = "context"
  <2>1. PICK ctx \in HeapObjects :
          /\ ctx = Object("SSL_CTX", Nil, "server")
          /\ ctx.kind = "SSL_CTX" /\ ctx.user = "server" /\ ~ctx.released
    <3> DEFINE ctx == Object("SSL_CTX", Nil, "server")
    <3>1. ctx \in HeapObjects
      BY NewObject, KindsAndUsers
    <3>2. ctx.kind = "SSL_CTX" /\ ctx.user = "server" /\ ~ctx.released
      BY ObjectFields
    <3> HIDE DEF ctx
    <3> QED
      BY <3>1, <3>2 DEF ctx
  <2>2. Allocate(<<ctx>>)
    BY <1>4, <2>1
  <2>3. ClientHolds' /\ NothingLost'
    BY <1>1, <1>2, <2>1, <2>2, OneAllocated, ClientKept DEF IInv
  <2>4. ServerHolds'
    BY <1>1, <1>2, <1>4, <2>1, <2>2, OneAllocated DEF IInv, ServerHolds
  <2>5. m_pSSLContext' # Nil
    BY <1>2, <1>4, LibraryAssumption DEF Fresh
  <2>6. LoadInv' /\ SessionsCertified'
    BY <1>1, <1>4, <2>5, LoadPhases
  <2> QED
    BY <2>3, <2>4, <2>6
<1> QED
  BY <1>3, <1>4 DEF CreateCertificateContext

LEMMA LoadCertificateFromFileStep ==
  ASSUME IInv, process = "up", LoadCertificateFromFile, UNCHANGED <<clientvars, main>>,
         main = "loading" \/ main = "serving"
  PROVE  ClientHolds' /\ NothingLost' /\ ServerHolds' /\ LoadInv' /\ SessionsCertified'
<1>1. UNCHANGED <<m_pSSLContext, configured, loads, sessions>> /\ load = "context"
  BY DEF LoadCertificateFromFile
<1>2. heap \in Seq(HeapObjects) /\ Len(heap) \in Nat /\ m_pSSLContext # Nil
  BY <1>1, Library DEF IInv, TypeOK, LoadInv
<1>3. ASSUME NEW cert \in BOOLEAN, NEW key \in BOOLEAN,
             Allocate((IF cert THEN <<Object("X509", Nil, "server")>> ELSE <<>>) \o
                      (IF key THEN <<Object("RSA", Nil, "server")>> ELSE <<>>)),
             m_pCertFile' = IF cert THEN Fresh ELSE Nil,
             m_pKeyFile' = IF key THEN Len(heap') ELSE Nil,
             load' = IF cert /\ key THEN "files" ELSE "failed",
             UNCHANGED process
      PROVE  ClientHolds' /\ NothingLost' /\ ServerHolds' /\ LoadInv' /\ SessionsCertified'
  <2>1. PICK objects :
          objects = (IF cert THEN <<Object("X509", Nil, "server")>> ELSE <<>>) \o
                    (IF key THEN <<Object("RSA", Nil, "server")>> ELSE <<>>)
    OBVIOUS
  <2>2. /\ objects \in Seq(HeapObjects) /\ Allocate(objects)
        /\ \A k \in 1..Len(objects) : objects[k].user = "server" /\ ~objects[k].released
        /\ cert => 1 \in 1..Len(objects) /\ objects[1].kind = "X509"
        /\ key => Len(objects) \in 1..Len(objects) /\ objects[Len(objects)].kind = "RSA"
    BY <1>3, <2>1, FileOwners
  <2>3. ClientHolds' /\ NothingLost'
    <3>1. \A k \in 1..Len(objects) : objects[k].user # "client"
      BY <2>2
    <3> QED
      BY <1>2, <1>3, <2>2, <3>1, AllocateSpares, ClientKept, ZenonT(40) DEF IInv
  <2>4. HeldIn(heap', m_pCertFile', "X509", "server")
    <3>1. CASE cert
      BY <1>2, <1>3, <2>2, <3>1, AllocatedHeld DEF Fresh
    <3>2. CASE ~cert
      BY <1>3, <3>2 DEF HeldIn
    <3> QED
      BY <3>1, <3>2
  <2>5. HeldIn(heap', m_pKeyFile', "RSA", "server")
    <3>1. CASE key
      <4>1. Len(heap') = Len(heap) + Len(objects)
        BY <1>2, <2>2, AllocateKeeps
      <4> QED
        BY <1>2, <1>3, <2>2, <3>1, <4>1, AllocatedHeld
    <3>2. CASE ~key
      BY <1>3, <3>2 DEF HeldIn
    <3> QED
      BY <3>1, <3>2
  <2>6. ServerHolds'
    BY <1>1, <1>2, <2>2, <2>4, <2>5, AllocateHolds DEF IInv, ServerHolds
  <2>7. LoadInv'
    BY <1>1, <1>2, <1>3 DEF IInv, LoadInv
  <2>8. SessionsCertified'
    <3>1. sessions = {} \/ loads # 1
      BY <1>1 DEF IInv, LoadInv
    <3> QED
      BY <1>1, <3>1 DEF SessionsCertified
  <2> QED
    BY <2>3, <2>6, <2>7, <2>8
<1>4. CASE Terminate /\ UNCHANGED <<heap, m_pCertFile, m_pKeyFile, load>>
  <2>1. ClientHolds' /\ NothingLost'
    BY <1>4, ClientKept DEF IInv, Terminate
  <2>2. ServerHolds' /\ LoadInv' /\ SessionsCertified'
    BY <1>1, <1>4 DEF IInv, ServerHolds, HeldIn, LoadInv, SessionsCertified
  <2> QED
    BY <2>1, <2>2
<1> QED
  BY <1>3, <1>4 DEF LoadCertificateFromFile

LEMMA ConfigureSSLContextStep ==
  ASSUME IInv, process = "up", ConfigureSSLContext, UNCHANGED <<clientvars, main>>,
         main = "loading" \/ main = "serving"
  PROVE  ClientHolds' /\ NothingLost' /\ ServerHolds' /\ LoadInv' /\ SessionsCertified'
<1>1. /\ UNCHANGED <<heap, m_pSSLContext, m_pCertFile, m_pKeyFile, loads, sessions>>
      /\ load = "files" /\ load' \in {"files", "loaded"}
      /\ load' = "loaded" => m_pSSLContext \in configured'
  BY DEF ConfigureSSLContext
<1>2. ClientHolds' /\ NothingLost'
  BY <1>1, ClientKept DEF IInv
<1>3. ServerHolds'
  BY <1>1 DEF IInv, ServerHolds, HeldIn
<1>4. LoadInv' /\ SessionsCertified'
  BY <1>1, LoadPhases DEF IInv, LoadInv
<1> QED
  BY <1>2, <1>3, <1>4

(* A step of loadCertificate preserves the invariant.                       *)
LEMMA LoadingStep ==
  ASSUME IInv, process = "up", Loading
  PROVE  IInv'
<1>1. InitCertificationManager /\ UNCHANGED <<clientvars, main>>
      /\ (main = "loading" \/ main = "serving")
  BY DEF Loading
<1>2. TypeOK'
  BY <1>1, ServerTyped DEF IInv
<1>3. ClientHolds' /\ NothingLost' /\ ServerHolds' /\ LoadInv' /\ SessionsCertified'
  BY <1>1, LoadCertificateStep, CreateCertificateContextStep, LoadCertificateFromFileStep,
     ConfigureSSLContextStep DEF InitCertificationManager
<1> QED
  BY <1>2, <1>3 DEF IInv

(* A step of the acceptor preserves the invariant.                          *)
LEMMA AcceptorStep ==
  ASSUME IInv, process = "up", Acceptor
  PROVE  IInv'
<1>1. (GetNewCertificate \/ FreeSession) /\ UNCHANGED <<clientvars, main>>
      /\ main \in {"serving", "stopping"}
  BY DEF Acceptor
<1>2. TypeOK'
  BY <1>1, ServerTyped DEF IInv
<1>3. UNCHANGED <<m_pSSLContext, m_pCertFile, m_pKeyFile, configured, load, loads, process>>
  BY <1>1 DEF GetNewCertificate, FreeSession
<1>4. LoadInv'
  BY <1>1, <1>3 DEF IInv, LoadInv
<1>5. heap \in Seq(HeapObjects) /\ Len(heap) \in Nat /\ m_pSSLContext \in 1..MaxObjects \cup {Nil}
  BY Library DEF IInv, TypeOK, Pointers
<1>6. CASE GetNewCertificate
  <2>1. PICK ssl \in HeapObjects :
          /\ ssl = Object("SSL", m_pSSLContext, "server") /\ ssl.parent = m_pSSLContext
          /\ ssl.kind = "SSL" /\ ssl.user = "server" /\ ~ssl.released
    <3> DEFINE ssl == Object("SSL", m_pSSLContext, "server")
    <3>1. ssl \in HeapObjects
      BY <1>5, NewObject, KindsAndUsers
    <3>2. /\ ssl.parent = m_pSSLContext /\ ssl.kind = "SSL" /\ ssl.user = "server"
          /\ ~ssl.released
      BY ObjectFields
    <3> HIDE DEF ssl
    <3> QED
      BY <3>1, <3>2 DEF ssl
  <2>2. Allocate(<<ssl>>) /\ sessions' = sessions \cup {Fresh}
    BY <1>6, <2>1 DEF GetNewCertificate
  <2>3. ClientHolds' /\ NothingLost'
    BY <1>1, <1>3, <1>5, <2>1, <2>2, OneAllocated, ClientKept DEF IInv
  <2>4. Fresh # Nil
    BY <1>5, LibraryAssumption DEF Fresh
  <2>5. ServerHolds'
    BY <1>3, <1>5, <2>1, <2>2, <2>4, OneAllocated DEF IInv, ServerHolds
  <2>6. ASSUME loads' = 1, NEW s \in sessions' PROVE heap'[s].parent \in configured'
    <3>1. CASE s \in sessions
      <4>1. heap'[s] = heap[s]
        BY <1>5, <2>1, <2>2, <3>1, OneAllocated DEF IInv, ServerHolds, HeldIn
      <4> QED
        BY <1>3, <2>6, <3>1, <4>1 DEF IInv, SessionsCertified
    <3>2. CASE s = Fresh
      <4>1. m_pSSLContext \in configured
        BY <1>1, <1>3, <2>6 DEF IInv, LoadInv
      <4> QED
        BY <1>3, <1>5, <2>1, <2>2, <3>2, <4>1, OneAllocated
    <3> QED
      BY <2>2, <2>6, <3>1, <3>2
  <2>7. SessionsCertified'
    BY <2>6 DEF SessionsCertified
  <2> QED
    BY <1>2, <1>4, <2>3, <2>5, <2>7 DEF IInv
<1>7. CASE FreeSession
  <2>1. PICK s \in sessions : Release({s}) /\ sessions' = sessions \ {s}
    BY <1>7 DEF FreeSession
  <2>2. s \in DOMAIN heap /\ heap[s].kind = "SSL" /\ heap[s].user = "server"
    BY <2>1 DEF IInv, ServerHolds, HeldIn
  <2>3. ClientHolds' /\ NothingLost'
    <3>1. \A o \in {s} \cap DOMAIN heap : heap[o].user # "client"
      BY <2>2
    <3> QED
      BY <1>1, <1>3, <1>5, <2>1, <3>1, ReleaseSpares, ClientKept DEF IInv
  <2>4. ASSUME NEW o, NEW kind, HeldIn(heap, o, kind, "server"), o # s
        PROVE  HeldIn(heap', o, kind, "server")
    BY <1>5, <2>1, <2>4, ReleaseHolds
  <2>5. /\ m_pSSLContext # Nil => m_pSSLContext # s
        /\ m_pCertFile # Nil => m_pCertFile # s
        /\ m_pKeyFile # Nil => m_pKeyFile # s
    BY <2>2 DEF IInv, ServerHolds, HeldIn
  <2>6. \A kind : HeldIn(heap', Nil, kind, "server")
    BY DEF HeldIn
  <2>7. ServerHolds'
    BY <1>3, <2>1, <2>4, <2>5, <2>6 DEF IInv, ServerHolds
  <2>8. SessionsCertified'
    <3>1. \A r \in sessions : r \in DOMAIN heap
      BY DEF IInv, ServerHolds, HeldIn
    <3>2. \A r \in sessions : heap'[r].parent = heap[r].parent
      BY <1>5, <2>1, <3>1, ReleaseKeeps
    <3> QED
      BY <1>3, <2>1, <3>2 DEF IInv, SessionsCertified
  <2> QED
    BY <1>2, <1>4, <2>3, <2>7, <2>8 DEF IInv
<1> QED
  BY <1>1, <1>6, <1>7

-------------------------------------------------------------------------------
(* The invariant *)

LEMMA Initially == Init => IInv
<1> SUFFICES ASSUME Init PROVE IInv
  OBVIOUS
<1> USE DEF Init, LibraryInit, ClientInit, CertificateInit
<1>1. heap = <<>>
  OBVIOUS
<1>2. LibraryTypeOK
  <2>1. heap \in Seq(HeapObjects) /\ Len(heap) = 0
    BY <1>1
  <2> QED
    BY <2>1, LibraryAssumption DEF LibraryTypeOK, HeapObjects
<1>3. TypeOK
  <2>1. loads \in 0..MaxLoads
    BY LoadsAssumption
  <2>2. configured \subseteq 1..MaxObjects /\ sessions \subseteq 1..MaxObjects
    OBVIOUS
  <2> HIDE DEF LibraryInit
  <2> QED
    BY <1>2, <2>1, <2>2 DEF TypeOK, Pointers
<1>4. ClientHolds
  BY DEF ClientHolds, HeldIn
<1>5. ServerHolds
  BY DEF ServerHolds, HeldIn
<1>6. NothingLost
  BY <1>1 DEF NothingLost
<1>7. LoadInv /\ SessionsCertified
  BY DEF LoadInv, SessionsCertified
<1> QED
  BY <1>3, <1>4, <1>5, <1>6, <1>7 DEF IInv

LEMMA Inductive == IInv /\ [Next]_vars => IInv'
<1> SUFFICES ASSUME IInv, [Next]_vars PROVE IInv'
  OBVIOUS
<1>1. CASE UNCHANGED vars
  BY <1>1 DEF IInv, vars, libvars, clientvars, resources, certvars, TypeOK, LibraryTypeOK, Pointers,
     ClientHolds, ServerHolds, HeldIn, NothingLost, LoadInv, SessionsCertified
<1>2. CASE Next
  <2>1. process = "up"
    BY <1>2 DEF Next
  <2>2. CASE StartServer \/ StopServer
    <3>1. UNCHANGED <<libvars, clientvars, certvars>>
      BY <2>2 DEF StartServer, StopServer
    <3>2. ClientHolds' /\ NothingLost'
      BY <3>1, ClientKept DEF IInv, libvars
    <3>3. ServerHolds' /\ SessionsCertified'
      BY <3>1, ServerKept DEF IInv, libvars
    <3>4. LibraryTypeOK'
      BY <3>1 DEF IInv, TypeOK, LibraryTypeOK, libvars
    <3>5. TypeOK'
      BY <2>2, <3>1, <3>4
         DEF StartServer, StopServer, IInv, TypeOK, Pointers, clientvars, resources, certvars
    <3>6. LoadInv'
      BY <2>2, <3>1 DEF StartServer, StopServer, IInv, LoadInv, certvars
    <3> QED
      BY <3>2, <3>3, <3>5, <3>6 DEF IInv
  <2> QED
    BY <1>2, <2>1, <2>2, ClientStep, LoadingStep, AcceptorStep DEF Next, CallItself
<1> QED
  BY <1>1, <1>2

LEMMA Invariance == Spec => []IInv
BY Initially, Inductive, PTL DEF Spec

-------------------------------------------------------------------------------
(* The theorems *)

(* Every variable keeps its type: in particular no handle is ever the       *)
(* uninitialised one except the m_socketId of a client without a store.     *)
THEOREM Typing == Spec => []TypeOK
<1>1. IInv => TypeOK
  BY DEF IInv
<1> QED
  BY <1>1, Invariance, PTL

(* What TLSClient, loadCertificate and the acceptor hold is alive, however  *)
(* many objects there are and in whatever order the client is called: no    *)
(* context, session, certificate, key or descriptor is used or freed twice. *)
THEOREM HeldStaysLive == Spec => []HeldIsLive
<1>1. IInv => HeldIsLive
  BY DEF IInv, ClientHolds, ServerHolds, HeldIn, HeldIsLive, Good
<1> QED
  BY <1>1, Invariance, PTL

(* A destroyed TLSClient has given everything back, unless Init or Connect  *)
(* was called again over what it held.                                      *)
THEOREM NoLeak == Spec => []LeaksOnlyByRepetition
<1>1. ASSUME IInv PROVE LeaksOnlyByRepetition
  <2>1. SUFFICES ASSUME client = "destroyed", process = "up", ~repeated, NEW o \in DOMAIN heap,
                        heap[o].user = "client", ~heap[o].released
                 PROVE  FALSE
    BY DEF LeaksOnlyByRepetition, Kept
  <2>2. o \in {Nil, Garbage} /\ o \in Nat
    BY <1>1, <2>1, Library DEF IInv, NothingLost, TypeOK
  <2> QED
    BY <2>2, LibraryAssumption, ClientAssumption
<1> QED
  BY <1>1, Invariance, PTL

(* With one load of the certificate, however often the acceptor takes a     *)
(* session, each has a context that was given certificate and key.          *)
THEOREM Certified == Spec => []SessionsCertified
<1>1. IInv => SessionsCertified
  BY DEF IInv
<1> QED
  BY <1>1, Invariance, PTL
===============================================================================
