------------------------------- MODULE TLSClient -------------------------------
(***************************************************************************)
(* TLSClient: its context, its EventStorePointer with the session, and its *)
(* descriptor.  Its public functions are called either in the order of     *)
(* sendDataUsingTLS of main.cpp or in any order.                           *)
(***************************************************************************)
EXTENDS OpenSsl

CONSTANT Garbage   \* what an uninitialised m_socketId may be

ASSUME ClientAssumption == Garbage \notin Nat \cup {Nil}

VARIABLES
  usage,            \* "main": sendDataUsingTLS; "any": some other program
  m_ctx,
  m_clientSocket,   \* whether the unique_ptr holds a store
  m_SSL,            \* of that store
  m_socketId,       \* of m_socketDetails
  client,           \* where its user is
  repeated          \* history: Init or Connect while their object was held

resources == <<m_ctx, m_clientSocket, m_SSL, m_socketId>>
clientvars == <<usage, resources, client, repeated>>

(* SSL_CTX* m_ctx without its initialiser.                                  *)
MutantClientInit ==
  /\ usage \in {"main", "any"}
  /\ m_ctx \in {Nil, Garbage}
  /\ m_clientSocket = FALSE
  /\ m_SSL = Nil
  /\ m_socketId = Garbage
  /\ client = "constructed"
  /\ repeated = FALSE

ClientInit ==
  /\ usage \in {"main", "any"}
  /\ m_ctx = Nil
  /\ m_clientSocket = FALSE
  /\ m_SSL = Nil
  /\ m_socketId = Garbage
  /\ client = "constructed"
  /\ repeated = FALSE

(* sendDataUsingTLS goes from one place to another; any other user may call *)
(* what it likes until it destroys the client.                              *)
Move(from, to) ==
  /\ UNCHANGED usage
  /\ IF usage = "main" THEN client = from /\ client' = to
     ELSE client # "destroyed" /\ client' = IF to = "destroyed" THEN to ELSE "constructed"

InitCTX ==
  /\ \/ /\ Move("constructed", "initialised")
        /\ Allocate(<<Object("SSL_CTX", Nil, "client")>>)
        /\ m_ctx' = Fresh
     \/ /\ Move("constructed", "leaving")
        /\ m_ctx' = Nil
        /\ UNCHANGED heap
  /\ repeated' = (repeated \/ m_ctx # Nil)
  /\ UNCHANGED <<m_clientSocket, m_SSL, m_socketId, process>>

HoldsSocket == m_socketId \notin {Nil, Garbage}

(* getaddrinfo fails, or no address can be connected to.                    *)
CreateSocketFails ==
  /\ Move("initialised", "leaving")
  /\ m_socketId' \in {m_socketId, Nil}
  /\ repeated' = (repeated \/ (HoldsSocket /\ m_socketId' = Nil))
  /\ UNCHANGED <<m_ctx, m_clientSocket, m_SSL, libvars>>

(* A new store replaces the old one; without a context there is no session, *)
(* and the handshake may fail with everything in place.                     *)
Connect ==
  /\ m_socketId' = Fresh
  /\ m_clientSocket' = TRUE
  /\ \/ /\ Move("initialised", "connected") \/ Move("initialised", "leaving")
        /\ m_ctx # Nil
        /\ Allocate(<<Object("fd", Nil, "client"), Object("SSL", m_ctx, "client")>>)
        /\ m_SSL' = Fresh + 1
     \/ /\ Move("initialised", "leaving")
        /\ Allocate(<<Object("fd", Nil, "client")>>)
        /\ m_SSL' = Nil
  /\ repeated' = (repeated \/ HoldsSocket \/ m_SSL # Nil)
  /\ UNCHANGED <<m_ctx, process>>

(* SSL_write, SSL_read.  Without a store, or with some releases of OpenSSL  *)
(* without a session, they end the process.                                 *)
Transfer(from, to) ==
  /\ Move(from, to)
  /\ \/ m_clientSocket /\ UNCHANGED process
     \/ m_SSL = Nil /\ Terminate
  /\ UNCHANGED <<resources, repeated, heap>>

SendData == Transfer("connected", "sent") \/ Transfer("connected", "closing")

ReceiveData == Transfer("sent", "closing")

(* The session freed and its pointer kept.                                  *)
MutantClose(from, to) ==
  /\ m_clientSocket
  /\ Move(from, to)
  /\ Release({m_SSL, m_socketId, m_ctx})
  /\ m_socketId' = Nil /\ m_ctx' = Nil
  /\ UNCHANGED <<m_SSL, m_clientSocket, repeated, process>>

(* The context left to the process.                                         *)
MutantCloseKeepsContext(from, to) ==
  \/ /\ m_clientSocket
     /\ Move(from, to)
     /\ Release({m_SSL, m_socketId})
     /\ m_SSL' = Nil /\ m_socketId' = Nil /\ m_ctx' = Nil
     /\ UNCHANGED <<m_clientSocket, repeated, process>>
  \/ /\ ~m_clientSocket
     /\ Move(from, to)
     /\ Terminate
     /\ UNCHANGED <<resources, repeated, heap>>

(* The first line uses m_clientSocket, which only Connect sets.             *)
Close(from, to) ==
  \/ /\ m_clientSocket
     /\ Move(from, to)
     /\ Release({m_SSL, m_socketId, m_ctx})
     /\ m_SSL' = Nil /\ m_socketId' = Nil /\ m_ctx' = Nil
     /\ UNCHANGED <<m_clientSocket, repeated, process>>
  \/ /\ ~m_clientSocket
     /\ Move(from, to)
     /\ Terminate
     /\ UNCHANGED <<resources, repeated, heap>>

Destroy == Close("leaving", "destroyed")

SendDataUsingTLS ==
  \/ InitCTX \/ CreateSocketFails \/ Connect \/ SendData \/ ReceiveData
  \/ Close("closing", "leaving") \/ Destroy
===============================================================================
