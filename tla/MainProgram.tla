------------------------------ MODULE MainProgram ------------------------------
(***************************************************************************)
(* The process of main.cpp: it loads the certificate, starts the server,   *)
(* whose acceptor then takes and frees sessions, and calls itself with a   *)
(* TLSClient before it stops the server.  TcpServerSocket has what the     *)
(* server does with its connections.                                       *)
(***************************************************************************)
EXTENDS TLSClient, SSLCertificateHandler

VARIABLE main   \* "loading", "serving", "stopping", "ended"

vars == <<libvars, clientvars, certvars, main>>

Init == LibraryInit /\ ClientInit /\ CertificateInit /\ main = "loading"

(* main() loads once; another program may load again while it serves.       *)
Loading ==
  /\ InitCertificationManager
  /\ \/ main = "loading" /\ load \notin {"loaded", "failed"}
     \/ main = "serving" /\ usage = "any"
  /\ UNCHANGED <<clientvars, main>>

(* if(!bIsLoaded) return -1;                                                *)
StartServer ==
  /\ main = "loading"
  /\ \/ load = "loaded" /\ main' = "serving"
     \/ load = "failed" /\ main' = "ended"
  /\ UNCHANGED <<libvars, clientvars, certvars>>

CallItself ==
  /\ main = "serving"
  /\ SendDataUsingTLS
  /\ UNCHANGED <<certvars, main>>

StopServer ==
  /\ main = "serving"
  /\ client = "destroyed"
  /\ main' = "stopping"
  /\ UNCHANGED <<libvars, clientvars, certvars>>

Acceptor ==
  /\ main \in {"serving", "stopping"}
  /\ GetNewCertificate \/ FreeSession
  /\ UNCHANGED <<clientvars, main>>

Next ==
  /\ process = "up"
  /\ Loading \/ StartServer \/ CallItself \/ StopServer \/ Acceptor

Spec == Init /\ [][Next]_vars
-------------------------------------------------------------------------------
(* The types of the variables. *)
Pointers == 1..MaxObjects \cup {Nil}

TypeOK ==
  /\ LibraryTypeOK
  /\ usage \in {"main", "any"} /\ m_clientSocket \in BOOLEAN /\ repeated \in BOOLEAN
  /\ m_ctx \in Pointers /\ m_SSL \in Pointers /\ m_socketId \in Pointers \cup {Garbage}
  /\ client \in {"constructed", "initialised", "connected", "sent", "closing", "leaving",
                 "destroyed"}
  /\ m_sslCertificateHandler \in BOOLEAN
  /\ m_pSSLContext \in Pointers /\ m_pCertFile \in Pointers /\ m_pKeyFile \in Pointers
  /\ configured \subseteq 1..MaxObjects /\ sessions \subseteq 1..MaxObjects
  /\ load \in {"no", "named", "context", "files", "loaded", "failed"}
  /\ loads \in 0..MaxLoads
  /\ main \in {"loading", "serving", "stopping", "ended"}

(* Whatever the order of the calls, the pointers a TLSClient and the        *)
(* certificate handler hold are null or good, so that nothing is used after *)
(* it was freed and nothing freed twice, though main() closes a client that *)
(* its destructor closes again; and once there is a store, m_socketId is    *)
(* not the uninitialised value, so that Close closes no stranger's file.    *)
HeldIsLive ==
  /\ Good(m_ctx, "SSL_CTX") /\ Good(m_SSL, "SSL")
  /\ m_clientSocket => Good(m_socketId, "fd")
  /\ Good(m_pSSLContext, "SSL_CTX") /\ Good(m_pCertFile, "X509") /\ Good(m_pKeyFile, "RSA")
  /\ \A s \in sessions : Good(s, "SSL")

(* A client that is destroyed has given back its context, its session and   *)
(* its descriptor, on every path of sendDataUsingTLS and in any other order *)
(* in which Init and Connect are not repeated without a Close between them. *)
LeaksOnlyByRepetition ==
  client = "destroyed" /\ process = "up" /\ ~repeated => Kept("client") = {}

(* No connection is given a session whose context lacks the certificate and *)
(* the key, as long as the certificate is loaded once: each way in which    *)
(* loading can fail keeps the server from starting.  A second load, while   *)
(* the acceptor runs, shows it contexts that are not configured yet.        *)
SessionsCertified ==
  loads = 1 => \A s \in sessions : heap[s].parent \in configured

(* When Init or Connect fails, sendDataUsingTLS says so and returns -1      *)
(* (main.cpp:58-67), and main() goes on to stop the server: the process     *)
(* outlives a client that could not reach it.                               *)
ClientFailureSurvived == usage = "main" /\ client = "destroyed" => process = "up"
===============================================================================
