------------------------- MODULE SSLCertificateHandler -------------------------
(***************************************************************************)
(* SSLCertificateHandler, as TLSServerSocketHandler uses it: loadCertificate *)
(* makes one and initialises it, and the acceptor takes sessions from it.  *)
(* m_mutex is held within a part of the initialisation and released        *)
(* between the parts: each part is a step.  Nothing deletes the handler.   *)
(***************************************************************************)
EXTENDS OpenSsl

CONSTANT MaxLoads   \* bound on the calls of loadCertificate

ASSUME LoadsAssumption == MaxLoads \in Nat

VARIABLES
  m_sslCertificateHandler,   \* whether there is one
  m_pSSLContext, m_pCertFile, m_pKeyFile,   \* its members
  configured,   \* the contexts that have certificate and key
  load,         \* where loadCertificate is, or what it has returned
  loads,
  sessions      \* those the server's stores hold

certvars == <<m_sslCertificateHandler, m_pSSLContext, m_pCertFile, m_pKeyFile, configured,
              load, loads, sessions>>

CertificateInit ==
  /\ m_sslCertificateHandler = FALSE
  /\ m_pSSLContext = Nil /\ m_pCertFile = Nil /\ m_pKeyFile = Nil
  /\ configured = {}
  /\ load = "no"
  /\ loads = 0
  /\ sessions = {}

(* The pointer to the old handler is lost, with what the handler holds.     *)
LoadCertificate ==
  /\ load \in {"no", "loaded", "failed"}
  /\ loads < MaxLoads
  /\ loads' = loads + 1
  /\ load' = "named"
  /\ m_sslCertificateHandler' = TRUE
  /\ m_pSSLContext' = Nil /\ m_pCertFile' = Nil /\ m_pKeyFile' = Nil
  /\ UNCHANGED <<configured, sessions, libvars>>

CreateCertificateContext ==
  /\ load = "named"
  /\ \/ /\ Allocate(<<Object("SSL_CTX", Nil, "server")>>)
        /\ m_pSSLContext' = Fresh
        /\ load' = "context"
     \/ /\ load' = "failed"
        /\ UNCHANGED <<heap, m_pSSLContext>>
  /\ UNCHANGED <<m_sslCertificateHandler, m_pCertFile, m_pKeyFile, configured, loads, sessions,
                 process>>

(* What is not PEM gives null.  A missing file has size -1, and a vector of *)
(* that size throws.                                                        *)
LoadCertificateFromFile ==
  /\ load = "context"
  /\ \/ \E cert, key \in BOOLEAN :
          /\ Allocate((IF cert THEN <<Object("X509", Nil, "server")>> ELSE <<>>) \o
                      (IF key THEN <<Object("RSA", Nil, "server")>> ELSE <<>>))
          /\ m_pCertFile' = IF cert THEN Fresh ELSE Nil
          /\ m_pKeyFile' = IF key THEN Len(heap') ELSE Nil
          /\ load' = IF cert /\ key THEN "files" ELSE "failed"
          /\ UNCHANGED process
     \/ /\ Terminate
        /\ UNCHANGED <<heap, m_pCertFile, m_pKeyFile, load>>
  /\ UNCHANGED <<m_sslCertificateHandler, m_pSSLContext, configured, loads, sessions>>

(* A key that does not fit the certificate logged, and nothing else.        *)
MutantConfigureSSLContext ==
  /\ load = "files"
  /\ configured' \in {configured, configured \cup {m_pSSLContext}}
  /\ load' = "loaded"
  /\ UNCHANGED <<m_sslCertificateHandler, m_pSSLContext, m_pCertFile, m_pKeyFile, loads,
                 sessions, libvars>>

(* The files are read again, into the context; if that fails, abort().      *)
ConfigureSSLContext ==
  /\ load = "files"
  /\ \/ /\ configured' = configured \cup {m_pSSLContext}
        /\ load' = "loaded"
        /\ UNCHANGED process
     \/ /\ Terminate
        /\ UNCHANGED <<configured, load>>
  /\ UNCHANGED <<m_sslCertificateHandler, m_pSSLContext, m_pCertFile, m_pKeyFile, loads,
                 sessions, heap>>

InitCertificationManager ==
  LoadCertificate \/ CreateCertificateContext \/ LoadCertificateFromFile \/ ConfigureSSLContext

(* Without a context SSL_new returns null, and the connection is refused.   *)
GetNewCertificate ==
  /\ m_sslCertificateHandler
  /\ m_pSSLContext # Nil
  /\ Allocate(<<Object("SSL", m_pSSLContext, "server")>>)
  /\ sessions' = sessions \cup {Fresh}
  /\ UNCHANGED <<m_sslCertificateHandler, m_pSSLContext, m_pCertFile, m_pKeyFile, configured,
                 load, loads, process>>

(* A failed SSL_accept, or closeConnection.                                 *)
FreeSession ==
  /\ \E s \in sessions : Release({s}) /\ sessions' = sessions \ {s}
  /\ UNCHANGED <<m_sslCertificateHandler, m_pSSLContext, m_pCertFile, m_pKeyFile, configured,
                 load, loads, process>>
===============================================================================
