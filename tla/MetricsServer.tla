--------------------------- MODULE MetricsServer ---------------------------
(***************************************************************************)
(* The metrics server of pkg/metrics/server/server.go, as the controller   *)
(* uses it (controller.go:549-556), together with the certificate watcher  *)
(* of CertWatcher.                                                         *)
(*                                                                         *)
(* Run starts a copy of the server in a goroutine of its own.  Over TLS    *)
(* the certificate comes from a watcher that createListener makes and      *)
(* starts when both files exist, and else from a self-signed pair.  A      *)
(* further goroutine waits for the context and shuts the server down.      *)
(* The watcher is also a package of its own: a client that uses it without *)
(* the server, and may register a callback, is the mode "alone".  net/http *)
(* is external.                                                            *)
(***************************************************************************)
EXTENDS CertWatcher

CONSTANTS
  ExtraPaths,  \* paths of extra handlers
  MaxConns     \* bound: open connections

ASSUME ServerConstants == MaxConns \in Nat /\ "/metrics" \notin ExtraPaths

Paths == ExtraPaths \cup {"/metrics"}

VARIABLES
  tls,        \* off, files, selfSigned; alone: no server
  srv,        \* where NewServer, WithLogger and Start are
  shut,       \* the goroutine that shuts down: off, waiting, draining, done
  listening,  \* the listener is open
  handlers,   \* ExtraHandlers of the server NewServer returned
  copied,     \* ExtraHandlers of the copy that runs
  filterErr,  \* history: the metrics filter failed
  conns       \* open connections

svars == <<tls, srv, shut, listening, handlers, copied, filterErr, conns>>
vars == <<cwvars, svars>>

Init ==
  /\ CertInit
  /\ tls \in {"off", "files", "alone"}
  /\ srv = "none"
  /\ shut = "off"
  /\ listening = FALSE
  /\ handlers = {}
  /\ copied = {}
  /\ filterErr = FALSE
  /\ conns = 0

-----------------------------------------------------------------------------
(* NewServer, AddExtraHandler and WithLogger                               *)

\* Bind address "0" gives no server; the built-in endpoint among the extra
\* handlers, or a failing filter provider, gives an error.
NewServer ==
  /\ srv = "none"
  /\ tls # "alone"
  /\ \E disabled, providerErr \in BOOLEAN, extra \in SUBSET Paths :
       /\ srv' = IF disabled THEN "disabled"
                 ELSE IF "/metrics" \in extra \/ providerErr THEN "refused" ELSE "new"
       /\ handlers' = IF srv' = "new" THEN extra ELSE {}
  /\ UNCHANGED <<cwvars, tls, shut, listening, copied, filterErr, conns>>

HasServer == srv \notin {"none", "disabled", "refused"}

\* The calls that do not return an error.
AddExtraHandler(path) ==
  /\ HasServer
  /\ path # "/metrics"
  /\ path \notin handlers
  /\ handlers' = handlers \cup {path}
  /\ UNCHANGED <<cwvars, tls, srv, shut, listening, copied, filterErr, conns>>

\* Run: the server that is started is a copy, with the handlers of this moment.
WithLogger ==
  /\ srv = "new"
  /\ srv' = "copied"
  /\ copied' = handlers
  /\ UNCHANGED <<cwvars, tls, shut, listening, handlers, filterErr, conns>>

-----------------------------------------------------------------------------
(* createListener                                                          *)

\* The certificate file is looked for, then the key file.
StatCert ==
  /\ srv = "copied"
  /\ srv' = IF tls # "files" THEN "listen"
            ELSE IF disk["cert"] = Missing THEN "selfSigned" ELSE "statKey"
  /\ UNCHANGED <<cwvars, tls, shut, listening, handlers, copied, filterErr, conns>>

\* Both exist: certwatcher.New.
StatKey ==
  /\ srv = "statKey"
  /\ IF disk["key"] = Missing
     THEN srv' = "selfSigned" /\ UNCHANGED cwvars
     ELSE srv' = "creating" /\ New
  /\ UNCHANGED <<tls, shut, listening, handlers, copied, filterErr, conns>>

SelfSigned ==
  /\ srv = "selfSigned"
  /\ srv' \in {"listen", "failed"}
  /\ tls' = "selfSigned"
  /\ UNCHANGED <<cwvars, shut, listening, handlers, copied, filterErr, conns>>

\* An error of New ends Start; otherwise the watcher is started in a goroutine,
\* whose error is only logged.
WatcherMade ==
  /\ srv = "creating"
  /\ \/ start = "error" /\ srv' = "failed" /\ UNCHANGED cwvars
     \/ Start /\ srv' = "listen"
  /\ UNCHANGED <<tls, shut, listening, handlers, copied, filterErr, conns>>

Listen ==
  /\ srv = "listen"
  /\ \E err \in BOOLEAN :
       /\ srv' = IF err THEN "failed" ELSE "bound"
       /\ listening' = ~err
  /\ UNCHANGED <<cwvars, tls, shut, handlers, copied, filterErr, conns>>

-----------------------------------------------------------------------------
(* The rest of Start                                                       *)

\* A filter that fails ends Start with the listener open.  http.ServeMux panics
\* when a path is registered twice.
Mount ==
  /\ srv = "bound"
  /\ \E err \in BOOLEAN :
       /\ filterErr' = err
       /\ srv' = IF err THEN "failed"
                 ELSE IF "/metrics" \in copied THEN "panicked" ELSE "serving"
       /\ shut' = IF srv' = "serving" THEN "waiting" ELSE "off"
  /\ UNCHANGED <<cwvars, tls, listening, handlers, copied, conns>>

Accept ==
  /\ srv = "serving"
  /\ conns < MaxConns
  /\ conns' = conns + 1
  /\ UNCHANGED <<cwvars, tls, srv, shut, listening, handlers, copied, filterErr>>

CloseConn ==
  /\ conns > 0
  /\ conns' = conns - 1
  /\ UNCHANGED <<cwvars, tls, srv, shut, listening, handlers, copied, filterErr>>

\* Serve closes the listener when it returns.
ServeError ==
  /\ srv = "serving"
  /\ srv' = "failed"
  /\ listening' = FALSE
  /\ UNCHANGED <<cwvars, tls, shut, handlers, copied, filterErr, conns>>

Shutdown ==
  /\ shut = "waiting"
  /\ ctxDone
  /\ shut' = "draining"
  /\ listening' = FALSE
  /\ srv' = IF srv = "serving" THEN "closing" ELSE srv
  /\ UNCHANGED <<cwvars, tls, handlers, copied, filterErr, conns>>

\* Mutant: the shutdown has no time limit.
ShutdownReturnsIdle ==
  /\ shut = "draining"
  /\ conns = 0
  /\ shut' = "done"
  /\ UNCHANGED <<cwvars, tls, srv, listening, handlers, copied, filterErr, conns>>

\* Every connection is closed, or the minute is over.
ShutdownReturns ==
  /\ shut = "draining"
  /\ shut' = "done"
  /\ UNCHANGED <<cwvars, tls, srv, listening, handlers, copied, filterErr, conns>>

StartReturns ==
  /\ srv = "closing"
  /\ shut = "done"
  /\ srv' = "returned"
  /\ UNCHANGED <<cwvars, tls, shut, listening, handlers, copied, filterErr, conns>>

\* The goroutine of Start.
Serving ==
  \/ StatCert
  \/ StatKey
  \/ SelfSigned
  \/ WatcherMade
  \/ Listen
  \/ Mount
  \/ StartReturns

Closing == Shutdown \/ ShutdownReturns

\* The calls of the watcher's owner, when the server is not it.
Client == tls = "alone" /\ Owner /\ UNCHANGED svars

Next ==
  \/ (Watching \/ Surroundings) /\ UNCHANGED svars
  \/ Client
  \/ NewServer
  \/ \E path \in Paths : AddExtraHandler(path)
  \/ WithLogger
  \/ Serving
  \/ Closing
  \/ Accept
  \/ CloseConn
  \/ ServeError

Spec == Init /\ [][Next]_vars

\* Both goroutines of the server run; a connection may stay open for ever.
Fairness == CertFairness /\ WF_vars(Serving) /\ WF_vars(Closing)

FairSpec == Spec /\ Fairness

-----------------------------------------------------------------------------
(* Properties                                                              *)

\* A TLS handshake never gets a nil certificate from a watcher, however the files
\* change while the server starts.
HandshakeHasCertificate ==
  srv = "serving" /\ tls = "files" => current # Missing

\* When the context is done, everything Run's goroutine started comes to an end,
\* hung connections or not: the server, the goroutine that shuts it down and both
\* loops of the watcher.  The listener is closed, unless the filter failed.
Quiet ==
  /\ srv \in {"none", "disabled", "refused", "new", "returned", "failed"}
  /\ shut \in {"off", "done"}
  /\ start \notin {"adding", "polling"}
  /\ pc["watch"] = "off"
  /\ listening => filterErr

ServerStops == ctxDone ~> Quiet

\* "AddExtraHandler adds extra handler served on path to the http server that
\* serves metrics" (server.go:33).  It does not hold once the copy is made.
HandlersAreServed == srv = "serving" => handlers = copied

=============================================================================
