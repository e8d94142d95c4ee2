------------------------------ MODULE Exporter ------------------------------
(***************************************************************************)
(* The life of one exporter process (cmd/rdc-exporter/main.go): start-up   *)
(* with its early returns and deferred cleanups, the collection goroutine, *)
(* the HTTP server, and the shutdown a signal starts.                      *)
(*                                                                         *)
(* main never joins the collection goroutine: it runs on, reads in flight  *)
(* (module Reader), until the process exits.                               *)
(***************************************************************************)
EXTENDS Naturals, Sequences, FiniteSets

CONSTANTS
    GPUs, NumFields, Values, NonNumeric, NotFound, Failed, Unread, \* see Reader
    Requests     \* concurrent requests to /metrics

\* What Reader assumes of its constants.
ASSUME ExporterAssumption ==
    /\ IsFiniteSet(GPUs)
    /\ NumFields \in Nat
    /\ 0 \in Values
    /\ \A a \in {NonNumeric, NotFound, Failed, Unread} : a \notin Values
    /\ Failed \notin {NonNumeric, NotFound, Unread}
    /\ Unread \notin {NonNumeric, NotFound}

VARIABLES
    main,     \* the main goroutine
    smi,      \* rocm-smi: "off", "running" or "answered"
    defers,   \* its deferred calls, the next to run first
    conn,     \* the kubelet connection: "none", "open", "leaked" or "closed"
    handle,   \* the RDC handle: "none", "open", "abandoned", "stopped" or
              \* "unstopped" when rdc_stop_embedded failed
    server,   \* http.Server: "off", "starting", "bound", "serving", "failed"
              \* or "closed"
    closing,  \* http.Server.Shutdown was called
    grace,    \* five seconds have passed since then
    active,   \* requests being served
    loop,     \* the collection goroutine
    ctx, caller, worker, pos, answer, chan, closed, samples, late  \* see Reader

mainVars   == <<main, smi, defers, conn, handle>>
serverVars == <<server, closing, grace, active>>
readerVars == <<caller, worker, pos, answer, chan, closed, samples, late>>
vars == <<mainVars, serverVars, loop, ctx, readerVars>>

Reader == INSTANCE Reader

Init ==
    /\ main    = "configure"
    /\ smi     = "off"
    /\ defers  = <<>>
    /\ conn    = "none"
    /\ handle  = "none"
    /\ server  = "off"
    /\ closing = FALSE
    /\ grace   = FALSE
    /\ active  = {}
    /\ loop    = "off"
    /\ Reader!Init

Running == main # "exited"

-----------------------------------------------------------------------------
(* The main goroutine                                                      *)

\* Flags, catalog, selection and definitions (see Catalog): an error ends the
\* process, which holds nothing yet; or else signals are caught from here on.
Configure ==
    /\ main = "configure"
    /\ \/ main' = "connect" /\ defers' = <<"stop">>
       \/ main' = "exited" /\ UNCHANGED defers
    /\ UNCHANGED <<smi, conn, handle, serverVars, loop, ctx, readerVars>>

\* No kubelet path is given, k8slabeler.New connects and its Close is deferred,
\* or it fails and main returns: before the connection is made, or after it
\* when GPU discovery fails.  Then rocm-smi is run.
ConnectKubelet ==
    /\ main = "connect"
    /\ \/ main' = "uuids" /\ smi' = "running" /\ UNCHANGED <<conn, defers>>
       \/ /\ main'   = "uuids"
          /\ smi'    = "running"
          /\ conn'   = "open"
          /\ defers' = <<"lb.Close">> \o defers
       \/ /\ main' = "unwind"
          /\ conn' \in {"none", "leaked"}
          /\ UNCHANGED <<smi, defers>>
    /\ UNCHANGED <<handle, serverVars, loop, ctx, readerVars>>

\* rocm-smi run without the context.
LoadUUIDsUnbound ==
    /\ main = "uuids"
    /\ smi = "answered"
    /\ main' = "openrdc"
    /\ smi'  = "off"
    /\ UNCHANGED <<defers, conn, handle, serverVars, loop, ctx, readerVars>>

\* hostgpu.LoadUUIDs returns when rocm-smi has ended, or is killed because the
\* context is; an error is only a warning.
LoadUUIDs ==
    /\ main = "uuids"
    /\ smi = "answered" \/ ctx = "cancelled"
    /\ main' = "openrdc"
    /\ smi'  = "off"
    /\ UNCHANGED <<defers, conn, handle, serverVars, loop, ctx, readerVars>>

\* rdcsource.New: a failure after the embedded session was started abandons it.
OpenRDC ==
    /\ main = "openrdc"
    /\ \/ /\ main'   = "register"
          /\ handle' = "open"
          /\ defers' = <<"reader.Close">> \o defers
       \/ main' = "unwind" /\ handle' \in {"none", "abandoned"} /\ UNCHANGED defers
    /\ UNCHANGED <<smi, conn, serverVars, loop, ctx, readerVars>>

\* prommetric.New: a rejected metric ends main, whose cleanups run.
RegisterMetrics ==
    /\ main = "register"
    /\ main' \in {"spawn", "unwind"}
    /\ UNCHANGED <<smi, defers, conn, handle, serverVars, loop, ctx, readerVars>>

\* The two goroutines are started.
Spawn ==
    /\ main = "spawn"
    /\ main'   = "wait"
    /\ loop'   = "top"
    /\ server' = "starting"
    /\ UNCHANGED <<smi, defers, conn, handle, closing, grace, active, ctx, readerVars>>

\* The server is left to the process exit.
ShutdownOmitted ==
    /\ main = "wait"
    /\ ctx = "cancelled"
    /\ main'   = "drain"
    /\ defers' = <<"cancel">> \o defers
    /\ UNCHANGED <<smi, conn, handle, serverVars, loop, ctx, readerVars>>

\* <-ctx.Done(); server.Shutdown closes the listeners.
Shutdown ==
    /\ main = "wait"
    /\ ctx = "cancelled"
    /\ main'    = "drain"
    /\ defers'  = <<"cancel">> \o defers
    /\ closing' = TRUE
    /\ server'  = IF server = "serving" THEN "closed" ELSE server
    /\ UNCHANGED <<smi, conn, handle, grace, active, loop, ctx, readerVars>>

\* main waits for the requests being served and for the collection goroutine.
DrainAndJoin ==
    /\ main = "drain"
    /\ active = {} /\ loop = "ended"
    /\ main' = "unwind"
    /\ UNCHANGED <<smi, defers, conn, handle, serverVars, loop, ctx, readerVars>>

\* Shutdown returns when no request is being served, or when its context is
\* done: that context is derived from ctx, and ctx is cancelled.
Drain ==
    /\ main = "drain"
    /\ active = {} \/ grace \/ ctx = "cancelled"
    /\ main' = "unwind"
    /\ UNCHANGED <<smi, defers, conn, handle, serverVars, loop, ctx, readerVars>>

\* lb.Close is deferred but does nothing.
RunDeferredForgets ==
    /\ main = "unwind" /\ defers # <<>>
    /\ defers' = Tail(defers)
    /\ IF Head(defers) = "reader.Close"
       THEN handle' \in {"stopped", "unstopped"} ELSE UNCHANGED handle
    /\ UNCHANGED <<smi, main, conn, serverVars, loop, ctx, readerVars>>

\* Deferred calls run in the order they were deferred.
RunDeferredInOrder ==
    /\ main = "unwind" /\ defers # <<>>
    /\ LET oldest == defers[Len(defers)] IN
       /\ defers' = SubSeq(defers, 1, Len(defers) - 1)
       /\ IF oldest = "reader.Close"
          THEN handle' \in {"stopped", "unstopped"} ELSE UNCHANGED handle
       /\ conn' = IF oldest = "lb.Close" THEN "closed" ELSE conn
    /\ UNCHANGED <<smi, main, serverVars, loop, ctx, readerVars>>

\* Deferred calls run last in, first out; reader.Close and lb.Close ignore
\* their errors.
RunDeferred ==
    /\ main = "unwind" /\ defers # <<>>
    /\ defers' = Tail(defers)
    /\ IF Head(defers) = "reader.Close"
       THEN handle' \in {"stopped", "unstopped"} ELSE UNCHANGED handle
    /\ conn' = IF Head(defers) = "lb.Close" THEN "closed" ELSE conn
    /\ UNCHANGED <<smi, main, serverVars, loop, ctx, readerVars>>

\* main returns: the process and every goroutine in it are gone.
Exit ==
    /\ main = "unwind" /\ defers = <<>>
    /\ main'   = "exited"
    /\ active' = {}
    /\ UNCHANGED <<smi, defers, conn, handle, server, closing, grace, loop, ctx, readerVars>>

MainStep ==
    \/ Configure
    \/ ConnectKubelet
    \/ LoadUUIDs
    \/ OpenRDC
    \/ RegisterMetrics
    \/ Spawn
    \/ Shutdown
    \/ Drain
    \/ RunDeferred
    \/ Exit

-----------------------------------------------------------------------------
(* The collection goroutine                                                *)

\* select { case <-ctx.Done(): return; default: }
LoopTop ==
    /\ Running /\ loop = "top"
    /\ loop' = IF ctx = "cancelled" THEN "ended" ELSE "refresh"
    /\ UNCHANGED <<mainVars, serverVars, ctx, readerVars>>

\* Refresh succeeds, or Collect ends here with an error.
LoopRefresh ==
    /\ Running /\ loop = "refresh"
    /\ loop' \in {"read", "sleep"}
    /\ (loop' = "read") => (ctx = "live" \/ conn = "none")
    /\ UNCHANGED <<mainVars, serverVars, ctx, readerVars>>

LoopRead ==
    /\ Running /\ loop = "read"
    /\ Reader!ReadSamples
    /\ loop' = IF caller' = "refused" THEN "sleep" ELSE "reading"
    /\ UNCHANGED <<mainVars, serverVars>>

LoopJoinDrain ==
    /\ Running /\ loop = "reading"
    /\ Reader!Join \/ Reader!Drain
    /\ UNCHANGED <<mainVars, serverVars, loop>>

\* Publish touches the gauges only; then, or without samples, Collect returns.
LoopPublish ==
    /\ Running /\ loop = "reading" /\ caller = "returned"
    /\ loop' = "sleep"
    /\ UNCHANGED <<mainVars, serverVars, ctx, readerVars>>

\* time.Sleep(scrapeInterval) is over.
LoopWake ==
    /\ Running /\ loop = "sleep"
    /\ loop' = "top"
    /\ UNCHANGED <<mainVars, serverVars, ctx, readerVars>>

LoopStep ==
    \/ LoopTop
    \/ LoopRefresh
    \/ LoopRead
    \/ LoopJoinDrain
    \/ LoopPublish
    \/ LoopWake

\* One goroutine of the fan-out, RDC calls included.
ReaderStep(g) ==
    /\ Running
    /\ Reader!WorkerStep(g)
    /\ UNCHANGED <<mainVars, serverVars, loop>>

-----------------------------------------------------------------------------
(* The HTTP server                                                         *)

\* ListenAndServe: a server shut down before it listens gives up, and so does
\* one that cannot bind its address, which is only logged.
Listen ==
    /\ Running /\ server = "starting"
    /\ IF closing THEN server' = "closed" ELSE server' \in {"bound", "failed"}
    /\ UNCHANGED <<mainVars, closing, grace, active, loop, ctx, readerVars>>

\* Serve registers the listener, unless the server was shut down meanwhile.
Serve ==
    /\ Running /\ server = "bound"
    /\ server' = IF closing THEN "closed" ELSE "serving"
    /\ UNCHANGED <<mainVars, closing, grace, active, loop, ctx, readerVars>>

RequestStart(r) ==
    /\ Running /\ server = "serving"
    /\ r \notin active
    /\ active' = active \cup {r}
    /\ UNCHANGED <<mainVars, server, closing, grace, loop, ctx, readerVars>>

RequestEnd(r) ==
    /\ Running /\ r \in active
    /\ active' = active \ {r}
    /\ UNCHANGED <<mainVars, server, closing, grace, loop, ctx, readerVars>>

GraceElapses ==
    /\ Running /\ closing /\ ~grace
    /\ grace' = TRUE
    /\ UNCHANGED <<mainVars, server, closing, active, loop, ctx, readerVars>>

ServerStep == Listen \/ Serve

-----------------------------------------------------------------------------
\* rocm-smi ends, if it ever does.
SmiAnswers ==
    /\ smi = "running"
    /\ smi' = "answered"
    /\ UNCHANGED <<main, defers, conn, handle, serverVars, loop, ctx, readerVars>>

\* A signal before NotifyContext ends the process at once.
SignalKills ==
    /\ main = "configure"
    /\ main' = "exited"
    /\ UNCHANGED <<smi, defers, conn, handle, serverVars, loop, ctx, readerVars>>

\* SIGINT or SIGTERM.
Signal ==
    /\ Running /\ main # "configure"
    /\ Reader!Cancel
    /\ UNCHANGED <<mainVars, serverVars, loop>>

Exited == main = "exited" /\ UNCHANGED vars

Next ==
    \/ MainStep
    \/ LoopStep
    \/ \E g \in GPUs : ReaderStep(g)
    \/ ServerStep
    \/ \E r \in Requests : RequestStart(r) \/ RequestEnd(r)
    \/ GraceElapses
    \/ SmiAnswers
    \/ SignalKills
    \/ Signal
    \/ Exited

Spec == Init /\ [][Next]_vars

\* Only the main goroutine is known to make progress: reads, requests and the
\* kubelet may hang.
MainSpec == Spec /\ WF_vars(MainStep)

-----------------------------------------------------------------------------
(* Properties                                                              *)

MainStates == {"configure", "connect", "uuids", "openrdc", "register", "spawn",
               "wait", "drain", "unwind", "exited"}
Deferred == {"stop", "lb.Close", "reader.Close", "cancel"}

\* Every variable stays in its type.
TypeOK ==
    /\ main \in MainStates
    /\ smi \in {"off", "running", "answered"}
    /\ defers \in Seq(Deferred)
    /\ conn \in {"none", "open", "leaked", "closed"}
    /\ handle \in {"none", "open", "abandoned", "stopped", "unstopped"}
    /\ server \in {"off", "starting", "bound", "serving", "failed", "closed"}
    /\ closing \in BOOLEAN
    /\ grace \in BOOLEAN
    /\ active \subseteq Requests
    /\ loop \in {"off", "top", "refresh", "read", "reading", "sleep", "ended"}
    /\ Reader!TypeOK

Pending(d) == \E i \in DOMAIN defers : defers[i] = d

\* On every path through start-up and shutdown each resource main holds has
\* exactly one cleanup still to run, and none is left when the process exits.
EveryResourceHasItsCleanup ==
    /\ handle = "open" <=> Pending("reader.Close")
    /\ conn = "open" <=> Pending("lb.Close")
    /\ \A i, j \in DOMAIN defers : defers[i] = defers[j] => i = j
    /\ main = "exited" => handle # "open" /\ conn # "open"

\* The RDC session is always released before the kubelet connection that was
\* opened before it.
ReleasedInReverse == handle = "open" => conn # "closed"

\* No request is accepted once the cleanup has begun to release the RDC
\* session, not even by a server that was still starting when the signal came.
NoRequestAfterRelease ==
    [][active' \subseteq active \/ handle = "open"]_vars

\* A signal ends the process even if rocm-smi, an RDC read, the kubelet or a
\* request never answers: main waits for none of them beyond the signal.
SignalEndsProcess == ctx = "cancelled" ~> main = "exited"

\* handler.go:255-256: "After Stop the Handler must not be used again."  The
\* collection goroutine is not joined before reader.Close stops it.
NoReadAfterStop ==
    handle = "stopped" => \A g \in GPUs : worker[g] # "call"

\* main.go:195-197 and 201: the server is asked to shut down "before the
\* deferred RDC/labeler cleanup releases external resources", with a timeout of
\* five seconds.  The timeout is derived from the cancelled context, so the
\* cleanup does not wait for a request being served.
CleanupAfterRequests == main = "unwind" /\ active # {} => grace
=============================================================================
