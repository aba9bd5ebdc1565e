--------------------------- MODULE ServerProcess ---------------------------
(* The life of one server process: Boot and Run (internal/server/boot.go,    *)
(* server.go) with the goroutines of the two listeners, the requests that    *)
(* audited routes serve on the connections of one pool, the goroutine that   *)
(* writes each request's audit row afterwards (middleware/audit.go), and     *)
(* the shutdown that a signal or a broken listener starts.                   *)
(*                                                                            *)
(* What a request does to the database is one statement here; the other       *)
(* modules have the details.                                                  *)
EXTENDS Naturals, Sequences, FiniteSets

CONSTANTS
    Requests,   \* each made once
    PoolSize,   \* connections to the database
    MaxFaults   \* bound: broken listeners, panics, failed statements, lost clients, crashes

ASSUME ProcessAssumption == PoolSize \in Nat \ {0} /\ MaxFaults \in Nat

VARIABLES
    main,       \* the main goroutine
    exit,       \* what Run returns: "", "pending", "ok", "error"; or "crash"
    cancelled,  \* SIGINT or SIGTERM came
    httpGo,     \* the goroutine around httpServer.ListenAndServe
    sshGo,      \* that of ssh.ListenAndServe in sshsrv.Run; then what its channel holds
    sshRun,     \* the goroutine around sshsrv.Run
    errCh,      \* channel of Server.Run, capacity 2
    down,       \* the servers on which Shutdown was called
    late,       \* the ten-second deadlines that passed: "main", "ssh"
    session,    \* an SSH session is open
    poolClosed, \* pool.Close was called
    req,        \* req[r]: how far the request's handler is
    audit,      \* audit[r]: how far its audit goroutine is
    changed,    \* requests whose change is committed
    gone,       \* requests whose client disconnected
    faults

goroutines == <<main, exit, cancelled, httpGo, sshGo, sshRun, errCh, down, late, session, poolClosed>>
requests == <<req, audit, changed, gone>>
vars == <<goroutines, requests, faults>>

InHandler == {"body", "auth", "authHeld", "work", "workHeld"}
Active == {r \in Requests : req[r] \in InHandler}
Running == main # "exited"

\* Every connection is held by one handler or one audit goroutine.
Held == {r \in Requests : req[r] \in {"authHeld", "workHeld"}}
Inserting == {r \in Requests : audit[r] = "inserting"}
InUse == Cardinality(Held) + Cardinality(Inserting)
Available == ~poolClosed /\ InUse < PoolSize

Fault == faults < MaxFaults /\ faults' = faults + 1

-----------------------------------------------------------------------------
(* Boot and the listeners *)

\* Migrations applied, services wired, both goroutines started.
Serve ==
    /\ main = "boot"
    /\ main' = "select" /\ httpGo' = "serve" /\ sshGo' = "serve" /\ sshRun' = "select"
    /\ UNCHANGED <<exit, cancelled, errCh, down, late, session, poolClosed, requests, faults>>

\* No database, a migration fails, a signal cancels it: the deferred Close runs.
BootFails ==
    /\ main = "boot" /\ (Fault \/ (cancelled /\ UNCHANGED faults))
    /\ main' = "close" /\ exit' = "error" /\ poolClosed' = TRUE
    /\ UNCHANGED <<cancelled, httpGo, sshGo, sshRun, errCh, down, late, session, requests>>

Signal ==
    /\ Running /\ ~cancelled /\ cancelled' = TRUE
    /\ UNCHANGED <<main, exit, httpGo, sshGo, sshRun, errCh, down, late, session, poolClosed,
                   requests, faults>>

\* ListenAndServe returns ErrServerClosed, or the error that broke it; errCh
\* has room for both goroutines' results.
HttpReturns ==
    /\ Running /\ httpGo = "serve" /\ httpGo' = "done"
    /\ \/ "http" \in down /\ errCh' = Append(errCh, "ok") /\ UNCHANGED faults
       \/ "http" \notin down /\ errCh' = Append(errCh, "error") /\ Fault
    /\ UNCHANGED <<main, exit, cancelled, sshGo, sshRun, down, late, session, poolClosed, requests>>

\* As with HTTP.
SshReturns ==
    /\ Running /\ sshGo = "serve"
    /\ \/ "ssh" \in down /\ sshGo' = "ok" /\ UNCHANGED faults
       \/ "ssh" \notin down /\ sshGo' = "error" /\ Fault
    /\ UNCHANGED <<main, exit, cancelled, httpGo, sshRun, errCh, down, late, session, poolClosed, requests>>

\* sshsrv.Run: on cancellation it shuts the listener down by itself.
SshRunSelects ==
    /\ Running /\ sshRun = "select"
    /\ \/ /\ cancelled /\ sshRun' = "shutdown" /\ down' = down \cup {"ssh"}
          /\ UNCHANGED <<sshGo, errCh>>
       \/ /\ sshGo \in {"ok", "error"} /\ sshRun' = "done" /\ errCh' = Append(errCh, sshGo)
          /\ sshGo' = "done" /\ UNCHANGED down
    /\ UNCHANGED <<main, exit, cancelled, httpGo, late, session, poolClosed, requests, faults>>

SshRunShutdown ==
    /\ Running /\ sshRun = "shutdown" /\ (~session \/ "ssh" \in late)
    /\ sshRun' = "done" /\ errCh' = Append(errCh, IF session THEN "error" ELSE "ok")
    /\ late' = late \ {"ssh"} \* the deferred cancel stops its timer
    /\ UNCHANGED <<main, exit, cancelled, httpGo, sshGo, down, session, poolClosed, requests, faults>>

-----------------------------------------------------------------------------
(* Server.Run ends *)

Shut(result) == main' = "shutdown" /\ exit' = result /\ down' = {"http", "ssh"}

\* Mutant: a listener that broke is not noticed.
Select_SignalOnly ==
    /\ main = "select" /\ cancelled /\ Shut("pending")
    /\ UNCHANGED <<errCh, cancelled, httpGo, sshGo, sshRun, late, session, poolClosed, requests, faults>>

\* When both are ready, either: then Run returns the listener's result and
\* drops that of shutdown.
Select ==
    /\ main = "select"
    /\ \/ cancelled /\ Shut("pending") /\ UNCHANGED errCh
       \/ errCh # <<>> /\ Shut(Head(errCh)) /\ errCh' = Tail(errCh)
    /\ UNCHANGED <<cancelled, httpGo, sshGo, sshRun, late, session, poolClosed, requests, faults>>

Deadline(who) ==
    /\ \/ who = "main" /\ main = "shutdown"
       \/ who = "ssh" /\ Running /\ sshRun = "shutdown"
    /\ late' = late \cup {who}
    /\ UNCHANGED <<main, exit, cancelled, httpGo, sshGo, sshRun, errCh, down, session, poolClosed,
                   requests, faults>>

\* Mutant: the HTTP server is closed, not shut down.
HttpQuiet_Ignored == TRUE
\* httpServer.Shutdown waits for the requests that are being served,
\* ssh.Shutdown for the sessions, both until the deadline.
HttpQuiet == Active = {}

ShutdownReturns ==
    /\ main = "shutdown"
    /\ (HttpQuiet /\ ~session) \/ "main" \in late
    /\ main' = "close" /\ poolClosed' = TRUE
    /\ exit' = IF exit # "pending" THEN exit ELSE IF HttpQuiet /\ ~session THEN "ok" ELSE "error"
    /\ UNCHANGED <<cancelled, httpGo, sshGo, sshRun, errCh, down, late, session, requests, faults>>

\* The process ends, and every goroutine with it.
Die ==
    /\ main' = "exited"
    /\ req' = [r \in Requests |-> IF req[r] \in InHandler THEN "dropped" ELSE req[r]]
    /\ audit' = [r \in Requests |-> IF audit[r] \in {"pending", "inserting"} THEN "lost" ELSE audit[r]]
    /\ UNCHANGED <<cancelled, httpGo, sshGo, sshRun, errCh, down, late, session, poolClosed, changed, gone>>

\* Mutant: the process ends without closing the pool.
ClosePool_NoWait == main = "close" /\ Die /\ UNCHANGED <<exit, faults>>
\* pool.Close returns when every connection was given back.
ClosePool == main = "close" /\ InUse = 0 /\ Die /\ UNCHANGED <<exit, faults>>

Crash == Running /\ Fault /\ Die /\ exit' = "crash"

-----------------------------------------------------------------------------
(* SSH sessions *)

OpenSession ==
    /\ Running /\ sshGo = "serve" /\ "ssh" \notin down /\ ~session
    /\ session' = TRUE
    /\ UNCHANGED <<main, exit, cancelled, httpGo, sshGo, sshRun, errCh, down, late, poolClosed,
                   requests, faults>>

EndSession ==
    /\ Running /\ session /\ session' = FALSE
    /\ UNCHANGED <<main, exit, cancelled, httpGo, sshGo, sshRun, errCh, down, late, poolClosed,
                   requests, faults>>

-----------------------------------------------------------------------------
(* Requests of audited routes *)

Goes(r, place) == req' = [req EXCEPT ![r] = place]

Accept(r) ==
    /\ httpGo = "serve" /\ "http" \notin down /\ Running
    /\ req[r] = "none" /\ Goes(r, "body")
    /\ UNCHANGED <<goroutines, audit, changed, gone, faults>>

\* RequireAuth buffers the whole body before anything else, for as long as the
\* client takes: only the headers have a time limit. Unsigned requests end here.
BodyArrives(r) ==
    /\ Running /\ req[r] = "body"
    /\ Goes(r, "auth") \/ Goes(r, "refused")
    /\ UNCHANGED <<goroutines, audit, changed, gone, faults>>

\* The connection broke: reading the body is an error.
BodyFails(r) ==
    /\ Running /\ req[r] = "body" /\ r \in gone /\ Goes(r, "refused")
    /\ UNCHANGED <<goroutines, audit, changed, gone, faults>>

\* A connection for the key's lookup in RequireAuth, later one for the handler.
Acquire(r) ==
    /\ Running /\ Available
    /\ \/ req[r] = "auth" /\ Goes(r, "authHeld")
       \/ req[r] = "work" /\ Goes(r, "workHeld")
    /\ UNCHANGED <<goroutines, audit, changed, gone, faults>>

\* The handler returned, whatever it answered: Record starts the goroutine.
Answered(r) == Goes(r, "answered") /\ audit' = [audit EXCEPT ![r] = "pending"]

\* The pool is closed, or the request's context done. An error in RequireAuth
\* is answered before Record is reached.
AcquireFails(r) ==
    /\ Running /\ (poolClosed \/ r \in gone)
    /\ \/ req[r] = "auth" /\ Goes(r, "refused") /\ UNCHANGED audit
       \/ req[r] = "work" /\ Answered(r)
    /\ UNCHANGED <<goroutines, changed, gone, faults>>

Authenticate(r) ==
    /\ Running /\ req[r] = "authHeld"
    /\ Goes(r, "work") \/ Goes(r, "refused")
    /\ UNCHANGED <<goroutines, audit, changed, gone, faults>>

\* Mutant: the transaction takes a second connection for one of its queries.
Work_Nested(r) ==
    /\ Running /\ req[r] = "workHeld" /\ Available
    /\ Answered(r)
    /\ changed' \in {changed, changed \cup {r}}
    /\ UNCHANGED <<goroutines, gone, faults>>

\* The transaction commits, or fails; its queries use its own connection.
Work(r) ==
    /\ Running /\ req[r] = "workHeld"
    /\ Answered(r)
    /\ changed' \in {changed, changed \cup {r}}
    /\ UNCHANGED <<goroutines, gone, faults>>

\* Recover answers 500, above Record: there is no audit row, changed or not.
Panic(r) ==
    /\ Running /\ req[r] \in {"work", "workHeld"} /\ Fault
    /\ Goes(r, "panicked")
    /\ changed' \in {changed, changed \cup {r}}
    /\ UNCHANGED <<goroutines, audit, gone>>

Disconnect(r) ==
    /\ Running /\ req[r] \in InHandler \cup {"answered"} /\ r \notin gone /\ Fault
    /\ gone' = gone \cup {r}
    /\ UNCHANGED <<goroutines, req, audit, changed>>

Audits(r, place) ==
    /\ audit' = [audit EXCEPT ![r] = place]
    /\ UNCHANGED <<goroutines, req, changed, gone>>

\* Mutant: the row is inserted under the request's context, which ends with it.
AuditStarts_RequestContext(r) ==
    /\ Running /\ audit[r] = "pending"
    /\ \/ Available /\ r \notin gone /\ Audits(r, "inserting")
       \/ (poolClosed \/ r \in gone) /\ Audits(r, "lost")
    /\ UNCHANGED faults

\* Audit.Record with a context of its own. A closed pool is an error in the log.
AuditStarts(r) ==
    /\ Running /\ audit[r] = "pending"
    /\ \/ Available /\ Audits(r, "inserting")
       \/ poolClosed /\ Audits(r, "lost")
    /\ UNCHANGED faults

AuditEnds(r) ==
    /\ Running /\ audit[r] = "inserting"
    /\ \/ Audits(r, "written") /\ UNCHANGED faults
       \/ Audits(r, "refused") /\ Fault

-----------------------------------------------------------------------------

Init ==
    /\ main = "boot" /\ exit = "" /\ cancelled = FALSE
    /\ httpGo = "off" /\ sshGo = "off" /\ sshRun = "off"
    /\ errCh = <<>> /\ down = {} /\ late = {}
    /\ session = FALSE /\ poolClosed = FALSE
    /\ req = [r \in Requests |-> "none"] /\ audit = [r \in Requests |-> "none"]
    /\ changed = {} /\ gone = {} /\ faults = 0

Goroutines ==
    \/ HttpReturns \/ SshReturns \/ SshRunSelects \/ SshRunShutdown
Main == Serve \/ Select \/ ShutdownReturns \/ ClosePool
Handle(r) == BodyFails(r) \/ Acquire(r) \/ AcquireFails(r) \/ Authenticate(r) \/ Work(r)
Record(r) == AuditStarts(r) \/ AuditEnds(r)

Next ==
    \/ Main \/ Goroutines \/ BootFails \/ Signal \/ Crash
    \/ \E who \in {"main", "ssh"} : Deadline(who)
    \/ OpenSession \/ EndSession
    \/ \E r \in Requests : Accept(r) \/ BodyArrives(r) \/ Handle(r) \/ Panic(r) \/ Disconnect(r) \/ Record(r)

Spec == Init /\ [][Next]_vars

\* Goroutines run and timers fire, each once; statements end; the pool serves
\* who waits for a connection in order (strong fairness). Sessions need not
\* end, and a client may keep the server waiting for its body.
FairSpec ==
    /\ Spec
    /\ WF_vars(Main) /\ WF_vars(Goroutines)
    /\ WF_vars(\E who \in {"main", "ssh"} : Deadline(who))
    /\ \A r \in Requests : SF_vars(Handle(r) \/ Record(r))

-----------------------------------------------------------------------------
(* Properties *)

\* Every variable keeps its type, and the pool its size.
TypeOK ==
    /\ main \in {"boot", "select", "shutdown", "close", "exited"}
    /\ exit \in {"", "pending", "ok", "error", "crash"}
    /\ httpGo \in {"off", "serve", "done"} /\ sshGo \in {"off", "serve", "ok", "error", "done"}
    /\ sshRun \in {"off", "select", "shutdown", "done"}
    /\ {cancelled, session, poolClosed} \subseteq BOOLEAN
    /\ Len(errCh) <= 2
    /\ down \subseteq {"http", "ssh"} /\ late \subseteq {"main", "ssh"}
    /\ req \in [Requests -> InHandler \cup {"none", "answered", "refused", "panicked", "dropped"}]
    /\ audit \in [Requests -> {"none", "pending", "inserting", "written", "refused", "lost"}]
    /\ changed \cup gone \subseteq Requests /\ faults \in 0 .. MaxFaults
    /\ InUse <= PoolSize

\* A shutdown that beats its deadline answers every request it had accepted,
\* and closes the pool under none of them (server.go:91-111, boot.go:34).
GracefulShutdownAnswers ==
    "main" \notin late /\ exit # "crash" =>
        /\ poolClosed => Active = {}
        /\ \A r \in Requests : req[r] # "dropped"

\* A signal or a broken listener ends the process, whatever sessions,
\* requests and the other listener do (server.go:81-88, sshsrv/server.go:87).
ProcessEnds == (cancelled \/ errCh # <<>> \/ sshGo = "error") ~> main = "exited"

\* No handler waits for ever once it has its body or the client is gone, for a
\* connection least of all: none waits for one while it holds another
\* (pg.go:47-59). The body itself has no time limit (server.go:32, auth.go:110).
RequestsEnd ==
    \A r \in Requests :
        (req[r] \in InHandler /\ (req[r] = "body" => r \in gone)) ~> req[r] \notin InHandler

\* A change that was answered gets its audit row, or the database's error,
\* unless the process stops first: the client's disconnecting, before the
\* answer or after, makes no difference (audit.go:41-46).
AnsweredChangesAreAudited ==
    \A r \in Requests :
        (r \in changed /\ req[r] = "answered")
          ~> (audit[r] \in {"written", "refused"} \/ main \in {"close", "exited"})

\* A committed change has its audit goroutine unless the handler panicked, and
\* a row goes missing only in a crash, or when its goroutine still waits for a
\* connection while the pool is closed: an insert that has begun ends before
\* the process does (audit.go:41-46, boot.go:34).
AuditRowsAreKept ==
    /\ [](\A r \in changed : audit[r] # "none" \/ req[r] = "panicked")
    /\ [][\A r \in Requests :
             audit[r] # "lost" /\ audit'[r] = "lost" =>
               exit' = "crash" \/ (audit[r] = "pending" /\ main = "close")]_vars
=============================================================================
