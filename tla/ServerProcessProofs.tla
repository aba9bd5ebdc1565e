------------------------- MODULE ServerProcessProofs -------------------------
(***************************************************************************)
(* Proof, for any number of requests and any pool: a shutdown that beats   *)
(* its deadline answers every request that was accepted and closes the     *)
(* pool under none of them; the pool is never overdrawn, and no listener   *)
(* is left blocked on the channel of its result; a change that was made    *)
(* has its audit goroutine, unless its handler panicked.                   *)
(***************************************************************************)
EXTENDS ServerProcess, FiniteSetTheorems, TLAPS

Typed ==
    /\ req \in [Requests -> InHandler \cup {"none", "answered", "refused", "panicked", "dropped"}]
    /\ errCh \in Seq({"ok", "error"})

\* Nothing is accepted before the listeners start or once Shutdown was called.
Closed ==
    /\ main = "boot" => httpGo = "off" /\ \A r \in Requests : req[r] = "none"
    /\ main \in {"shutdown", "close"} => "http" \in down \/ httpGo # "serve"

\* The pool is open until the requests are answered, or the deadline passed.
Quiet ==
    /\ poolClosed => main \in {"close", "exited"}
    /\ exit = "crash" => main = "exited"
    /\ "main" \notin late /\ exit # "crash" =>
          /\ main \in {"close", "exited"} => Active = {}
          /\ \A r \in Requests : req[r] # "dropped"

IndInv == Typed /\ Closed /\ Quiet

LEMMA InitInv == Init => IndInv
<1> SUFFICES ASSUME Init PROVE IndInv
  OBVIOUS
<1>1. Typed
  <2>1. req = [r \in Requests |-> "none"] /\ errCh = <<>>
    BY DEF Init
  <2>2. <<>> \in Seq({"ok", "error"})
    OBVIOUS
  <2>3. QED
    BY <2>1, <2>2 DEF Typed
<1>2. Closed /\ Quiet
  BY DEF Init, Closed, Quiet
<1>3. QED
  BY <1>1, <1>2 DEF IndInv

\* The goroutines and the sessions leave the requests alone.
LEMMA ListenersInv ==
    ASSUME IndInv, Goroutines \/ OpenSession \/ EndSession \/ Signal
    PROVE  IndInv'
<1>1. /\ UNCHANGED <<main, exit, poolClosed, req>>
      /\ "main" \in late' <=> "main" \in late
      /\ "http" \in down => "http" \in down'
      /\ httpGo' = httpGo \/ (httpGo = "serve" /\ httpGo' = "done")
  BY DEF Goroutines, HttpReturns, SshReturns, SshRunSelects, SshRunShutdown, OpenSession,
         EndSession, Signal, requests
<1>2. Typed'
  <2>1. errCh' \in Seq({"ok", "error"})
    BY DEF Goroutines, HttpReturns, SshReturns, SshRunSelects, SshRunShutdown, OpenSession,
           EndSession, Signal, IndInv, Typed
  <2>2. QED
    BY <1>1, <2>1 DEF IndInv, Typed
<1>3. Closed'
  BY <1>1 DEF IndInv, Closed
<1>4. Quiet'
  BY <1>1 DEF IndInv, Quiet, Active
<1>5. QED
  BY <1>2, <1>3, <1>4 DEF IndInv

\* Boot and the end of Run.
LEMMA MainInv ==
    ASSUME IndInv, \/ Serve \/ Select \/ ShutdownReturns \/ BootFails
                   \/ \E who \in {"main", "ssh"} : Deadline(who)
    PROVE  IndInv'
<1>1. UNCHANGED req
  BY DEF Serve, Select, Shut, ShutdownReturns, BootFails, Deadline, requests
<1>2. Typed'
  <2>1. errCh' \in Seq({"ok", "error"})
    <3>1. errCh # <<>> => Tail(errCh) \in Seq({"ok", "error"})
      BY DEF IndInv, Typed
    <3>2. errCh' = errCh \/ (errCh # <<>> /\ errCh' = Tail(errCh))
      BY DEF Serve, Select, Shut, ShutdownReturns, BootFails, Deadline
    <3>3. QED
      BY <3>1, <3>2 DEF IndInv, Typed
  <2>2. QED
    BY <1>1, <2>1 DEF IndInv, Typed
<1>3. CASE Serve
  <2>1. main = "boot" /\ main' = "select" /\ UNCHANGED <<exit, late, poolClosed>>
    BY <1>3 DEF Serve
  <2>2. QED
    BY <1>1, <1>2, <2>1 DEF IndInv, Closed, Quiet, Active
<1>4. CASE Select
  <2>1. /\ main = "select" /\ main' = "shutdown" /\ "http" \in down'
        /\ UNCHANGED <<late, poolClosed>>
    BY <1>4 DEF Select, Shut
  <2>2. exit' # "crash"
    <3>1. errCh # <<>> => Head(errCh) \in {"ok", "error"}
      BY DEF IndInv, Typed
    <3>2. exit' = "pending" \/ (errCh # <<>> /\ exit' = Head(errCh))
      BY <1>4 DEF Select, Shut
    <3>3. QED
      BY <3>1, <3>2
  <2>3. exit # "crash"
    BY <2>1 DEF IndInv, Quiet
  <2>4. QED
    BY <1>1, <1>2, <2>1, <2>2, <2>3 DEF IndInv, Closed, Quiet, Active
<1>5. CASE ShutdownReturns
  <2>1. /\ main = "shutdown" /\ main' = "close" /\ UNCHANGED <<late, down, httpGo>>
        /\ Active = {} \/ "main" \in late
    BY <1>5 DEF ShutdownReturns, HttpQuiet
  <2>2. exit # "crash" /\ exit' # "crash"
    BY <1>5, <2>1 DEF ShutdownReturns, IndInv, Quiet
  <2>3. QED
    BY <1>1, <1>2, <2>1, <2>2 DEF IndInv, Closed, Quiet, Active
<1>6. CASE BootFails
  <2>1. /\ main = "boot" /\ main' = "close" /\ exit' = "error" /\ UNCHANGED <<late, down, httpGo>>
    BY <1>6 DEF BootFails
  <2>2. \A r \in Requests : req[r] = "none"
    BY <2>1 DEF IndInv, Closed
  <2>3. Active' = {}
    BY <1>1, <2>2 DEF Active, InHandler
  <2>4. QED
    BY <1>1, <1>2, <2>1, <2>2, <2>3 DEF IndInv, Closed, Quiet
<1>7. ASSUME NEW who \in {"main", "ssh"}, Deadline(who) PROVE IndInv'
  <2>1. /\ UNCHANGED <<main, exit, down, httpGo, poolClosed>>
        /\ "main" \in late => "main" \in late'
    BY <1>7 DEF Deadline
  <2>2. QED
    BY <1>1, <1>2, <2>1 DEF IndInv, Closed, Quiet, Active
<1>8. QED
  BY <1>3, <1>4, <1>5, <1>6, <1>7

\* The process ends: requests are dropped when some are still being served.
LEMMA DieInv ==
    ASSUME IndInv, ClosePool \/ Crash
    PROVE  IndInv'
<1>1. /\ main' = "exited" /\ UNCHANGED <<errCh, down, late, poolClosed>>
      /\ req' = [r \in Requests |-> IF req[r] \in InHandler THEN "dropped" ELSE req[r]]
  BY DEF ClosePool, Crash, Die
<1>2. Typed'
  BY <1>1 DEF IndInv, Typed, InHandler
<1>3. Closed'
  BY <1>1 DEF Closed
<1>4. Quiet'
  <2>1. CASE exit' = "crash"
    BY <1>1, <2>1 DEF Quiet
  <2>2. CASE exit' # "crash"
    <3>1. main = "close" /\ UNCHANGED exit
      BY <2>2 DEF ClosePool, Crash
    <3>2. ASSUME "main" \notin late
          PROVE  /\ Active' = {}
                 /\ \A r \in Requests : req'[r] # "dropped"
      <4>1. Active = {} /\ \A r \in Requests : req[r] # "dropped"
        BY <2>2, <3>1, <3>2 DEF IndInv, Quiet
      <4>2. \A r \in Requests : req'[r] = req[r]
        BY <1>1, <4>1 DEF Active
      <4>3. QED
        BY <4>1, <4>2 DEF Active
    <3>3. QED
      BY <1>1, <2>2, <3>2 DEF Quiet
  <2>3. QED
    BY <2>1, <2>2
<1>5. QED
  BY <1>2, <1>3, <1>4 DEF IndInv

\* A request moves on, and enters the handler only while one may.
LEMMA RequestInv ==
    ASSUME IndInv, NEW r \in Requests,
           Accept(r) \/ BodyArrives(r) \/ Handle(r) \/ Panic(r) \/ Disconnect(r) \/ Record(r)
    PROVE  IndInv'
<1>1. UNCHANGED goroutines /\ Running
  BY DEF Accept, BodyArrives, Handle, BodyFails, Acquire, AcquireFails, Authenticate, Work, Panic,
         Disconnect,
         Record, AuditStarts, AuditEnds, Audits
<1>2. \/ UNCHANGED req
      \/ \E place \in InHandler \cup {"answered", "refused", "panicked"} :
           /\ req' = [req EXCEPT ![r] = place]
           /\ req[r] \in InHandler
      \/ /\ req' = [req EXCEPT ![r] = "body"]
         /\ httpGo = "serve" /\ "http" \notin down
  BY DEF Accept, BodyArrives, Handle, BodyFails, Acquire, AcquireFails, Answered, Authenticate,
         Work, Panic,
         Disconnect, Record, AuditStarts, AuditEnds, Audits, Goes, InHandler
<1>3. Typed'
  BY <1>1, <1>2 DEF IndInv, Typed, goroutines, InHandler
<1>4. main # "boot" \/ UNCHANGED req
  BY <1>2 DEF IndInv, Closed, InHandler
<1>5. Closed'
  BY <1>1, <1>4 DEF IndInv, Closed, goroutines
<1>6. \A q \in Requests : req'[q] = "dropped" => req[q] = "dropped"
  BY <1>2 DEF IndInv, Typed, InHandler
<1>7. main = "close" /\ Active = {} => UNCHANGED req
  BY <1>2 DEF IndInv, Closed, Active
<1>8. Quiet'
  BY <1>1, <1>6, <1>7 DEF IndInv, Quiet, Active, goroutines, Running
<1>9. QED
  BY <1>3, <1>5, <1>8 DEF IndInv

LEMMA NextInv == IndInv /\ [Next]_vars => IndInv'
<1> SUFFICES ASSUME IndInv, [Next]_vars PROVE IndInv'
  OBVIOUS
<1>1. CASE UNCHANGED vars
  BY <1>1 DEF vars, goroutines, requests, IndInv, Typed, Closed, Quiet, Active
<1>2. CASE Next
  BY <1>2, ListenersInv, MainInv, DieInv, RequestInv DEF Next, Main
<1>3. QED
  BY <1>1, <1>2

\* Where requests and the pool stand at every step of a shutdown.
THEOREM IndInvHolds == Spec => []IndInv
<1>1. Init => IndInv
  BY InitInv
<1>2. IndInv /\ [Next]_vars => IndInv'
  BY NextInv
<1>3. QED
  BY <1>1, <1>2, PTL DEF Spec

\* A shutdown that beats its deadline answers every request it had accepted,
\* and closes the pool under none of them.
THEOREM ShutdownAnswersAll == Spec => []GracefulShutdownAnswers
<1>1. IndInv => GracefulShutdownAnswers
  BY DEF IndInv, Quiet, GracefulShutdownAnswers
<1>2. QED
  BY <1>1, IndInvHolds, PTL

------------------------------------------------------------------------------
(* The pool and the channel.                                               *)

\* Whose result is still to come has its place in errCh.
HttpToCome == IF httpGo = "done" THEN 0 ELSE 1
SshToCome == IF sshRun = "done" THEN 0 ELSE 1
ChannelRoom ==
    /\ httpGo \in {"off", "serve", "done"} /\ sshRun \in {"off", "select", "shutdown", "done"}
    /\ sshGo \in {"off", "serve", "ok", "error", "done"}
    /\ errCh \in Seq({"ok", "error"})
    /\ Len(errCh) + HttpToCome + SshToCome <= 2
    /\ main = "boot" => httpGo = "off" /\ sshRun = "off"

MainTyped ==
    /\ main \in {"boot", "select", "shutdown", "close", "exited"}
    /\ exit \in {"", "pending", "ok", "error", "crash"}
    /\ cancelled \in BOOLEAN /\ session \in BOOLEAN /\ poolClosed \in BOOLEAN
    /\ down \subseteq {"http", "ssh"} /\ late \subseteq {"main", "ssh"}
    /\ faults \in 0 .. MaxFaults

Audited == {"none", "pending", "inserting", "written", "refused", "lost"}
RequestsTyped ==
    /\ req \in [Requests -> InHandler \cup {"none", "answered", "refused", "panicked", "dropped"}]
    /\ audit \in [Requests -> Audited]
    /\ changed \subseteq Requests /\ gone \subseteq Requests

PoolKept ==
    /\ IsFiniteSet(Held) /\ IsFiniteSet(Inserting)
    /\ InUse <= PoolSize

TypeInv == ChannelRoom /\ MainTyped /\ RequestsTyped /\ PoolKept

LEMMA TypeInit == Init => TypeInv
<1> SUFFICES ASSUME Init PROVE TypeInv
  OBVIOUS
<1>1. ChannelRoom
  <2>1. errCh = <<>> /\ httpGo = "off" /\ sshRun = "off" /\ sshGo = "off"
    BY DEF Init
  <2>2. errCh \in Seq({"ok", "error"}) /\ Len(errCh) = 0
    BY <2>1
  <2>3. HttpToCome = 1 /\ SshToCome = 1
    BY <2>1 DEF HttpToCome, SshToCome
  <2>4. QED
    BY <2>1, <2>2, <2>3 DEF ChannelRoom
<1>2. MainTyped
  <2>0. faults = 0
    BY Zenon DEF Init
  <2>1. faults \in 0 .. MaxFaults
    BY <2>0, ProcessAssumption
  <2>2. QED
    BY <2>1, Zenon DEF Init, MainTyped
<1>3. RequestsTyped
  BY DEF Init, RequestsTyped, Audited
<1>4. PoolKept
  <2>1. Held = {} /\ Inserting = {}
    BY DEF Init, Held, Inserting
  <2>2. QED
    BY <2>1, FS_EmptySet, ProcessAssumption DEF PoolKept, InUse
<1>5. QED
  BY <1>1, <1>2, <1>3, <1>4 DEF TypeInv

\* Each goroutine sends once, and Select takes out.
LEMMA ChannelStep ==
    ASSUME ChannelRoom, [Next]_vars
    PROVE  ChannelRoom'
<1> USE DEF ChannelRoom, HttpToCome, SshToCome
<1>0. /\ \A x \in {"ok", "error"} :
            /\ Append(errCh, x) \in Seq({"ok", "error"})
            /\ Len(Append(errCh, x)) = Len(errCh) + 1
      /\ Len(errCh) \in Nat
      /\ errCh # <<>> => Tail(errCh) \in Seq({"ok", "error"}) /\ Len(Tail(errCh)) <= Len(errCh)
  OBVIOUS
<1>1. CASE UNCHANGED <<errCh, httpGo, sshRun, sshGo>> /\ (main' = "boot" => main = "boot")
  BY <1>1
<1>2. CASE HttpReturns
  <2>1. /\ httpGo = "serve" /\ httpGo' = "done" /\ UNCHANGED <<sshRun, sshGo, main>>
        /\ \E x \in {"ok", "error"} : errCh' = Append(errCh, x)
    BY <1>2 DEF HttpReturns
  <2>2. QED
    BY <1>0, <2>1
<1>3. CASE SshReturns
  BY <1>3 DEF SshReturns
<1>4. CASE SshRunSelects
  <2>1. sshRun = "select" /\ sshGo' \in {sshGo, "done"} /\ UNCHANGED <<httpGo, main>>
    BY <1>4 DEF SshRunSelects
  <2>2. CASE sshRun' = "shutdown" /\ UNCHANGED errCh
    BY <1>0, <2>1, <2>2
  <2>3. ASSUME sshRun' = "done", NEW x \in {"ok", "error"}, errCh' = Append(errCh, x)
        PROVE  ChannelRoom'
    BY <1>0, <2>1, <2>3
  <2>4. QED
    BY <1>4, <2>2, <2>3 DEF SshRunSelects
<1>5. CASE SshRunShutdown
  <2>1. /\ sshRun = "shutdown" /\ sshRun' = "done" /\ UNCHANGED <<httpGo, sshGo, main>>
        /\ \E x \in {"ok", "error"} : errCh' = Append(errCh, x)
    BY <1>5 DEF SshRunShutdown
  <2>2. QED
    BY <1>0, <2>1
<1>6. CASE Serve
  BY <1>0, <1>6 DEF Serve
<1>7. CASE Select
  <2>1. main' = "shutdown" /\ UNCHANGED <<httpGo, sshRun, sshGo>>
    BY <1>7 DEF Select, Shut
  <2>2. UNCHANGED errCh \/ (errCh # <<>> /\ errCh' = Tail(errCh))
    BY <1>7 DEF Select
  <2>3. errCh' \in Seq({"ok", "error"}) /\ Len(errCh') \in Nat /\ Len(errCh') <= Len(errCh)
    BY <1>0, <2>2
  <2>4. /\ HttpToCome \in {0, 1} /\ HttpToCome' = HttpToCome
        /\ SshToCome \in {0, 1} /\ SshToCome' = SshToCome
    BY <2>1
  <2> HIDE DEF HttpToCome, SshToCome
  <2>5. Len(errCh') + HttpToCome' + SshToCome' <= 2
    BY <1>0, <2>3, <2>4
  <2>6. QED
    BY <2>1, <2>3, <2>5
<1>8. \/ UNCHANGED <<errCh, httpGo, sshRun, sshGo>> /\ (main' = "boot" => main = "boot")
      \/ HttpReturns \/ SshReturns \/ SshRunSelects \/ SshRunShutdown \/ Serve \/ Select
  <2>1. CASE UNCHANGED vars
    BY <2>1 DEF vars, goroutines
  <2>2. CASE Main \/ Goroutines \/ BootFails \/ Signal \/ Crash
    BY <2>2 DEF Main, ShutdownReturns, ClosePool, Goroutines, BootFails, Signal, Crash, Die
  <2>3. CASE (\E who \in {"main", "ssh"} : Deadline(who)) \/ OpenSession \/ EndSession
    BY <2>3 DEF Deadline, OpenSession, EndSession
  <2>4. ASSUME NEW r \in Requests,
  Accept(r) \/ BodyArrives(r) \/ Handle(r) \/ Panic(r) \/ Disconnect(r) \/ Record(r)
        PROVE  UNCHANGED goroutines
    BY <2>4 DEF Accept, BodyArrives, Handle, BodyFails, Acquire, AcquireFails, Authenticate, Work,
                Panic, Disconnect,
                Record, AuditStarts, AuditEnds, Audits
  <2>5. QED
    BY <2>1, <2>2, <2>3, <2>4 DEF Next, goroutines
<1>9. QED
  BY <1>1, <1>2, <1>3, <1>4, <1>5, <1>6, <1>7, <1>8

LEMMA MainStep ==
    ASSUME MainTyped, ChannelRoom, [Next]_vars
    PROVE  MainTyped'
<1>1. errCh # <<>> => Head(errCh) \in {"ok", "error"}
  <2>1. errCh \in Seq({"ok", "error"})
    BY DEF ChannelRoom
  <2>2. QED
    BY <2>1
<1>2. faults' \in 0 .. MaxFaults
  <2>1. UNCHANGED faults \/ Fault
    BY DEF Next, vars, Main, Serve, Select, ShutdownReturns, ClosePool, Goroutines, HttpReturns,
           SshReturns, SshRunSelects, SshRunShutdown, BootFails, Signal, Crash, Deadline,
           OpenSession, EndSession, Accept, BodyArrives, Handle, BodyFails, Acquire, AcquireFails,
           Authenticate, Work,
           Panic, Disconnect, Record, AuditStarts, AuditEnds
  <2>2. faults \in 0 .. MaxFaults /\ MaxFaults \in Nat
    BY ProcessAssumption DEF MainTyped
  <2>3. CASE faults < MaxFaults /\ faults' = faults + 1
    BY <2>2, <2>3
  <2>4. QED
    BY <2>1, <2>2, <2>3 DEF Fault
<1> USE DEF MainTyped
<1>3. CASE UNCHANGED goroutines
  BY <1>2, <1>3, Zenon DEF goroutines
<1>4. CASE Main
  <2>1. CASE Serve
    BY <1>2, <2>1, Zenon DEF Serve
  <2>2. CASE Select
    <3>1. /\ main' = "shutdown" /\ exit' \in {"", "pending", "ok", "error", "crash"}
          /\ down' = {"http", "ssh"}
      BY <1>1, <2>2 DEF Select, Shut
    <3>2. UNCHANGED <<cancelled, late, session, poolClosed>>
      BY <2>2 DEF Select
    <3>3. QED
      BY <1>2, <3>1, <3>2, Zenon
  <2>3. CASE ShutdownReturns
    <3>1. main' = "close" /\ exit' \in {"", "pending", "ok", "error", "crash"}
      BY <2>3 DEF ShutdownReturns
    <3>2. poolClosed' = TRUE /\ UNCHANGED <<cancelled, down, late, session>>
      BY <2>3 DEF ShutdownReturns
    <3>3. QED
      BY <1>2, <3>1, <3>2, Zenon
  <2>4. CASE ClosePool
    BY <1>2, <2>4, Zenon DEF ClosePool, Die
  <2>5. QED
    BY <1>4, <2>1, <2>2, <2>3, <2>4 DEF Main
<1>5. CASE Goroutines
  <2>1. UNCHANGED <<main, exit, cancelled, session, poolClosed>> /\ late' \subseteq late
    BY <1>5 DEF Goroutines, HttpReturns, SshReturns, SshRunSelects, SshRunShutdown
  <2>2. down' \subseteq {"http", "ssh"} /\ late' \subseteq {"main", "ssh"}
    BY <1>5, <2>1 DEF Goroutines, HttpReturns, SshReturns, SshRunSelects, SshRunShutdown
  <2>3. QED
    BY <1>2, <2>1, <2>2, Zenon
<1>6. CASE BootFails
  BY <1>2, <1>6, Zenon DEF BootFails
<1>7. CASE Signal
  BY <1>2, <1>7, Zenon DEF Signal
<1>8. CASE Crash
  BY <1>2, <1>8, Zenon DEF Crash, Die
<1>9. ASSUME NEW who \in {"main", "ssh"}, Deadline(who) PROVE MainTyped'
  <2>1. late' \subseteq {"main", "ssh"}
    BY <1>9 DEF Deadline
  <2>2. UNCHANGED <<main, exit, cancelled, down, session, poolClosed>>
    BY <1>9 DEF Deadline
  <2>3. QED
    BY <1>2, <2>1, <2>2, Zenon
<1>10. CASE OpenSession \/ EndSession
  BY <1>2, <1>10, Zenon DEF OpenSession, EndSession
<1>11. ASSUME NEW r \in Requests,
Accept(r) \/ BodyArrives(r) \/ Handle(r) \/ Panic(r) \/ Disconnect(r) \/ Record(r)
       PROVE  UNCHANGED goroutines
  BY <1>11 DEF Accept, BodyArrives, Handle, BodyFails, Acquire, AcquireFails, Authenticate, Work,
               Panic, Disconnect,
               Record, AuditStarts, AuditEnds, Audits
<1>12. UNCHANGED vars => UNCHANGED goroutines
  BY DEF vars
<1>13. QED
  BY <1>3, <1>4, <1>5, <1>6, <1>7, <1>8, <1>9, <1>10, <1>11, <1>12 DEF Next

LEMMA RequestsStep ==
    ASSUME RequestsTyped, [Next]_vars
    PROVE  RequestsTyped'
<1> USE DEF RequestsTyped, Audited, InHandler
<1>1. CASE UNCHANGED requests
  BY <1>1 DEF requests
<1>2. CASE Die
  BY <1>2 DEF Die
<1>3. ASSUME NEW r \in Requests,
Accept(r) \/ BodyArrives(r) \/ Handle(r) \/ Panic(r) \/ Disconnect(r) \/ Record(r)
      PROVE  RequestsTyped'
  <2>1. CASE Accept(r)
    BY <2>1 DEF Accept, Goes
  <2>0. CASE BodyArrives(r) \/ BodyFails(r)
    BY <2>0 DEF BodyArrives, BodyFails, Goes
  <2>2. CASE Acquire(r)
    BY <2>2 DEF Acquire, Goes
  <2>3. CASE AcquireFails(r)
    BY <2>3 DEF AcquireFails, Answered, Goes
  <2>4. CASE Authenticate(r)
    BY <2>4 DEF Authenticate, Goes
  <2>5. CASE Work(r)
    BY <2>5 DEF Work, Answered, Goes
  <2>6. CASE Panic(r)
    BY <2>6 DEF Panic, Goes
  <2>7. CASE Disconnect(r)
    BY <2>7 DEF Disconnect
  <2>8. CASE Record(r)
    BY <2>8 DEF Record, AuditStarts, AuditEnds, Audits
  <2>9. QED
    BY <1>3, <2>0, <2>1, <2>2, <2>3, <2>4, <2>5, <2>6, <2>7, <2>8 DEF Handle
<1>4. Main \/ Goroutines \/ BootFails \/ Signal \/ Crash => UNCHANGED requests \/ Die
  BY DEF Main, Serve, Select, ShutdownReturns, ClosePool, Goroutines, HttpReturns, SshReturns,
         SshRunSelects, SshRunShutdown, BootFails, Signal, Crash
<1>5. (\E who \in {"main", "ssh"} : Deadline(who)) \/ OpenSession \/ EndSession => UNCHANGED requests
  BY DEF Deadline, OpenSession, EndSession
<1>6. QED
  BY <1>1, <1>2, <1>3, <1>4, <1>5 DEF Next, vars

\* A set that grows by at most one element.
LEMMA Grows ==
    ASSUME NEW S, NEW T, NEW x, IsFiniteSet(S)
    PROVE  /\ T \subseteq S => IsFiniteSet(T) /\ Cardinality(T) <= Cardinality(S)
           /\ T \subseteq S \cup {x} => IsFiniteSet(T) /\ Cardinality(T) <= Cardinality(S) + 1
           /\ IsFiniteSet(T) => Cardinality(T) \in Nat
<1>1. Cardinality(S) \in Nat /\ (IsFiniteSet(T) => Cardinality(T) \in Nat)
  BY FS_CardinalityType
<1>2. T \subseteq S => IsFiniteSet(T) /\ Cardinality(T) <= Cardinality(S)
  BY FS_Subset
<1>3. ASSUME T \subseteq S \cup {x}
      PROVE  IsFiniteSet(T) /\ Cardinality(T) <= Cardinality(S) + 1
  <2>0. /\ IsFiniteSet(S \cup {x})
        /\ Cardinality(S \cup {x}) = IF x \in S THEN Cardinality(S) ELSE Cardinality(S) + 1
    BY FS_AddElement, Zenon
  <2>1. IsFiniteSet(S \cup {x}) /\ Cardinality(S \cup {x}) <= Cardinality(S) + 1
    BY <1>1, <2>0
  <2>2. IsFiniteSet(T) /\ Cardinality(T) <= Cardinality(S \cup {x})
    BY <1>3, <2>1, FS_Subset
  <2>3. Cardinality(T) \in Nat /\ Cardinality(S \cup {x}) \in Nat
    BY <2>1, <2>2, FS_CardinalityType
  <2>4. QED
    BY <1>1, <2>1, <2>2, <2>3
<1>4. QED
  BY <1>1, <1>2, <1>3

\* A connection is taken only while one is free, and one at a time.
LEMMA PoolStep ==
    ASSUME RequestsTyped, PoolKept, [Next]_vars
    PROVE  PoolKept'
<1>1. PoolSize \in Nat /\ Cardinality(Held) \in Nat /\ Cardinality(Inserting) \in Nat
  BY ProcessAssumption, FS_CardinalityType DEF PoolKept
<1>2. CASE Held' \subseteq Held /\ Inserting' \subseteq Inserting
  <2>1. /\ IsFiniteSet(Held') /\ Cardinality(Held') <= Cardinality(Held)
        /\ IsFiniteSet(Inserting') /\ Cardinality(Inserting') <= Cardinality(Inserting)
        /\ Cardinality(Held') \in Nat /\ Cardinality(Inserting') \in Nat
    BY <1>2, Grows DEF PoolKept
  <2>2. QED
    BY <1>1, <2>1 DEF PoolKept, InUse
<1>3. ASSUME NEW r \in Requests, InUse < PoolSize,
             \/ Held' \subseteq Held \cup {r} /\ Inserting' \subseteq Inserting
             \/ Held' \subseteq Held /\ Inserting' \subseteq Inserting \cup {r}
      PROVE  PoolKept'
  <2>1. /\ IsFiniteSet(Held') /\ IsFiniteSet(Inserting')
        /\ Cardinality(Held') \in Nat /\ Cardinality(Inserting') \in Nat
        /\ \/ Cardinality(Held') <= Cardinality(Held) + 1
              /\ Cardinality(Inserting') <= Cardinality(Inserting)
           \/ Cardinality(Held') <= Cardinality(Held)
              /\ Cardinality(Inserting') <= Cardinality(Inserting) + 1
    BY <1>3, Grows DEF PoolKept
  <2>2. QED
    BY <1>1, <1>3, <2>1 DEF PoolKept, InUse
<1>4. ASSUME UNCHANGED requests \/ Die
      PROVE  Held' \subseteq Held /\ Inserting' \subseteq Inserting
  BY <1>4 DEF RequestsTyped, requests, Die, Held, Inserting, InHandler
<1>5. ASSUME NEW r \in Requests,
Accept(r) \/ BodyArrives(r) \/ Handle(r) \/ Panic(r) \/ Disconnect(r) \/ Record(r)
      PROVE  PoolKept'
  <2>1. CASE Acquire(r)
    <3>1. InUse < PoolSize /\ UNCHANGED audit
      BY <2>1 DEF Acquire, Available
    <3>2. Held' \subseteq Held \cup {r} /\ Inserting' \subseteq Inserting
      BY <2>1, <3>1 DEF Acquire, Goes, RequestsTyped, Held, Inserting
    <3>3. QED
      BY <1>3, <3>1, <3>2
  <2>2. CASE AuditStarts(r)
    <3>1. UNCHANGED req /\ audit' \in {[audit EXCEPT ![r] = "inserting"], [audit EXCEPT ![r] = "lost"]}
      BY <2>2 DEF AuditStarts, Audits
    <3>2. CASE InUse < PoolSize
      <4>1. Held' \subseteq Held /\ Inserting' \subseteq Inserting \cup {r}
        BY <3>1 DEF RequestsTyped, Held, Inserting
      <4>2. QED
        BY <1>3, <3>2, <4>1
    <3>3. CASE ~(InUse < PoolSize)
      <4>1. audit' = [audit EXCEPT ![r] = "lost"]
        BY <2>2, <3>3 DEF AuditStarts, Audits, Available
      <4>2. Held' \subseteq Held /\ Inserting' \subseteq Inserting
        BY <3>1, <4>1 DEF RequestsTyped, Held, Inserting
      <4>3. QED
        BY <1>2, <4>2
    <3>4. QED
      BY <3>2, <3>3
  <2>3. CASE \/ Accept(r) \/ BodyArrives(r) \/ BodyFails(r) \/ AcquireFails(r) \/ Authenticate(r) \/ Work(r)
             \/ Panic(r) \/ Disconnect(r) \/ AuditEnds(r)
    <3>1. /\ UNCHANGED req \/ \E place \in {"body", "auth", "work", "answered", "refused", "panicked"} :
                                 req' = [req EXCEPT ![r] = place]
          /\ UNCHANGED audit \/ \E place \in {"pending", "written", "refused"} :
                                 audit' = [audit EXCEPT ![r] = place]
      BY <2>3 DEF Accept, BodyArrives, BodyFails, AcquireFails, Answered, Authenticate, Work,
                  Panic, Disconnect,
                  AuditEnds, Audits, Goes
    <3>2. Held' \subseteq Held /\ Inserting' \subseteq Inserting
      BY <3>1 DEF RequestsTyped, Held, Inserting
    <3>3. QED
      BY <1>2, <3>2
  <2>4. QED
    BY <1>5, <2>1, <2>2, <2>3 DEF Handle, Record
<1>6. Main \/ Goroutines \/ BootFails \/ Signal \/ Crash => UNCHANGED requests \/ Die
  BY DEF Main, Serve, Select, ShutdownReturns, ClosePool, Goroutines, HttpReturns, SshReturns,
         SshRunSelects, SshRunShutdown, BootFails, Signal, Crash
<1>7. (\E who \in {"main", "ssh"} : Deadline(who)) \/ OpenSession \/ EndSession => UNCHANGED requests
  BY DEF Deadline, OpenSession, EndSession
<1>8. QED
  BY <1>2, <1>4, <1>5, <1>6, <1>7 DEF Next, vars

\* The types, with the room in the channel and in the pool.
THEOREM TypeInvHolds == Spec => []TypeInv
<1>1. TypeInv /\ [Next]_vars => TypeInv'
  BY ChannelStep, MainStep, RequestsStep, PoolStep DEF TypeInv
<1>2. QED
  BY <1>1, TypeInit, PTL DEF Spec

\* Every variable keeps its type: more than PoolSize connections are never
\* held, by handlers and audit goroutines together, and errCh has room for the
\* results of both listeners, so that neither goroutine is left blocked on it
\* (server.go:59-111, middleware/audit.go).
THEOREM TypeCorrect == Spec => []TypeOK
<1>1. TypeInv => TypeOK
  <2> SUFFICES ASSUME TypeInv PROVE TypeOK
    OBVIOUS
  <2>1. Len(errCh) <= 2
    <3>1. Len(errCh) \in Nat
      BY DEF TypeInv, ChannelRoom
    <3>2. HttpToCome \in {0, 1} /\ SshToCome \in {0, 1}
      BY DEF HttpToCome, SshToCome
    <3>3. QED
      BY <3>1, <3>2 DEF TypeInv, ChannelRoom
  <2>2. req \in [Requests -> InHandler \cup {"none", "answered", "refused", "panicked", "dropped"}]
        /\ audit \in [Requests -> {"none", "pending", "inserting", "written", "refused", "lost"}]
        /\ changed \cup gone \subseteq Requests
    BY DEF TypeInv, RequestsTyped, Audited
  <2>3. {cancelled, session, poolClosed} \subseteq BOOLEAN
    BY Zenon DEF TypeInv, MainTyped
  <2>4. QED
    BY <2>1, <2>2, <2>3, Zenon DEF TypeInv, ChannelRoom, MainTyped, PoolKept, TypeOK
<1>2. QED
  BY <1>1, TypeInvHolds, PTL
------------------------------------------------------------------------------
(* What AnsweredChangesAreAudited rests on: no audit row goes missing on the   *)
(* way.                                                                         *)

\* The first half of AuditRowsAreKept.
ChangesHaveTheirAudit == \A r \in changed : audit[r] # "none" \/ req[r] = "panicked"

Recorded ==
    /\ ChangesHaveTheirAudit
    /\ \A r \in Requests : req[r] = "answered" => audit[r] # "none"

LEMMA RecordedStep ==
    ASSUME RequestsTyped, Recorded, [Next]_vars
    PROVE  Recorded'
<1> USE DEF Recorded, ChangesHaveTheirAudit
<1>2. CASE UNCHANGED requests
  BY <1>2 DEF requests
<1>3. CASE Die
  BY <1>3 DEF Die, RequestsTyped, InHandler
<1>4. ASSUME NEW r \in Requests,
Accept(r) \/ BodyArrives(r) \/ Handle(r) \/ Panic(r) \/ Disconnect(r) \/ Record(r)
      PROVE  Recorded'
  <2>0. req \in [Requests -> InHandler \cup {"none", "answered", "refused", "panicked", "dropped"}]
        /\ audit \in [Requests -> Audited] /\ changed \subseteq Requests
    BY DEF RequestsTyped
  <2>1. CASE Accept(r)
    BY <2>0, <2>1 DEF Accept, Goes
  <2>2. CASE BodyArrives(r) \/ BodyFails(r) \/ Acquire(r)
    BY <2>0, <2>2 DEF BodyArrives, BodyFails, Acquire, Goes
  <2>3. CASE AcquireFails(r)
    BY <2>0, <2>3 DEF AcquireFails, Answered, Goes
  <2>4. CASE Authenticate(r)
    BY <2>0, <2>4 DEF Authenticate, Goes
  <2>5. CASE Work(r)
    BY <2>0, <2>5 DEF Work, Answered, Goes
  <2>6. CASE Panic(r)
    BY <2>0, <2>6 DEF Panic, Goes
  <2>7. CASE Disconnect(r)
    BY <2>0, <2>7 DEF Disconnect
  <2>8. CASE AuditStarts(r)
    BY <2>0, <2>8 DEF AuditStarts, Audits
  <2>9. CASE AuditEnds(r)
    BY <2>0, <2>9 DEF AuditEnds, Audits
  <2>10. QED
    BY <1>4, <2>1, <2>2, <2>3, <2>4, <2>5, <2>6, <2>7, <2>8, <2>9 DEF Handle, Record
<1>5. Main \/ Goroutines \/ BootFails \/ Signal \/ Crash => UNCHANGED requests \/ Die
  BY DEF Main, Serve, Select, ShutdownReturns, ClosePool, Goroutines, HttpReturns, SshReturns,
         SshRunSelects, SshRunShutdown, BootFails, Signal, Crash
<1>6. (\E who \in {"main", "ssh"} : Deadline(who)) \/ OpenSession \/ EndSession => UNCHANGED requests
  BY DEF Deadline, OpenSession, EndSession
<1>7. QED
  BY <1>2, <1>3, <1>4, <1>5, <1>6 DEF Next, vars

\* The second half: what a step may do to the audit rows.
LossesExcused ==
    \A r \in Requests :
        audit[r] # "lost" /\ audit'[r] = "lost" =>
          exit' = "crash" \/ (audit[r] = "pending" /\ main = "close")

LEMMA LossStep ==
    ASSUME RequestsTyped, PoolKept, Quiet, [Next]_vars
    PROVE  LossesExcused
<1>1. CASE UNCHANGED audit
  BY <1>1 DEF LossesExcused
<1>2. CASE Crash
  BY <1>2 DEF Crash, LossesExcused
<1>3. CASE ClosePool
  <2>1. main = "close" /\ InUse = 0 /\ Die
    BY <1>3 DEF ClosePool
  <2>2. Inserting = {}
    <3>1. Cardinality(Held) \in Nat /\ Cardinality(Inserting) \in Nat
      BY FS_CardinalityType DEF PoolKept
    <3>2. Cardinality(Inserting) = 0
      BY <2>1, <3>1 DEF InUse
    <3>3. QED
      BY <3>2, FS_EmptySet DEF PoolKept
  <2>3. ASSUME NEW r \in Requests, audit[r] # "lost", audit'[r] = "lost"
        PROVE  audit[r] = "pending"
    BY <2>1, <2>2, <2>3 DEF Die, Inserting
  <2>4. QED
    BY <2>1, <2>3 DEF LossesExcused
<1>4. ASSUME NEW r \in Requests, Handle(r) \/ Record(r)
      PROVE  LossesExcused
  <2>0. audit \in [Requests -> Audited]
    BY DEF RequestsTyped
  <2>1. CASE AuditStarts(r)
    <3>1. \/ audit' = [audit EXCEPT ![r] = "inserting"]
          \/ audit' = [audit EXCEPT ![r] = "lost"] /\ audit[r] = "pending" /\ main = "close"
      BY <2>1 DEF AuditStarts, Audits, Running, Quiet
    <3>2. QED
      BY <2>0, <3>1 DEF LossesExcused
  <2>2. CASE ~AuditStarts(r)
    <3>1. UNCHANGED audit \/ \E place \in {"pending", "written", "refused"} :
                                audit' = [audit EXCEPT ![r] = place]
      BY <1>4, <2>2 DEF Handle, BodyFails, Acquire, AcquireFails, Answered, Authenticate, Work,
                        Record, AuditEnds, Audits
    <3>2. QED
      BY <2>0, <3>1 DEF LossesExcused
  <2>3. QED
    BY <2>1, <2>2
<1>5. ASSUME NEW r \in Requests, Accept(r) \/ BodyArrives(r) \/ Panic(r) \/ Disconnect(r)
      PROVE  UNCHANGED audit
  BY <1>5 DEF Accept, BodyArrives, Panic, Disconnect
<1>6. \/ Serve \/ Select \/ ShutdownReturns \/ Goroutines \/ BootFails \/ Signal \/ OpenSession \/ EndSession
      \/ \E who \in {"main", "ssh"} : Deadline(who)
      => UNCHANGED audit
  BY DEF Serve, Select, ShutdownReturns, Goroutines, HttpReturns, SshReturns, SshRunSelects,
         SshRunShutdown, BootFails, Signal, OpenSession, EndSession, Deadline, requests
<1>7. UNCHANGED vars => UNCHANGED audit
  BY DEF vars, requests
<1>8. QED
  BY <1>1, <1>2, <1>3, <1>4, <1>5, <1>6, <1>7 DEF Next, Main

\* No committed change is without an audit goroutine but one whose handler
\* panicked, and only a crash, or the closing of the pool on a goroutine that
\* has no connection yet, loses a row (middleware/audit.go:41-46, boot.go:34).
THEOREM NoAuditGoesMissing == Spec => AuditRowsAreKept
<1>1. Init => Recorded
  BY DEF Init, Recorded, ChangesHaveTheirAudit
<1>2. TypeInv => RequestsTyped /\ PoolKept
  BY DEF TypeInv
<1>3. IndInv => Quiet
  BY DEF IndInv
<1>4. Recorded => ChangesHaveTheirAudit
  BY DEF Recorded
<1>5. Spec => []ChangesHaveTheirAudit
  BY <1>1, <1>2, <1>4, RecordedStep, TypeInvHolds, PTL DEF Spec
<1>6. Spec => [][LossesExcused]_vars
  BY <1>2, <1>3, LossStep, TypeInvHolds, IndInvHolds, PTL DEF Spec
<1>7. QED
  BY <1>5, <1>6, PTL DEF AuditRowsAreKept, ChangesHaveTheirAudit, LossesExcused
=============================================================================
