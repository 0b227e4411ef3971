------------------------------ MODULE Transport ------------------------------
(***************************************************************************)
(* The worker transport: StdioTransport of transport_stdio.go (Call,       *)
(* readLoop, Close) and the read loop of the worker it spawns (the         *)
(* worker's main.rs).  Processes are the callers, the closer, the reader   *)
(* goroutine, the goroutine in cmd.Wait and the worker.                    *)
(*                                                                         *)
(* A request is its number.  A line of output is a signal or the response, *)
(* with the request it was written for, or the torn end of one.  Errors    *)
(* Close joins are kept as the set of what they tell; the error of         *)
(* stdin.Close, of the kill and of the wait itself are left out.  A        *)
(* request fits the pipe to the worker.                                    *)
(***************************************************************************)
EXTENDS Integers, Sequences, FiniteSets

CONSTANTS
    Callers, Closer, Nobody,
    LinesCap,       \* capacity of the lines channel
    PipeCap,        \* lines the worker's stdout pipe holds
    MaxSignals,     \* signals a handler emits
    MaxCalls        \* bound on the requests sent

ASSUME CapsAssumption ==
    /\ LinesCap \in Nat \ {0} /\ PipeCap \in Nat \ {0} /\ MaxSignals \in Nat
    /\ Closer \notin Callers /\ Nobody \notin Callers \cup {Closer}

VARIABLES
    mu,         \* who holds the mutex
    call,       \* of each caller: what it is doing, for which request
    closed,     \* the closed flag
    nextID,
    stdin,      \* requests on their way, and whether the pipe is open
    worker,     \* what it is doing, for which request, signals left
    stdout,     \* lines in the pipe, and whether its read end is open
    reader,     \* what readLoop is doing, and the line it holds
    lines,      \* the channel, and whether it is open
    closer,     \* what Close is doing, and what it has observed
    wait,       \* cmd.Wait: "none", "running", "landed" or "taken"
    closeErr,   \* what the stored error tells, once shutdown has run
    ifReaped,   \* what it is to tell once the reap lands
    patient     \* whether timers outlast everything that can still happen

callVars == <<call, nextID>>
pipeVars == <<stdin, worker, stdout>>
readVars == <<reader, lines>>
closeVars == <<closer, wait, closeErr, ifReaped>>
vars == <<mu, callVars, closed, pipeVars, readVars, closeVars, patient>>

NotRun == {"not run"}
NoVerdict == {"none"}

Init ==
    /\ mu = Nobody /\ closed = FALSE /\ nextID = 0
    /\ call = [c \in Callers |-> [pc |-> "idle", id |-> 0]]
    /\ stdin = [queue |-> <<>>, open |-> TRUE]
    /\ worker = [pc |-> "read", id |-> 0, left |-> 0]
    /\ stdout = [pipe |-> <<>>, open |-> TRUE]
    /\ reader = [pc |-> "read", line |-> <<>>]
    /\ lines = [queue |-> <<>>, open |-> TRUE]
    /\ closer = [pc |-> "idle", told |-> {}]
    /\ wait = "none" /\ closeErr = NotRun /\ ifReaped = NoVerdict
    /\ patient \in BOOLEAN

(***************************************************************************)
(* Call.                                                                   *)
(***************************************************************************)
Want(c) ==
    /\ call[c].pc = "idle" /\ nextID < MaxCalls
    /\ call' = [call EXCEPT ![c].pc = "lock"]
    /\ UNCHANGED <<mu, closed, nextID, pipeVars, readVars, closeVars, patient>>

(* Takes the mutex; a closed transport gives it back with                  *)
(* ErrTransportClosed.                                                     *)
Enter(c) ==
    /\ call[c].pc = "lock" /\ mu = Nobody
    /\ IF closed
       THEN call' = [call EXCEPT ![c].pc = "idle"] /\ UNCHANGED <<mu, nextID>>
       ELSE /\ mu' = c /\ nextID' = nextID + 1
            /\ call' = [call EXCEPT ![c] = [pc |-> "write", id |-> nextID']]
    /\ UNCHANGED <<closed, pipeVars, readVars, closeVars, patient>>

Return(c) == mu' = Nobody /\ call' = [call EXCEPT ![c].pc = "idle"]

(* The params cannot be marshalled, or the worker no longer reads. *)
SendFails(c) ==
    /\ call[c].pc = "write"
    /\ Return(c)
    /\ UNCHANGED <<closed, nextID, pipeVars, readVars, closeVars, patient>>

Send(c) ==
    /\ call[c].pc = "write" /\ worker.pc # "exited"
    /\ stdin' = [stdin EXCEPT !.queue = Append(@, call[c].id)]
    /\ call' = [call EXCEPT ![c].pc = "wait"]
    /\ UNCHANGED <<mu, closed, nextID, worker, stdout, readVars, closeVars, patient>>

(* A signal is delivered and the wait goes on; a response, a line that is  *)
(* none and the wrong response all end the call.                           *)
Receive(c) ==
    /\ call[c].pc = "wait" /\ lines.queue # <<>>
    /\ lines' = [lines EXCEPT !.queue = Tail(@)]
    /\ IF Head(lines.queue).kind = "signal" THEN UNCHANGED <<mu, call>> ELSE Return(c)
    /\ UNCHANGED <<closed, nextID, pipeVars, reader, closeVars, patient>>

ReceiveClosed(c) ==
    /\ call[c].pc = "wait" /\ lines.queue = <<>> /\ ~ lines.open
    /\ Return(c)
    /\ UNCHANGED <<closed, nextID, pipeVars, readVars, closeVars, patient>>

(* Mutant: an abandoned request leaves the transport in use. *)
ClosedByAbandonedStays == closed

(* The closed flag after a request was abandoned. *)
ClosedByAbandoned == TRUE

CtxDone(c) ==
    /\ call[c].pc = "wait"
    /\ closed' = ClosedByAbandoned
    /\ Return(c)
    /\ UNCHANGED <<nextID, pipeVars, readVars, closeVars, patient>>

(***************************************************************************)
(* readLoop.                                                               *)
(***************************************************************************)
CanRead == stdout.pipe # <<>>
AtEOF == ~ stdout.open \/ (worker.pc = "exited" /\ stdout.pipe = <<>>)

ReadLine ==
    /\ reader.pc = "read" /\ CanRead
    /\ reader' = [pc |-> "send", line |-> Head(stdout.pipe)]
    /\ stdout' = [stdout EXCEPT !.pipe = Tail(@)]
    /\ UNCHANGED <<mu, callVars, closed, stdin, worker, lines, closeVars, patient>>

PushLine ==
    /\ reader.pc = "send" /\ Len(lines.queue) < LinesCap
    /\ lines' = [lines EXCEPT !.queue = Append(@, reader.line)]
    /\ reader' = [pc |-> "read", line |-> <<>>]
    /\ UNCHANGED <<mu, callVars, closed, pipeVars, closeVars, patient>>

(* Whether the channel is still open when the reader ends. *)
OpenAfterEOF == FALSE

ReadFails ==
    /\ reader.pc = "read" /\ AtEOF
    /\ reader' = [reader EXCEPT !.pc = "done"]
    /\ lines' = [lines EXCEPT !.open = OpenAfterEOF]
    /\ UNCHANGED <<mu, callVars, closed, pipeVars, closeVars, patient>>

(***************************************************************************)
(* The worker: one request at a time, its signals before its response.     *)
(***************************************************************************)
Output(kind) ==
    stdout' = [stdout EXCEPT !.pipe = Append(@, [kind |-> kind, id |-> worker.id])]

HasRoom == Len(stdout.pipe) < PipeCap

TakeRequest ==
    /\ worker.pc = "read" /\ stdin.queue # <<>>
    /\ \E n \in 0..MaxSignals : worker' = [pc |-> "busy", id |-> Head(stdin.queue), left |-> n]
    /\ stdin' = [stdin EXCEPT !.queue = Tail(@)]
    /\ UNCHANGED <<mu, callVars, closed, stdout, readVars, closeVars, patient>>

(* A signal nobody can read any more is dropped. *)
EmitSignal ==
    /\ worker.pc = "busy" /\ worker.left > 0
    /\ \/ stdout.open /\ HasRoom /\ Output("signal")
       \/ ~ stdout.open /\ UNCHANGED stdout
    /\ worker' = [worker EXCEPT !.left = @ - 1]
    /\ UNCHANGED <<mu, callVars, closed, stdin, readVars, closeVars, patient>>

(* The response, of a handler that panicked too; the loop ends when it     *)
(* cannot be written.                                                      *)
Reply ==
    /\ worker.pc = "busy" /\ worker.left = 0
    /\ \/ stdout.open /\ HasRoom /\ Output("response") /\ worker' = [worker EXCEPT !.pc = "read"]
       \/ ~ stdout.open /\ UNCHANGED stdout /\ worker' = [worker EXCEPT !.pc = "exited"]
    /\ UNCHANGED <<mu, callVars, closed, stdin, readVars, closeVars, patient>>

EndOfInput ==
    /\ worker.pc = "read" /\ stdin.queue = <<>> /\ ~ stdin.open
    /\ worker' = [worker EXCEPT !.pc = "exited"]
    /\ UNCHANGED <<mu, callVars, closed, stdin, stdout, readVars, closeVars, patient>>

(* A handler does not come back, or the end of the input is ignored. *)
Wedge ==
    /\ worker.pc = "busy" \/ (worker.pc = "read" /\ ~ stdin.open)
    /\ worker' = [worker EXCEPT !.pc = "wedged"]
    /\ UNCHANGED <<mu, callVars, closed, stdin, stdout, readVars, closeVars, patient>>

(* The process dies, in the middle of a line perhaps; or a kill it         *)
(* outlived takes at last.                                                 *)
Die ==
    /\ worker.pc = "busy" \/ (worker.pc = "wedged" /\ "not exited" \in closer.told)
    /\ worker' = [worker EXCEPT !.pc = "exited"]
    /\ UNCHANGED stdout \/ (HasRoom /\ worker.pc = "busy" /\ Output("torn"))
    /\ UNCHANGED <<mu, callVars, closed, stdin, readVars, closeVars, patient>>

(***************************************************************************)
(* Close.  The first call shuts down; closer.told collects what it         *)
(* observes: "not exited", "unreaped", "still reading".                    *)
(***************************************************************************)
CloseCalled ==
    /\ closer.pc = "idle"
    /\ closer' = [closer EXCEPT !.pc = "lock"]
    /\ UNCHANGED <<mu, callVars, closed, pipeVars, readVars, wait, closeErr, ifReaped, patient>>

Shutdown ==
    /\ closer.pc = "lock" /\ mu = Nobody /\ closeErr = NotRun
    /\ mu' = Closer /\ closed' = TRUE
    /\ stdin' = [stdin EXCEPT !.open = FALSE]
    /\ wait' = "running"
    /\ closer' = [closer EXCEPT !.pc = "select"]
    /\ UNCHANGED <<callVars, worker, stdout, readVars, closeErr, ifReaped, patient>>

(* Mutant: the reap is received and the stored error kept. *)
RevisedUnchanged == closeErr

(* What the stored error tells once the reap has landed. *)
Revised == ifReaped

(* A later Close: reviseReapVerdict, without blocking. *)
CloseAgain ==
    /\ closer.pc = "lock" /\ mu = Nobody /\ closeErr # NotRun
    /\ IF ifReaped # NoVerdict /\ wait = "landed"
       THEN closeErr' = Revised /\ ifReaped' = NoVerdict /\ wait' = "taken"
       ELSE UNCHANGED <<closeErr, ifReaped, wait>>
    /\ closer' = [closer EXCEPT !.pc = "idle"]
    /\ UNCHANGED <<mu, callVars, closed, pipeVars, readVars, patient>>

(* cmd.Wait: the process has exited, and the read end of its output is     *)
(* closed under the reader.                                                *)
WaitLands ==
    /\ wait = "running" /\ worker.pc = "exited"
    /\ wait' = "landed"
    /\ stdout' = [stdout EXCEPT !.open = FALSE]
    /\ UNCHANGED <<mu, callVars, closed, stdin, worker, readVars, closer, closeErr, ifReaped, patient>>

(* Mutant: lines are only drained once the process is gone. *)
DrainingStepsTail == {"tail"}

(* The loop of shutdown and drainTail receive lines; the reap does not. *)
DrainingSteps == {"select", "tail"}

Drains == closer.pc \in DrainingSteps /\ lines.queue # <<>>

Drain ==
    /\ Drains
    /\ lines' = [lines EXCEPT !.queue = Tail(@)]
    /\ UNCHANGED <<mu, callVars, closed, pipeVars, reader, closeVars, patient>>

(* The reap, in time or within the reap's own bound.  A grace timer that   *)
(* finds it there takes it too.                                            *)
TakeWait ==
    /\ closer.pc \in {"select", "reap"} /\ wait = "landed"
    /\ wait' = "taken" /\ closer' = [closer EXCEPT !.pc = "tail"]
    /\ UNCHANGED <<mu, callVars, closed, pipeVars, readVars, closeErr, ifReaped, patient>>

(* What the worker, the reader, the wait and the drain can still do; a     *)
(* patient timer outlasts it.                                              *)
CanMove ==
    \/ worker.pc = "read" /\ (stdin.queue # <<>> \/ ~ stdin.open)
    \/ worker.pc = "busy" /\ (HasRoom \/ ~ stdout.open)
    \/ reader.pc = "read" /\ (CanRead \/ AtEOF)
    \/ reader.pc = "send" /\ Len(lines.queue) < LinesCap
    \/ wait = "running" /\ worker.pc = "exited"
    \/ Drains

Elapsed == patient => ~ CanMove

(* The grace period ends first: a kill, which a process stuck in the       *)
(* kernel outlives.                                                        *)
KillWorker ==
    /\ closer.pc = "select" /\ wait = "running" /\ Elapsed
    /\ closer' = [pc |-> "reap", told |-> {"not exited"}]
    /\ \/ worker' = [worker EXCEPT !.pc = "exited"]
       \/ worker.pc = "wedged" /\ UNCHANGED worker
    /\ UNCHANGED <<mu, callVars, closed, stdin, stdout, readVars, wait, closeErr, ifReaped, patient>>

(* Mutant: the reap is waited for without a bound. *)
ReapBoundNone == FALSE

(* Whether the reap has a bound of its own. *)
ReapBound == TRUE

ReapElapses ==
    /\ closer.pc = "reap" /\ wait = "running" /\ Elapsed /\ ReapBound
    /\ closer' = [pc |-> "tail", told |-> closer.told \cup {"unreaped"}]
    /\ UNCHANGED <<mu, callVars, closed, pipeVars, readVars, wait, closeErr, ifReaped, patient>>

Finish(told) ==
    /\ closeErr' = told
    /\ ifReaped' = IF "unreaped" \in told THEN told \ {"unreaped"} ELSE NoVerdict
    /\ closer' = [pc |-> "idle", told |-> told]
    /\ mu' = Nobody

DrainTail ==
    /\ closer.pc = "tail"
    /\ \/ lines.queue = <<>> /\ ~ lines.open /\ Finish(closer.told)
       \/ (lines.queue # <<>> \/ lines.open) /\ Elapsed /\ Finish(closer.told \cup {"still reading"})
    /\ UNCHANGED <<callVars, closed, pipeVars, readVars, wait, patient>>

-----------------------------------------------------------------------------
Next ==
    \/ \E c \in Callers : \/ Want(c) \/ Enter(c) \/ SendFails(c) \/ Send(c)
                          \/ Receive(c) \/ ReceiveClosed(c) \/ CtxDone(c)
    \/ ReadLine \/ PushLine \/ ReadFails
    \/ TakeRequest \/ EmitSignal \/ Reply \/ EndOfInput \/ Wedge \/ Die
    \/ CloseCalled \/ Shutdown \/ CloseAgain \/ WaitLands \/ Drain \/ TakeWait
    \/ KillWorker \/ ReapElapses \/ DrainTail

Spec == Init /\ [][Next]_vars

(* Go's mutex starves nobody; a Call and Close run on; the reader and a    *)
(* worker that is not wedged run.  Nothing says that a context ever ends,  *)
(* that Close is called or that a late kill takes.                         *)
FairSpec ==
    /\ Spec
    /\ \A c \in Callers : /\ SF_vars(Enter(c)) /\ WF_vars(Send(c) \/ SendFails(c))
                          /\ WF_vars(Receive(c) \/ ReceiveClosed(c))
    /\ SF_vars(Shutdown \/ CloseAgain)
    /\ WF_vars(ReadLine \/ PushLine \/ ReadFails)
    /\ WF_vars(TakeRequest \/ EmitSignal \/ Reply \/ EndOfInput)
    /\ WF_vars(WaitLands) /\ WF_vars(Drain)
    /\ WF_vars(TakeWait \/ KillWorker \/ ReapElapses \/ DrainTail)

-----------------------------------------------------------------------------
(* The lines between the worker and a Call, the nearest first. *)
OnTheWay == lines.queue \o (IF reader.pc = "send" THEN <<reader.line>> ELSE <<>>) \o stdout.pipe

(* Whatever a waiting Call can still receive was written for its own       *)
(* request: no Call is handed a response, or delivers a signal, of a       *)
(* request that was abandoned before it.                                   *)
StreamInStep ==
    \A c \in Callers : call[c].pc = "wait" => \A k \in DOMAIN OnTheWay : OnTheWay[k].id = call[c].id

(* What Close last returned is true of the present: without ErrWorker-     *)
(* Unreaped the process was reaped, with it the reap is still there to be  *)
(* taken by the next Close; unless it told of a running reader, the reader *)
(* is not left behind on a full channel.  A process is left unreaped only  *)
(* after the kill that Close also reports, and Close keeps no mutex.       *)
CloseTellsTruth ==
    closer.pc = "idle" /\ closeErr # NotRun =>
        /\ "unreaped" \in closeErr <=> wait # "taken"
        /\ wait = "taken" => worker.pc = "exited"
        /\ "unreaped" \in closeErr => "not exited" \in closeErr
        /\ "still reading" \notin closeErr => reader.pc = "done"
        /\ mu # Closer

(* With timers that outlast whatever can still happen, Close kills only a  *)
(* worker that is wedged: one with more to write than the channel and the  *)
(* pipe hold is let finish.                                                *)
OnlyWedgedAreKilled ==
    [][KillWorker /\ patient => worker.pc = "wedged"]_vars

(* Nobody waits for good: a Call that waits for its response returns,      *)
(* whatever becomes of its context, unless the worker is wedged; Close     *)
(* returns, whatever the worker does, as long as no Call keeps the mutex   *)
(* for good.                                                               *)
WaitsEnd ==
    /\ \A c \in Callers : call[c].pc = "wait" ~> (call[c].pc = "idle" \/ worker.pc = "wedged")
    /\ []<>(mu \notin Callers) => (closer.pc # "idle" ~> closer.pc = "idle")

(* Close returns, whatever the worker does. *)
ClosesAlwaysReturn == closer.pc # "idle" ~> closer.pc = "idle"

=============================================================================
