-------------------------- MODULE TransportProofs --------------------------
(***************************************************************************)
(* The transport for any number of callers, any capacities of the channel  *)
(* and the pipe, and any number of signals: no Call receives a line of     *)
(* another request, what Close tells is so, and Close with timers that     *)
(* outlast what can still happen kills only a wedged worker.               *)
(***************************************************************************)
EXTENDS Transport, TLAPS

(* Turns off type inference in the SMT backend. *)
LEMMA Untyped == (CASE TRUE -> 0) = 0
  OBVIOUS

USE Untyped

Lines == [kind : {"signal", "response", "torn"}, id : Nat]
Tells == {"not exited", "unreaped", "still reading"}
Closing == {"select", "reap", "tail"}

CallRecs == [pc : {"idle", "lock", "write", "wait"}, id : Nat]
Stdins == [queue : Seq(Nat), open : BOOLEAN]
Workers == [pc : {"read", "busy", "wedged", "exited"}, id : Nat, left : Nat]
Stdouts == [pipe : Seq(Lines), open : BOOLEAN]
Readers == [pc : {"read", "done"}, line : Lines \cup {<<>>}] \cup [pc : {"send"}, line : Lines]
Channels == [queue : Seq(Lines), open : BOOLEAN]
Closers == [pc : {"idle", "lock"} \cup Closing, told : SUBSET Tells]
Waits == {"none", "running", "landed", "taken"}
Errs == (SUBSET Tells) \cup {NotRun}
Verdicts == (SUBSET Tells) \cup {NoVerdict}

TypeOK ==
    /\ mu \in Callers \cup {Closer, Nobody}
    /\ call \in [Callers -> CallRecs]
    /\ closed \in BOOLEAN /\ nextID \in Nat /\ patient \in BOOLEAN
    /\ stdin \in Stdins /\ worker \in Workers /\ stdout \in Stdouts
    /\ reader \in Readers /\ lines \in Channels
    /\ closer \in Closers /\ wait \in Waits /\ closeErr \in Errs /\ ifReaped \in Verdicts

(* The mutex: a Call holds it from its request on, Close throughout its    *)
(* shutdown; and a Call that holds it found the transport open.            *)
Mutex ==
    /\ \A c \in Callers : call[c].pc \in {"write", "wait"} <=> mu = c
    /\ closer.pc \in Closing <=> mu = Closer
    /\ mu \in Callers => ~ closed

(* The pipes: what shutdown, the reap and the end of the reader close. *)
Pipes ==
    /\ wait = "none" <=> stdin.open
    /\ wait = "none" => closer.pc \notin Closing /\ closeErr = NotRun
    /\ wait # "none" => closed
    /\ wait \in {"none", "running"} <=> stdout.open
    /\ ~ stdout.open => worker.pc = "exited"
    /\ lines.open <=> reader.pc # "done"
    /\ reader.pc = "done" /\ stdout.open => worker.pc = "exited" /\ stdout.pipe = <<>>

IsSignal(line) == line.kind = "signal"

(* Between the worker and a Call are the channel q, what the reader r      *)
(* holds and the pipe p.  No line is there.                                *)
NoLines(q, r, p) == q = <<>> /\ r.pc # "send" /\ p = <<>>

(* Only signals are there. *)
OnlySignals(q, r, p) ==
    /\ \A k \in 1..Len(q) : IsSignal(q[k])
    /\ r.pc = "send" => IsSignal(r.line)
    /\ \A k \in 1..Len(p) : IsSignal(p[k])

(* The lines of request i are, its response or torn end behind all others. *)
LinesOf(q, r, p, i) ==
    /\ \A k \in 1..Len(q) :
          q[k].id = i /\ (IsSignal(q[k]) \/ (k = Len(q) /\ r.pc # "send" /\ p = <<>>))
    /\ r.pc = "send" => r.line.id = i /\ (IsSignal(r.line) \/ p = <<>>)
    /\ \A k \in 1..Len(p) : p[k].id = i /\ (IsSignal(p[k]) \/ k = Len(p))

(* While c waits its request is on its way to the worker, or at work, or   *)
(* past it, and so are its lines.                                          *)
Serves(c) ==
    LET i == call[c].id
    IN  /\ LinesOf(lines.queue, reader, stdout.pipe, i)
        /\ stdin.queue # <<>> =>
              stdin.queue = <<i>> /\ worker.pc = "read" /\ NoLines(lines.queue, reader, stdout.pipe)
        /\ worker.pc \in {"busy", "wedged"} =>
              worker.id = i /\ OnlySignals(lines.queue, reader, stdout.pipe)

(* Between calls, and until the request is sent, all is still. *)
Still ==
    /\ stdin.queue = <<>> /\ worker.pc \in {"read", "exited"}
    /\ NoLines(lines.queue, reader, stdout.pipe)

InStep ==
    /\ \A c \in Callers : call[c].pc = "wait" => Serves(c)
    /\ ~ closed /\ (\A c \in Callers : call[c].pc # "wait") => Still

(* What Close has observed, and what it has told. *)
Verdict ==
    /\ closer.pc = "select" => closer.told = {} /\ wait \in {"running", "landed"}
    /\ closer.pc = "reap" => closer.told = {"not exited"} /\ wait \in {"running", "landed"}
    /\ closer.pc = "tail" => /\ "still reading" \notin closer.told
                             /\ "unreaped" \in closer.told => "not exited" \in closer.told
                             /\ "unreaped" \in closer.told <=> wait # "taken"
    /\ closer.pc \in Closing => closeErr = NotRun
    /\ closeErr = NotRun /\ closer.pc \notin Closing => closer.told = {} /\ wait = "none"
    /\ closeErr # NotRun =>
          /\ "unreaped" \in closeErr <=> wait # "taken"
          /\ "unreaped" \in closeErr => "not exited" \in closeErr
          /\ "still reading" \notin closeErr => reader.pc = "done"
          /\ ifReaped = IF "unreaped" \in closeErr THEN closeErr \ {"unreaped"} ELSE NoVerdict

Inv == TypeOK /\ Mutex /\ Pipes /\ InStep /\ Verdict

-----------------------------------------------------------------------------
(* The operators on sequences the transport uses, element by element. *)
LEMMA TailOf ==
  ASSUME NEW S, NEW s \in Seq(S), s # <<>>
  PROVE  /\ Len(s) \in Nat /\ Len(s) >= 1 /\ Head(s) = s[1] /\ Head(s) \in S
         /\ Tail(s) \in Seq(S) /\ Len(Tail(s)) = Len(s) - 1
         /\ \A k \in 1..Len(Tail(s)) : Tail(s)[k] = s[k + 1] /\ k + 1 \in 1..Len(s)
         /\ Len(s) = 1 => Tail(s) = <<>>
  OBVIOUS

LEMMA AppendOf ==
  ASSUME NEW S, NEW s \in Seq(S), NEW e \in S
  PROVE  /\ Append(s, e) \in Seq(S) /\ Append(s, e) # <<>> /\ Len(s) \in Nat
         /\ Len(Append(s, e)) = Len(s) + 1 /\ Append(s, e)[Len(s) + 1] = e
         /\ \A k \in 1..Len(s) : Append(s, e)[k] = s[k]
  OBVIOUS

LEMMA AppendFirst ==
  ASSUME NEW e
  PROVE  Append(<<>>, e) = <<e>>
  OBVIOUS

LEMMA EmptyIs ==
  ASSUME NEW S, NEW s \in Seq(S)
  PROVE  s = <<>> <=> Len(s) = 0
  OBVIOUS

(* Lines, and updates of the records of the state. *)
LEMMA Records ==
  /\ \A kind \in {"signal", "response", "torn"}, i \in Nat : [kind |-> kind, id |-> i] \in Lines
  /\ \A r \in CallRecs, p \in {"idle", "lock", "write", "wait"} : [r EXCEPT !.pc = p] \in CallRecs
  /\ \A i \in Nat : [pc |-> "write", id |-> i] \in CallRecs
  /\ \A r \in Stdins, q \in Seq(Nat) : [r EXCEPT !.queue = q] \in Stdins
  /\ \A r \in Stdouts, q \in Seq(Lines) : [r EXCEPT !.pipe = q] \in Stdouts
  /\ \A r \in Channels, q \in Seq(Lines) : [r EXCEPT !.queue = q] \in Channels
  /\ \A r \in Workers, p \in {"read", "busy", "wedged", "exited"} : [r EXCEPT !.pc = p] \in Workers
  /\ \A r \in Workers, n \in Nat : [r EXCEPT !.left = n] \in Workers
  /\ \A i, n \in Nat : [pc |-> "busy", id |-> i, left |-> n] \in Workers
  /\ \A r \in Closers, p \in {"idle", "lock", "select", "reap", "tail"} : [r EXCEPT !.pc = p] \in Closers
<1>1. \A kind \in {"signal", "response", "torn"}, i \in Nat : [kind |-> kind, id |-> i] \in Lines
  BY DEF Lines
<1>2. \A r \in CallRecs, p \in {"idle", "lock", "write", "wait"} : [r EXCEPT !.pc = p] \in CallRecs
  BY DEF CallRecs
<1>3. \A i \in Nat : [pc |-> "write", id |-> i] \in CallRecs
  BY DEF CallRecs
<1>4. \A r \in Stdins, q \in Seq(Nat) : [r EXCEPT !.queue = q] \in Stdins
  BY DEF Stdins
<1>5. \A r \in Stdouts, q \in Seq(Lines) : [r EXCEPT !.pipe = q] \in Stdouts
  BY DEF Stdouts
<1>6. \A r \in Channels, q \in Seq(Lines) : [r EXCEPT !.queue = q] \in Channels
  BY DEF Channels
<1>7. \A r \in Workers, p \in {"read", "busy", "wedged", "exited"} : [r EXCEPT !.pc = p] \in Workers
  BY DEF Workers
<1>8. \A r \in Workers, n \in Nat : [r EXCEPT !.left = n] \in Workers
  BY DEF Workers
<1>9. \A i, n \in Nat : [pc |-> "busy", id |-> i, left |-> n] \in Workers
  BY DEF Workers
<1>10. \A r \in Closers, p \in {"idle", "lock", "select", "reap", "tail"} : [r EXCEPT !.pc = p] \in Closers
  BY DEF Closers, Closing
<1> QED BY <1>1, <1>2, <1>3, <1>4, <1>5, <1>6, <1>7, <1>8, <1>9, <1>10

(* The parts of the typed state. *)
LEMMA Parts ==
  ASSUME TypeOK
  PROVE  /\ stdin.queue \in Seq(Nat) /\ stdout.pipe \in Seq(Lines) /\ lines.queue \in Seq(Lines)
         /\ stdin.open \in BOOLEAN /\ stdout.open \in BOOLEAN /\ lines.open \in BOOLEAN
         /\ worker.pc \in {"read", "busy", "wedged", "exited"} /\ worker.id \in Nat /\ worker.left \in Nat
         /\ reader.pc \in {"read", "send", "done"} /\ (reader.pc = "send" => reader.line \in Lines)
         /\ closer.pc \in {"idle", "lock", "select", "reap", "tail"} /\ closer.told \in SUBSET Tells
         /\ \A c \in Callers : call[c].pc \in {"idle", "lock", "write", "wait"} /\ call[c].id \in Nat
<1>1. stdin.queue \in Seq(Nat) /\ stdin.open \in BOOLEAN  BY DEF TypeOK, Stdins
<1>2. stdout.pipe \in Seq(Lines) /\ stdout.open \in BOOLEAN  BY DEF TypeOK, Stdouts
<1>3. lines.queue \in Seq(Lines) /\ lines.open \in BOOLEAN  BY DEF TypeOK, Channels
<1>4. worker.pc \in {"read", "busy", "wedged", "exited"} /\ worker.id \in Nat /\ worker.left \in Nat
  BY DEF TypeOK, Workers
<1>5. reader.pc \in {"read", "send", "done"} /\ (reader.pc = "send" => reader.line \in Lines)
  BY DEF TypeOK, Readers
<1>6. closer.pc \in {"idle", "lock", "select", "reap", "tail"} /\ closer.told \in SUBSET Tells
  BY DEF TypeOK, Closers, Closing
<1>7. \A c \in Callers : call[c].pc \in {"idle", "lock", "write", "wait"} /\ call[c].id \in Nat
  BY DEF TypeOK, CallRecs
<1> QED BY <1>1, <1>2, <1>3, <1>4, <1>5, <1>6, <1>7

(* Once the transport is closed nobody waits, and there is nothing to keep *)
(* in step.                                                                *)
LEMMA ClosedInStep ==
  ASSUME Mutex', closed'
  PROVE  InStep'
  BY DEF Mutex, InStep

-----------------------------------------------------------------------------
(* A Call keeps the types. *)
LEMMA CallTypes ==
  ASSUME TypeOK, NEW c \in Callers,
         Want(c) \/ Enter(c) \/ SendFails(c) \/ Send(c) \/ Receive(c) \/ ReceiveClosed(c) \/ CtxDone(c)
  PROVE  TypeOK'
<1>p. USE DEF callVars, pipeVars, readVars, closeVars
<1>u. \A p \in {"idle", "lock", "wait"} : [call EXCEPT ![c].pc = p] \in [Callers -> CallRecs]
  BY Records DEF TypeOK
<1>1. CASE Want(c)  BY <1>1, <1>u DEF Want, TypeOK
<1>2. CASE Enter(c)
  <2>1. nextID + 1 \in Nat
    BY DEF TypeOK
  <2>2. [call EXCEPT ![c] = [pc |-> "write", id |-> nextID + 1]] \in [Callers -> CallRecs]
    BY <2>1, Records DEF TypeOK
  <2>3. CASE closed  BY <1>2, <2>3, <1>u DEF Enter, TypeOK
  <2>4. CASE ~ closed  BY <1>2, <2>4, <2>1, <2>2 DEF Enter, TypeOK
  <2> QED BY <2>3, <2>4
<1>3. CASE SendFails(c)  BY <1>3, <1>u DEF SendFails, Return, TypeOK
<1>4. CASE Send(c)
  <2>1. Append(stdin.queue, call[c].id) \in Seq(Nat)
    BY Parts, AppendOf
  <2>2. stdin' \in Stdins
    BY <1>4, <2>1, Records DEF Send, TypeOK
  <2> QED BY <1>4, <1>u, <2>2 DEF Send, TypeOK
<1>5. CASE Receive(c)
  <2>1. Tail(lines.queue) \in Seq(Lines)
    BY <1>5, Parts, TailOf DEF Receive
  <2>2. lines' \in Channels
    BY <1>5, <2>1, Records DEF Receive, TypeOK
  <2> QED BY <1>5, <1>u, <2>2 DEF Receive, Return, TypeOK
<1>6. CASE ReceiveClosed(c)  BY <1>6, <1>u DEF ReceiveClosed, Return, TypeOK
<1>7. CASE CtxDone(c)  BY <1>7, <1>u DEF CtxDone, Return, ClosedByAbandoned, TypeOK
<1> QED BY <1>1, <1>2, <1>3, <1>4, <1>5, <1>6, <1>7

(* The reader keeps the types. *)
LEMMA ReaderTypes ==
  ASSUME TypeOK, ReadLine \/ PushLine \/ ReadFails
  PROVE  TypeOK'
<1>p. USE DEF callVars, pipeVars, readVars, closeVars
<1>1. CASE ReadLine
  <2>1. Head(stdout.pipe) \in Lines /\ Tail(stdout.pipe) \in Seq(Lines)
    BY <1>1, Parts, TailOf DEF ReadLine, CanRead
  <2>2. stdout' \in Stdouts
    BY <1>1, <2>1, Records DEF ReadLine, TypeOK
  <2>3. reader' \in Readers
    BY <1>1, <2>1 DEF ReadLine, Readers
  <2> QED BY <1>1, <2>2, <2>3 DEF ReadLine, TypeOK
<1>2. CASE PushLine
  <2>1. Append(lines.queue, reader.line) \in Seq(Lines)
    BY <1>2, Parts, AppendOf DEF PushLine
  <2>2. lines' \in Channels
    BY <1>2, <2>1, Records DEF PushLine, TypeOK
  <2>3. reader' \in Readers
    BY <1>2 DEF PushLine, Readers
  <2> QED BY <1>2, <2>2, <2>3 DEF PushLine, TypeOK
<1>3. CASE ReadFails
  <2>1. reader' \in Readers
    BY <1>3 DEF ReadFails, Readers, TypeOK
  <2>2. lines' \in Channels
    BY <1>3 DEF ReadFails, OpenAfterEOF, Channels, TypeOK
  <2> QED BY <1>3, <2>1, <2>2 DEF ReadFails, TypeOK
<1> QED BY <1>1, <1>2, <1>3

(* The worker keeps the types. *)
LEMMA WorkerTypes ==
  ASSUME TypeOK, TakeRequest \/ EmitSignal \/ Reply \/ EndOfInput \/ Wedge \/ Die
  PROVE  TypeOK'
<1>p. USE DEF callVars, pipeVars, readVars, closeVars
<1>1. ASSUME NEW kind \in {"signal", "response", "torn"}, Output(kind)
      PROVE  stdout' \in Stdouts
  <2>1. [kind |-> kind, id |-> worker.id] \in Lines
    BY Parts, Records
  <2>2. Append(stdout.pipe, [kind |-> kind, id |-> worker.id]) \in Seq(Lines)
    BY <2>1, Parts, AppendOf
  <2> QED BY <1>1, <2>2, Records DEF Output, TypeOK
<1>2. CASE TakeRequest
  <2>1. Head(stdin.queue) \in Nat /\ Tail(stdin.queue) \in Seq(Nat)
    BY <1>2, Parts, TailOf DEF TakeRequest
  <2>2. 0..MaxSignals \subseteq Nat
    BY CapsAssumption
  <2>3. worker' \in Workers
    BY <1>2, <2>1, <2>2, Records DEF TakeRequest
  <2>4. stdin' \in Stdins
    BY <1>2, <2>1, Records DEF TakeRequest, TypeOK
  <2> QED BY <1>2, <2>3, <2>4 DEF TakeRequest, TypeOK
<1>3. CASE EmitSignal
  <2>1. worker.left - 1 \in Nat
    BY <1>3, Parts DEF EmitSignal
  <2>2. worker' \in Workers
    BY <1>3, <2>1, Records DEF EmitSignal, TypeOK
  <2>3. stdout' \in Stdouts
    BY <1>3, <1>1 DEF EmitSignal, TypeOK
  <2> QED BY <1>3, <2>2, <2>3 DEF EmitSignal, TypeOK
<1>4. CASE Reply
  <2>1. worker' \in Workers
    BY <1>4, Records DEF Reply, TypeOK
  <2>2. stdout' \in Stdouts
    BY <1>4, <1>1 DEF Reply, TypeOK
  <2> QED BY <1>4, <2>1, <2>2 DEF Reply, TypeOK
<1>5. CASE EndOfInput  BY <1>5, Records DEF EndOfInput, TypeOK
<1>6. CASE Wedge  BY <1>6, Records DEF Wedge, TypeOK
<1>7. CASE Die
  <2>1. worker' \in Workers
    BY <1>7, Records DEF Die, TypeOK
  <2>2. stdout' \in Stdouts
    BY <1>7, <1>1 DEF Die, TypeOK
  <2> QED BY <1>7, <2>1, <2>2 DEF Die, TypeOK
<1> QED BY <1>2, <1>3, <1>4, <1>5, <1>6, <1>7

(* Close keeps the types. *)
LEMMA CloseTypes ==
  ASSUME TypeOK,
         \/ CloseCalled \/ Shutdown \/ CloseAgain \/ WaitLands \/ Drain \/ TakeWait
         \/ KillWorker \/ ReapElapses \/ DrainTail
  PROVE  TypeOK'
<1>p. USE DEF callVars, pipeVars, readVars, closeVars
<1>1. CASE CloseCalled  BY <1>1, Records DEF CloseCalled, TypeOK
<1>2. CASE Shutdown
  <2>1. stdin' \in Stdins
    BY <1>2 DEF Shutdown, Stdins, TypeOK
  <2> QED BY <1>2, <2>1, Records DEF Shutdown, Waits, TypeOK
<1>3. CASE CloseAgain
  <2>1. closer' \in Closers /\ wait' \in Waits
    BY <1>3, Records DEF CloseAgain, Waits, TypeOK
  <2>2. closeErr' \in Errs /\ ifReaped' \in Verdicts
    BY <1>3 DEF CloseAgain, Revised, Errs, Verdicts, TypeOK
  <2> QED BY <1>3, <2>1, <2>2 DEF CloseAgain, TypeOK
<1>4. CASE WaitLands
  <2>1. stdout' \in Stdouts
    BY <1>4 DEF WaitLands, Stdouts, TypeOK
  <2> QED BY <1>4, <2>1 DEF WaitLands, Waits, TypeOK
<1>5. CASE Drain
  <2>1. Tail(lines.queue) \in Seq(Lines)
    BY <1>5, Parts, TailOf DEF Drain, Drains
  <2>2. lines' \in Channels
    BY <1>5, <2>1, Records DEF Drain, TypeOK
  <2> QED BY <1>5, <2>2 DEF Drain, TypeOK
<1>6. CASE TakeWait  BY <1>6, Records DEF TakeWait, Waits, TypeOK
<1>7. CASE KillWorker
  <2>1. closer' \in Closers
    BY <1>7 DEF KillWorker, Closers, Closing, Tells
  <2>2. worker' \in Workers
    BY <1>7, Records DEF KillWorker, TypeOK
  <2> QED BY <1>7, <2>1, <2>2 DEF KillWorker, TypeOK
<1>8. CASE ReapElapses
  <2>1. closer' \in Closers
    BY <1>8, Parts DEF ReapElapses, Closers, Closing, Tells
  <2> QED BY <1>8, <2>1 DEF ReapElapses, TypeOK
<1>9. CASE DrainTail
  <2>1. PICK told \in {closer.told, closer.told \cup {"still reading"}} : Finish(told)
    BY <1>9 DEF DrainTail
  <2>2. told \in SUBSET Tells /\ told \ {"unreaped"} \in SUBSET Tells
    BY <2>1, Parts DEF Tells
  <2>3. closer' \in Closers
    BY <2>1, <2>2 DEF Finish, Closers
  <2>4. closeErr' \in Errs /\ ifReaped' \in Verdicts
    BY <2>1, <2>2 DEF Finish, Errs, Verdicts
  <2> QED BY <1>9, <2>1, <2>3, <2>4 DEF DrainTail, Finish, TypeOK
<1> QED BY <1>1, <1>2, <1>3, <1>4, <1>5, <1>6, <1>7, <1>8, <1>9

-----------------------------------------------------------------------------
(* Reading an updated record. *)
LEMMA Updates ==
  /\ \A r \in CallRecs : \A p : [r EXCEPT !.pc = p].pc = p /\ [r EXCEPT !.pc = p].id = r.id
  /\ \A r \in Stdins : \A q : [r EXCEPT !.queue = q].queue = q /\ [r EXCEPT !.queue = q].open = r.open
  /\ \A r \in Stdins : \A o : [r EXCEPT !.open = o].open = o /\ [r EXCEPT !.open = o].queue = r.queue
  /\ \A r \in Stdouts : \A q : [r EXCEPT !.pipe = q].pipe = q /\ [r EXCEPT !.pipe = q].open = r.open
  /\ \A r \in Stdouts : \A o : [r EXCEPT !.open = o].open = o /\ [r EXCEPT !.open = o].pipe = r.pipe
  /\ \A r \in Channels : \A q : [r EXCEPT !.queue = q].queue = q /\ [r EXCEPT !.queue = q].open = r.open
  /\ \A r \in Channels : \A o : [r EXCEPT !.open = o].open = o /\ [r EXCEPT !.open = o].queue = r.queue
  /\ \A r \in Workers : \A p : [r EXCEPT !.pc = p].pc = p /\ [r EXCEPT !.pc = p].id = r.id
  /\ \A r \in Workers : \A n : [r EXCEPT !.left = n].pc = r.pc /\ [r EXCEPT !.left = n].id = r.id
  /\ \A r \in Readers : \A p : [r EXCEPT !.pc = p].pc = p
  /\ \A r \in Closers : \A p : [r EXCEPT !.pc = p].pc = p /\ [r EXCEPT !.pc = p].told = r.told
<1>1. \A r \in CallRecs : \A p : [r EXCEPT !.pc = p].pc = p /\ [r EXCEPT !.pc = p].id = r.id
  BY DEF CallRecs
<1>2. \A r \in Stdins : \A q : [r EXCEPT !.queue = q].queue = q /\ [r EXCEPT !.queue = q].open = r.open
  BY DEF Stdins
<1>3. \A r \in Stdins : \A o : [r EXCEPT !.open = o].open = o /\ [r EXCEPT !.open = o].queue = r.queue
  BY DEF Stdins
<1>4. \A r \in Stdouts : \A q : [r EXCEPT !.pipe = q].pipe = q /\ [r EXCEPT !.pipe = q].open = r.open
  BY DEF Stdouts
<1>5. \A r \in Stdouts : \A o : [r EXCEPT !.open = o].open = o /\ [r EXCEPT !.open = o].pipe = r.pipe
  BY DEF Stdouts
<1>6. \A r \in Channels : \A q : [r EXCEPT !.queue = q].queue = q /\ [r EXCEPT !.queue = q].open = r.open
  BY DEF Channels
<1>7. \A r \in Channels : \A o : [r EXCEPT !.open = o].open = o /\ [r EXCEPT !.open = o].queue = r.queue
  BY DEF Channels
<1>8. \A r \in Workers : \A p : [r EXCEPT !.pc = p].pc = p /\ [r EXCEPT !.pc = p].id = r.id
  BY DEF Workers
<1>9. \A r \in Workers : \A n : [r EXCEPT !.left = n].pc = r.pc /\ [r EXCEPT !.left = n].id = r.id
  BY DEF Workers
<1>10. \A r \in Readers : \A p : [r EXCEPT !.pc = p].pc = p
  BY DEF Readers
<1>11. \A r \in Closers : \A p : [r EXCEPT !.pc = p].pc = p /\ [r EXCEPT !.pc = p].told = r.told
  BY DEF Closers
<1> QED BY <1>1, <1>2, <1>3, <1>4, <1>5, <1>6, <1>7, <1>8, <1>9, <1>10, <1>11

(* What an action of a Call does to that Call, and leaves of the others. *)
LEMMA CallStep ==
  ASSUME TypeOK, NEW c \in Callers
  PROVE  /\ \A p : call' = [call EXCEPT ![c].pc = p] =>
               /\ call'[c].pc = p /\ call'[c].id = call[c].id
               /\ \A d \in Callers \ {c} : call'[d] = call[d]
         /\ \A r : call' = [call EXCEPT ![c] = r] =>
               call'[c] = r /\ \A d \in Callers \ {c} : call'[d] = call[d]
<1>1. ASSUME NEW p, call' = [call EXCEPT ![c].pc = p]
      PROVE  /\ call'[c].pc = p /\ call'[c].id = call[c].id
             /\ \A d \in Callers \ {c} : call'[d] = call[d]
  <2>1. call'[c] = [call[c] EXCEPT !.pc = p] /\ \A d \in Callers \ {c} : call'[d] = call[d]
    BY <1>1 DEF TypeOK
  <2>2. call[c] \in CallRecs
    BY DEF TypeOK
  <2> QED BY <2>1, <2>2, Updates
<1>2. ASSUME NEW r, call' = [call EXCEPT ![c] = r]
      PROVE  call'[c] = r /\ \A d \in Callers \ {c} : call'[d] = call[d]
  BY <1>2 DEF TypeOK
<1> QED BY <1>1, <1>2

(* The mutex, the pipes and what Close tells depend on the state's         *)
(* control alone.                                                          *)
Control == TypeOK /\ Mutex /\ Pipes /\ Verdict

(* A Call keeps them. *)
LEMMA CallControl ==
  ASSUME Control, NEW c \in Callers,
         Want(c) \/ Enter(c) \/ SendFails(c) \/ Send(c) \/ Receive(c) \/ ReceiveClosed(c) \/ CtxDone(c)
  PROVE  Mutex' /\ Pipes' /\ Verdict'
<1>p. USE DEF callVars, pipeVars, readVars, closeVars
<1>t. TypeOK /\ Mutex /\ Pipes /\ Verdict
  BY DEF Control
<1>n. Closer \notin Callers /\ Nobody \notin Callers /\ Nobody # Closer
  BY CapsAssumption
<1>1. Mutex'
  <2>1. CASE Want(c)  BY <2>1, <1>t, CallStep DEF Want, Mutex
  <2>2. CASE Enter(c)
    <3>1. CASE closed  BY <2>2, <3>1, <1>t, <1>n, CallStep DEF Enter, Mutex
    <3>2. CASE ~ closed
      <4>1. mu' = c /\ call'[c].pc = "write" /\ (\A d \in Callers \ {c} : call'[d] = call[d])
        BY <2>2, <3>2, <1>t, CallStep DEF Enter
      <4> QED BY <2>2, <3>2, <4>1, <1>t, <1>n DEF Enter, Mutex
    <3> QED BY <3>1, <3>2
  <2>3. ASSUME Return(c), mu = c, closer' = closer
        PROVE  Mutex'
    <3>1. mu' = Nobody /\ call'[c].pc = "idle" /\ (\A d \in Callers \ {c} : call'[d] = call[d])
      BY <2>3, <1>t, CallStep DEF Return
    <3> QED BY <2>3, <3>1, <1>t, <1>n DEF Mutex
  <2>4. CASE SendFails(c)  BY <2>4, <2>3, <1>t DEF SendFails, Mutex
  <2>5. CASE Send(c)  BY <2>5, <1>t, CallStep DEF Send, Mutex
  <2>6. CASE Receive(c)
    <3>1. CASE Head(lines.queue).kind = "signal"  BY <2>6, <3>1, <1>t DEF Receive, Mutex
    <3>2. CASE Head(lines.queue).kind # "signal"  BY <2>6, <3>2, <2>3, <1>t DEF Receive, Mutex
    <3> QED BY <3>1, <3>2
  <2>7. CASE ReceiveClosed(c)  BY <2>7, <2>3, <1>t DEF ReceiveClosed, Mutex
  <2>8. CASE CtxDone(c)  BY <2>8, <2>3, <1>t DEF CtxDone, Mutex
  <2> QED BY <2>1, <2>2, <2>4, <2>5, <2>6, <2>7, <2>8
<1>2. /\ UNCHANGED <<wait, closer, closeErr, ifReaped, stdout, worker, reader>>
      /\ stdin'.open = stdin.open /\ lines'.open = lines.open /\ (closed => closed')
  <2>1. CASE Send(c)  BY <2>1, <1>t, Updates DEF Send, TypeOK
  <2>2. CASE Receive(c)  BY <2>2, <1>t, Updates DEF Receive, TypeOK
  <2>3. CASE ~ Send(c) /\ ~ Receive(c)
    BY <2>3 DEF Want, Enter, SendFails, ReceiveClosed, CtxDone, ClosedByAbandoned
  <2> QED BY <2>1, <2>2, <2>3
<1>3. Pipes'
  BY <1>2, <1>t DEF Pipes
<1>4. Verdict'
  BY <1>2, <1>t DEF Verdict
<1> QED BY <1>1, <1>3, <1>4

(* The reader keeps them. *)
LEMMA ReaderControl ==
  ASSUME Control, ReadLine \/ PushLine \/ ReadFails
  PROVE  Mutex' /\ Pipes' /\ Verdict'
<1>p. USE DEF callVars, pipeVars, readVars, closeVars
<1>t. TypeOK /\ Mutex /\ Pipes /\ Verdict
  BY DEF Control
<1>1. Mutex'
  BY <1>t DEF ReadLine, PushLine, ReadFails, Mutex
<1>2. Verdict'
  BY <1>t, Updates DEF ReadLine, PushLine, ReadFails, Verdict, TypeOK
<1>3. CASE ReadLine
  <2>1. stdout'.open = stdout.open /\ reader'.pc = "send"
    BY <1>3, <1>t, Updates DEF ReadLine, TypeOK
  <2> QED BY <1>1, <1>2, <1>3, <2>1, <1>t DEF ReadLine, Pipes
<1>4. CASE PushLine
  <2>1. lines'.open = lines.open /\ reader'.pc = "read"
    BY <1>4, <1>t, Updates DEF PushLine, TypeOK
  <2> QED BY <1>1, <1>2, <1>4, <2>1, <1>t DEF PushLine, Pipes
<1>5. CASE ReadFails
  <2>1. lines'.open = FALSE /\ reader'.pc = "done"
    BY <1>5, <1>t, Updates DEF ReadFails, OpenAfterEOF, TypeOK
  <2> QED BY <1>1, <1>2, <1>5, <2>1, <1>t DEF ReadFails, AtEOF, Pipes
<1> QED BY <1>3, <1>4, <1>5

(* The worker keeps them: it writes only while its output is open, and one *)
(* that has exited stays so.                                               *)
LEMMA WorkerControl ==
  ASSUME Control, TakeRequest \/ EmitSignal \/ Reply \/ EndOfInput \/ Wedge \/ Die
  PROVE  Mutex' /\ Pipes' /\ Verdict'
<1>p. USE DEF callVars, pipeVars, readVars, closeVars
<1>t. TypeOK /\ Mutex /\ Pipes /\ Verdict
  BY DEF Control
<1>0. UNCHANGED <<mu, call, closed, reader, lines, closer, wait, closeErr, ifReaped>>
  BY DEF TakeRequest, EmitSignal, Reply, EndOfInput, Wedge, Die
<1>1. Mutex'
  BY <1>0, <1>t DEF Mutex
<1>2. Verdict'
  BY <1>0, <1>t DEF Verdict
<1>3. worker.pc # "exited"
  BY DEF TakeRequest, EmitSignal, Reply, EndOfInput, Wedge, Die
<1>4. stdin'.open = stdin.open /\ stdout'.open = stdout.open
  <2>1. CASE TakeRequest  BY <2>1, <1>t, Updates DEF TakeRequest, TypeOK
  <2>2. CASE ~ TakeRequest
    <3>1. stdin' = stdin
      BY <2>2 DEF EmitSignal, Reply, EndOfInput, Wedge, Die
    <3>2. stdout' = stdout \/ \E q : stdout' = [stdout EXCEPT !.pipe = q]
      BY <2>2 DEF EmitSignal, Reply, EndOfInput, Wedge, Die, Output
    <3>3. ASSUME NEW q, stdout' = [stdout EXCEPT !.pipe = q]
          PROVE  stdout'.open = stdout.open
      <4>1. stdout \in Stdouts
        BY <1>t DEF TypeOK
      <4> QED BY <3>3, <4>1, Updates
    <3> QED BY <3>1, <3>2, <3>3
  <2> QED BY <2>1, <2>2
<1>5. stdout.open /\ reader.pc # "done"
  BY <1>3, <1>t DEF Pipes
<1> QED BY <1>0, <1>1, <1>2, <1>4, <1>5, <1>t DEF Pipes

(* Close keeps them: the first call holds the mutex from shutdown to its   *)
(* verdict, and a later one takes back "unreaped" with the reap itself.    *)
LEMMA CloseControl ==
  ASSUME Control,
         \/ CloseCalled \/ Shutdown \/ CloseAgain \/ WaitLands \/ Drain \/ TakeWait
         \/ KillWorker \/ ReapElapses \/ DrainTail
  PROVE  Mutex' /\ Pipes' /\ Verdict'
<1>p. USE DEF callVars, pipeVars, readVars, closeVars
<1>t. TypeOK /\ Mutex /\ Pipes /\ Verdict
  BY DEF Control
<1>n. Closer \notin Callers /\ Nobody \notin Callers /\ Nobody # Closer
  BY CapsAssumption
<1>c. \A p : closer' = [closer EXCEPT !.pc = p] => closer'.pc = p /\ closer'.told = closer.told
  BY <1>t, Updates DEF TypeOK
<1>1. CASE CloseCalled
  <2>1. closer'.pc = "lock" /\ closer'.told = closer.told
    BY <1>1, <1>c DEF CloseCalled
  <2> QED BY <1>1, <2>1, <1>t DEF CloseCalled, Mutex, Pipes, Verdict, Closing
<1>2. CASE Shutdown
  <2>1. closer'.pc = "select" /\ closer'.told = closer.told
    BY <1>2, <1>c DEF Shutdown
  <2>2. ~ stdin'.open
    BY <1>2, <1>t, Updates DEF Shutdown, TypeOK
  <2>3. closer.told = {} /\ wait = "none"
    BY <1>2, <1>t DEF Shutdown, Verdict, Closing
  <2>4. Mutex'
    BY <1>2, <2>1, <1>t, <1>n DEF Shutdown, Mutex, Closing
  <2>5. Pipes'
    BY <1>2, <2>1, <2>2, <2>3, <1>t DEF Shutdown, Pipes, Closing
  <2> QED BY <1>2, <2>1, <2>3, <2>4, <2>5 DEF Shutdown, Verdict, Closing
<1>3. CASE CloseAgain
  <2>1. closer'.pc = "idle" /\ closer'.told = closer.told
    BY <1>3, <1>c DEF CloseAgain
  <2>2. Mutex'
    BY <1>3, <2>1, <1>t DEF CloseAgain, Mutex, Closing
  <2>3. CASE ifReaped # NoVerdict /\ wait = "landed"
    <3>1. /\ closeErr' = closeErr \ {"unreaped"} /\ ifReaped' = NoVerdict /\ wait' = "taken"
          /\ UNCHANGED <<stdin, stdout, worker, lines, reader, closed>>
      BY <1>3, <2>3, <1>t DEF CloseAgain, Revised, Verdict
    <3>2. closeErr # NotRun /\ closeErr \in SUBSET Tells
      BY <1>3, <1>t DEF CloseAgain, TypeOK, Errs
    <3>3. closeErr' # NotRun
      BY <3>1, <3>2 DEF NotRun, Tells
    <3>4. Pipes'
      BY <3>1, <2>3, <1>t DEF Pipes
    <3>5. Verdict'
      BY <3>1, <3>2, <3>3, <2>1, <1>t DEF Verdict, Closing
    <3> QED BY <2>2, <3>4, <3>5
  <2>4. CASE ~ (ifReaped # NoVerdict /\ wait = "landed")
    <3>1. UNCHANGED <<closeErr, ifReaped, wait, stdin, stdout, worker, lines, reader, closed>>
      BY <1>3, <2>4 DEF CloseAgain
    <3>2. closeErr # NotRun
      BY <1>3 DEF CloseAgain
    <3>3. Pipes'
      BY <3>1, <2>1, <1>t DEF Pipes, Closing
    <3>4. Verdict'
      BY <3>1, <3>2, <2>1, <1>t DEF Verdict, Closing
    <3> QED BY <2>2, <3>3, <3>4
  <2> QED BY <2>3, <2>4
<1>4. CASE WaitLands
  <2>1. ~ stdout'.open
    BY <1>4, <1>t, Updates DEF WaitLands, TypeOK
  <2> QED BY <1>4, <2>1, <1>t DEF WaitLands, Mutex, Pipes, Verdict
<1>5. CASE Drain
  <2>1. lines'.open = lines.open
    BY <1>5, <1>t, Updates DEF Drain, TypeOK
  <2> QED BY <1>5, <2>1, <1>t DEF Drain, Mutex, Pipes, Verdict
<1>6. CASE TakeWait
  <2>1. closer'.pc = "tail" /\ closer'.told = closer.told
    BY <1>6, <1>c DEF TakeWait
  <2>2. /\ closer.pc \in {"select", "reap"} /\ wait = "landed" /\ wait' = "taken"
        /\ UNCHANGED <<mu, call, closed, stdin, stdout, worker, lines, reader, closeErr, ifReaped>>
    BY <1>6 DEF TakeWait
  <2>3. Mutex'
    BY <2>1, <2>2, <1>t DEF Mutex, Closing
  <2>4. Pipes'
    BY <2>1, <2>2, <1>t DEF Pipes, Closing
  <2>5. closer'.told \in {{}, {"not exited"}} /\ closeErr' = NotRun
    BY <2>1, <2>2, <1>t DEF Verdict, Closing
  <2>6. Verdict'
    BY <2>1, <2>2, <2>5 DEF Verdict, Closing
  <2> QED BY <2>3, <2>4, <2>6
<1>7. CASE KillWorker
  <2>1. worker'.pc \in {worker.pc, "exited"}
    <3>1. worker \in Workers
      BY <1>t DEF TypeOK
    <3>2. worker' = worker \/ worker' = [worker EXCEPT !.pc = "exited"]
      BY <1>7 DEF KillWorker
    <3> QED BY <3>1, <3>2 DEF Workers
  <2>2. /\ closer'.pc = "reap" /\ closer'.told = {"not exited"} /\ closer.pc = "select" /\ wait = "running"
        /\ UNCHANGED <<mu, call, closed, stdin, stdout, lines, reader, wait, closeErr, ifReaped>>
    BY <1>7 DEF KillWorker
  <2>3. Mutex' /\ Verdict'
    BY <2>2, <1>t DEF Mutex, Verdict, Closing
  <2> QED BY <2>1, <2>2, <2>3, <1>t DEF Pipes, Closing
<1>8. CASE ReapElapses
  <2>1. /\ closer'.pc = "tail" /\ closer'.told = {"not exited", "unreaped"}
        /\ closer.pc = "reap" /\ wait = "running"
        /\ UNCHANGED <<mu, call, closed, stdin, stdout, worker, lines, reader, wait, closeErr, ifReaped>>
    BY <1>8, <1>t DEF ReapElapses, Verdict
  <2> QED BY <2>1, <1>t DEF Mutex, Pipes, Verdict, Closing
<1>9. CASE DrainTail
  <2>1. PICK told \in {closer.told, closer.told \cup {"still reading"}} :
            Finish(told) /\ ("still reading" \notin told => ~ lines.open)
    BY <1>9 DEF DrainTail
  <2>2. /\ closer'.pc = "idle" /\ closer'.told = told /\ closeErr' = told /\ closer.pc = "tail"
        /\ ifReaped' = IF "unreaped" \in told THEN told \ {"unreaped"} ELSE NoVerdict
        /\ mu' = Nobody
        /\ UNCHANGED <<call, closed, stdin, stdout, worker, lines, reader, wait>>
    BY <1>9, <2>1 DEF DrainTail, Finish
  <2>3. told # NotRun
    BY <2>1, <1>t, Parts DEF NotRun, Tells
  <2>4. mu = Closer
    BY <2>2, <1>t DEF Mutex, Closing
  <2>5. Mutex'
    BY <2>2, <2>4, <1>t, <1>n DEF Mutex, Closing
  <2>6. Pipes'
    BY <2>2, <1>t DEF Pipes, Closing
  <2>7. Verdict'
    BY <2>1, <2>2, <2>3, <1>t DEF Verdict, Pipes, Closing
  <2> QED BY <2>5, <2>6, <2>7
<1> QED BY <1>1, <1>2, <1>3, <1>4, <1>5, <1>6, <1>7, <1>8, <1>9

-----------------------------------------------------------------------------
(* The lines of a request stay in order as they move towards the Call. *)
LEMMA NoLinesAre ==
  ASSUME NEW q, NEW r, NEW p, NEW i, NoLines(q, r, p)
  PROVE  LinesOf(q, r, p, i) /\ OnlySignals(q, r, p)
  BY DEF NoLines, LinesOf, OnlySignals

LEMMA LineReceived ==
  ASSUME NEW q \in Seq(Lines), NEW r, NEW p \in Seq(Lines), NEW i, q # <<>>
  PROVE  /\ LinesOf(q, r, p, i) => /\ LinesOf(Tail(q), r, p, i)
                                   /\ ~ IsSignal(Head(q)) => NoLines(Tail(q), r, p)
         /\ OnlySignals(q, r, p) => IsSignal(Head(q)) /\ OnlySignals(Tail(q), r, p)
<1>1. /\ Len(q) \in Nat /\ Len(q) >= 1 /\ Head(q) = q[1] /\ Len(Tail(q)) = Len(q) - 1
      /\ \A k \in 1..Len(Tail(q)) : Tail(q)[k] = q[k + 1] /\ k + 1 \in 1..Len(q)
      /\ Len(q) = 1 => Tail(q) = <<>>
  BY TailOf
<1>2. 1 \in 1..Len(q)
  BY <1>1
<1>3. ASSUME LinesOf(q, r, p, i)
      PROVE  LinesOf(Tail(q), r, p, i)
  <2>1. ASSUME NEW k \in 1..Len(Tail(q))
        PROVE  /\ Tail(q)[k].id = i
               /\ IsSignal(Tail(q)[k]) \/ (k = Len(Tail(q)) /\ r.pc # "send" /\ p = <<>>)
    <3>1. Tail(q)[k] = q[k + 1] /\ k + 1 \in 1..Len(q) /\ (k + 1 = Len(q) => k = Len(Tail(q)))
      BY <1>1
    <3>2. /\ q[k + 1].id = i
          /\ IsSignal(q[k + 1]) \/ (k + 1 = Len(q) /\ r.pc # "send" /\ p = <<>>)
      BY <3>1, <1>3 DEF LinesOf
    <3> QED BY <3>1, <3>2
  <2> QED BY <1>3, <2>1 DEF LinesOf
<1>4. ASSUME LinesOf(q, r, p, i), ~ IsSignal(Head(q))
      PROVE  NoLines(Tail(q), r, p)
  BY <1>1, <1>2, <1>4 DEF LinesOf, NoLines
<1>5. ASSUME OnlySignals(q, r, p)
      PROVE  IsSignal(Head(q)) /\ OnlySignals(Tail(q), r, p)
  BY <1>1, <1>2, <1>5 DEF OnlySignals
<1> QED BY <1>3, <1>4, <1>5

LEMMA LineRead ==
  ASSUME NEW q \in Seq(Lines), NEW r, NEW p \in Seq(Lines), NEW i, NEW s, p # <<>>,
         s.pc = "send", s.line = Head(p)
  PROVE  /\ LinesOf(q, r, p, i) => LinesOf(q, s, Tail(p), i)
         /\ OnlySignals(q, r, p) => OnlySignals(q, s, Tail(p))
<1>1. /\ Len(p) \in Nat /\ Len(p) >= 1 /\ Head(p) = p[1] /\ Len(Tail(p)) = Len(p) - 1
      /\ \A k \in 1..Len(Tail(p)) : Tail(p)[k] = p[k + 1] /\ k + 1 \in 1..Len(p)
      /\ Len(p) = 1 => Tail(p) = <<>>
  BY TailOf
<1>2. 1 \in 1..Len(p)
  BY <1>1
<1>3. ASSUME LinesOf(q, r, p, i)
      PROVE  LinesOf(q, s, Tail(p), i)
  <2>1. \A k \in 1..Len(q) : q[k].id = i /\ IsSignal(q[k])
    BY <1>3 DEF LinesOf
  <2>2. s.line.id = i /\ (IsSignal(s.line) \/ Tail(p) = <<>>)
    BY <1>1, <1>2, <1>3 DEF LinesOf
  <2>3. ASSUME NEW k \in 1..Len(Tail(p))
        PROVE  Tail(p)[k].id = i /\ (IsSignal(Tail(p)[k]) \/ k = Len(Tail(p)))
    BY <1>1, <1>3 DEF LinesOf
  <2> QED BY <2>1, <2>2, <2>3 DEF LinesOf
<1>4. ASSUME OnlySignals(q, r, p)
      PROVE  OnlySignals(q, s, Tail(p))
  BY <1>1, <1>2, <1>4 DEF OnlySignals
<1> QED BY <1>3, <1>4

LEMMA LinePushed ==
  ASSUME NEW q \in Seq(Lines), NEW r, NEW p \in Seq(Lines), NEW i, NEW s,
         r.pc = "send", r.line \in Lines, s.pc # "send"
  PROVE  /\ LinesOf(q, r, p, i) => LinesOf(Append(q, r.line), s, p, i)
         /\ OnlySignals(q, r, p) => OnlySignals(Append(q, r.line), s, p)
<1>d. DEFINE a == Append(q, r.line)
<1>1. /\ Len(q) \in Nat /\ Len(a) = Len(q) + 1 /\ a[Len(q) + 1] = r.line
      /\ \A k \in 1..Len(q) : a[k] = q[k]
  BY AppendOf
<1>h. HIDE DEF a
<1>2. \A k \in 1..Len(a) : k \in 1..Len(q) \/ (k = Len(q) + 1 /\ k = Len(a))
  BY <1>1
<1>3. ASSUME LinesOf(q, r, p, i)
      PROVE  LinesOf(a, s, p, i)
  <2>1. \A k \in 1..Len(q) : q[k].id = i /\ IsSignal(q[k])
    BY <1>3 DEF LinesOf
  <2>2. r.line.id = i /\ (IsSignal(r.line) \/ p = <<>>)
    BY <1>3 DEF LinesOf
  <2>3. \A k \in 1..Len(a) : a[k].id = i /\ (IsSignal(a[k]) \/ (k = Len(a) /\ p = <<>>))
    BY <1>1, <1>2, <2>1, <2>2
  <2> QED BY <1>3, <2>3 DEF LinesOf
<1>4. ASSUME OnlySignals(q, r, p)
      PROVE  OnlySignals(a, s, p)
  BY <1>1, <1>2, <1>4 DEF OnlySignals
<1> QED BY <1>3, <1>4 DEF a

LEMMA LineWritten ==
  ASSUME NEW q \in Seq(Lines), NEW r, NEW p \in Seq(Lines), NEW i, NEW line \in Lines,
         LinesOf(q, r, p, i), OnlySignals(q, r, p), line.id = i
  PROVE  /\ LinesOf(q, r, Append(p, line), i)
         /\ IsSignal(line) => OnlySignals(q, r, Append(p, line))
<1>d. DEFINE a == Append(p, line)
<1>1. /\ Len(p) \in Nat /\ Len(a) = Len(p) + 1 /\ a[Len(p) + 1] = line
      /\ \A k \in 1..Len(p) : a[k] = p[k]
  BY AppendOf
<1>h. HIDE DEF a
<1>2. \A k \in 1..Len(a) : k \in 1..Len(p) \/ (k = Len(p) + 1 /\ k = Len(a))
  BY <1>1
<1>3. LinesOf(q, r, a, i)
  <2>1. \A k \in 1..Len(a) : a[k].id = i /\ (IsSignal(a[k]) \/ k = Len(a))
    BY <1>1, <1>2 DEF LinesOf, OnlySignals
  <2> QED BY <2>1 DEF LinesOf, OnlySignals
<1>4. IsSignal(line) => OnlySignals(q, r, a)
  BY <1>1, <1>2 DEF OnlySignals
<1> QED BY <1>3, <1>4 DEF a

-----------------------------------------------------------------------------
(* At most one Call waits, so one that is served is enough; and when the   *)
(* calls stay as they are, whoever waits must still be served.             *)
LEMMA OneWaits ==
  ASSUME Mutex', NEW c \in Callers, call'[c].pc = "wait", Serves(c)'
  PROVE  InStep'
  BY DEF Mutex, InStep

LEMMA NoneWaits ==
  ASSUME \A c \in Callers : call'[c].pc # "wait", Still'
  PROVE  InStep'
  BY DEF InStep

LEMMA CallsStay ==
  ASSUME InStep, ~ closed, UNCHANGED <<call, closed>>, Still => Still',
         \A c \in Callers : call[c].pc = "wait" /\ Serves(c) => Serves(c)'
  PROVE  InStep'
<1>1. ASSUME NEW c \in Callers, call'[c].pc = "wait"
      PROVE  Serves(c)'
  BY <1>1 DEF InStep
<1>2. (\A c \in Callers : call'[c].pc # "wait") => Still'
  BY DEF InStep
<1> QED BY <1>1, <1>2 DEF InStep

(* A Call keeps its own and everyone's lines in step: it sends into        *)
(* stillness, and leaves stillness when it returns, or a closed transport. *)
LEMMA CallInStep ==
  ASSUME Inv, TypeOK', Mutex', NEW c \in Callers,
         Want(c) \/ Enter(c) \/ SendFails(c) \/ Send(c) \/ Receive(c) \/ ReceiveClosed(c) \/ CtxDone(c)
  PROVE  InStep'
<1>p. USE DEF callVars, pipeVars, readVars, closeVars
<1>t. TypeOK /\ Mutex /\ Pipes /\ InStep
  BY DEF Inv
<1>q. lines.queue \in Seq(Lines) /\ stdout.pipe \in Seq(Lines) /\ stdin.queue \in Seq(Nat)
  BY <1>t, Parts
<1>1. ASSUME UNCHANGED <<closed, pipeVars, readVars>>,
             call[c].pc # "wait", call'[c].pc # "wait", \A d \in Callers \ {c} : call'[d] = call[d]
      PROVE  InStep'
  <2>1. ASSUME NEW d \in Callers, call'[d].pc = "wait"
        PROVE  Serves(d)'
    <3>1. d # c /\ call'[d] = call[d]
      BY <1>1, <2>1
    <3>2. Serves(d)
      BY <2>1, <3>1, <1>t DEF InStep
    <3> QED BY <3>1, <3>2, <1>1 DEF Serves
  <2>2. ~ closed' /\ (\A d \in Callers : call'[d].pc # "wait") => Still'
    <3>1. SUFFICES ASSUME ~ closed', \A d \in Callers : call'[d].pc # "wait"
                   PROVE  Still'
      OBVIOUS
    <3>2. Still
      BY <1>1, <3>1, <1>t DEF InStep
    <3> QED BY <1>1, <3>2 DEF Still
  <2> QED BY <2>1, <2>2 DEF InStep
<1>2. CASE Want(c)
  <2>1. call'[c].pc = "lock" /\ \A d \in Callers \ {c} : call'[d] = call[d]
    BY <1>2, <1>t, CallStep DEF Want
  <2> QED BY <1>2, <2>1, <1>1 DEF Want
<1>3. CASE Enter(c)
  <2>1. call'[c].pc \in {"idle", "write"} /\ \A d \in Callers \ {c} : call'[d] = call[d]
    <3>1. CASE closed  BY <1>3, <3>1, <1>t, CallStep DEF Enter
    <3>2. CASE ~ closed
      <4>1. call'[c] = [pc |-> "write", id |-> nextID'] /\ \A d \in Callers \ {c} : call'[d] = call[d]
        BY <1>3, <3>2, <1>t, CallStep DEF Enter
      <4> QED BY <4>1
    <3> QED BY <3>1, <3>2
  <2> QED BY <1>3, <2>1, <1>1 DEF Enter
<1>r. Return(c) => call'[c].pc = "idle" /\ \A d \in Callers \ {c} : call'[d] = call[d]
  BY <1>t, CallStep DEF Return
<1>4. CASE SendFails(c)  BY <1>4, <1>r, <1>1 DEF SendFails
<1>w. call[c].pc \in {"write", "wait"} =>
        mu = c /\ ~ closed /\ \A d \in Callers \ {c} : call[d].pc \notin {"write", "wait"}
  BY <1>t DEF Mutex
<1>5. CASE Send(c)
  <2>1. call'[c].pc = "wait" /\ call'[c].id = call[c].id
    BY <1>5, <1>t, CallStep DEF Send
  <2>2. Still
    BY <1>5, <1>w, <1>t DEF Send, InStep
  <2>3. worker.pc = "read"
    BY <1>5, <2>2 DEF Send, Still
  <2>4. stdin'.queue = <<call[c].id>>
    <3>1. stdin \in Stdins /\ stdin.queue = <<>>
      BY <1>t, <2>2 DEF TypeOK, Still
    <3>2. stdin'.queue = Append(<<>>, call[c].id)
      BY <1>5, <3>1, Updates DEF Send
    <3> QED BY <3>2, AppendFirst
  <2>5. NoLines(lines.queue, reader, stdout.pipe)
    BY <2>2 DEF Still
  <2>6. LinesOf(lines.queue, reader, stdout.pipe, call[c].id)
    BY <2>5, NoLinesAre
  <2>7. Serves(c)'
    BY <1>5, <2>1, <2>3, <2>4, <2>5, <2>6 DEF Send, Serves
  <2> QED BY <2>1, <2>7, OneWaits
<1>s. call[c].pc = "wait" => Serves(c)
  BY <1>t DEF InStep
<1>6. CASE Receive(c)
  <2>1. /\ lines.queue # <<>> /\ lines'.queue = Tail(lines.queue)
        /\ UNCHANGED <<stdin, worker, stdout, reader, closed>>
    BY <1>6, <1>t, Updates DEF Receive, TypeOK
  <2>2. Serves(c)
    BY <1>6, <1>s DEF Receive
  <2>3. stdin.queue = <<>>
    BY <2>1, <2>2 DEF Serves, NoLines
  <2>4. LinesOf(lines.queue, reader, stdout.pipe, call[c].id)
    BY <2>2 DEF Serves
  <2>5. CASE Head(lines.queue).kind = "signal"
    <3>1. call' = call
      BY <1>6, <2>5 DEF Receive
    <3>2. Serves(c)'
      BY <2>1, <2>2, <2>3, <2>4, <3>1, <1>q, LineReceived DEF Serves
    <3> QED BY <1>6, <3>1, <3>2, OneWaits DEF Receive
  <2>6. CASE Head(lines.queue).kind # "signal"
    <3>1. Return(c)
      BY <1>6, <2>6 DEF Receive
    <3>2. \A d \in Callers : call'[d].pc # "wait"
      BY <1>6, <3>1, <1>r, <1>w DEF Receive
    <3>3. NoLines(Tail(lines.queue), reader, stdout.pipe)
      BY <2>1, <2>4, <2>6, <1>q, LineReceived DEF IsSignal
    <3>4. worker.pc \notin {"busy", "wedged"}
      BY <2>1, <2>2, <2>6, <1>q, LineReceived DEF Serves, IsSignal
    <3>5. worker.pc \in {"read", "exited"}
      BY <3>4, <1>t, Parts
    <3>6. Still'
      BY <2>1, <2>3, <3>3, <3>5 DEF Still
    <3> QED BY <3>2, <3>6, NoneWaits
  <2> QED BY <2>5, <2>6
<1>7. CASE ReceiveClosed(c)
  <2>1. Serves(c) /\ ~ closed
    BY <1>7, <1>s, <1>w DEF ReceiveClosed
  <2>2. reader.pc = "done" /\ stdout.open
    BY <1>7, <2>1, <1>t DEF ReceiveClosed, Pipes
  <2>3. worker.pc = "exited" /\ stdout.pipe = <<>> /\ lines.queue = <<>>
    BY <1>7, <2>2, <1>t DEF ReceiveClosed, Pipes
  <2>4. Still
    BY <2>1, <2>2, <2>3 DEF Still, Serves, NoLines
  <2>5. Still'
    BY <1>7, <2>4 DEF ReceiveClosed, Still
  <2>6. \A d \in Callers : call'[d].pc # "wait"
    BY <1>7, <1>r, <1>w DEF ReceiveClosed
  <2> QED BY <2>5, <2>6, NoneWaits
<1>8. CASE CtxDone(c)
  <2>1. closed'
    BY <1>8 DEF CtxDone, ClosedByAbandoned
  <2> QED BY <2>1, ClosedInStep
<1> QED BY <1>2, <1>3, <1>4, <1>5, <1>6, <1>7, <1>8

(* The reader only moves lines on, in order. *)
LEMMA ReaderInStep ==
  ASSUME Inv, TypeOK', Mutex', ReadLine \/ PushLine \/ ReadFails
  PROVE  InStep'
<1>p. USE DEF callVars, pipeVars, readVars, closeVars
<1>t. TypeOK /\ InStep
  BY DEF Inv
<1>q. lines.queue \in Seq(Lines) /\ stdout.pipe \in Seq(Lines) /\ (reader.pc = "send" => reader.line \in Lines)
  BY <1>t, Parts
<1>u. UNCHANGED <<call, closed, stdin, worker>>
  BY DEF ReadLine, PushLine, ReadFails
<1>1. CASE closed
  BY <1>1, <1>u, ClosedInStep
<1>2. CASE ~ closed
  <2>1. CASE ReadLine
    <3>1. /\ stdout.pipe # <<>> /\ stdout'.pipe = Tail(stdout.pipe) /\ lines' = lines
          /\ reader'.pc = "send" /\ reader'.line = Head(stdout.pipe)
      BY <2>1, <1>t, Updates DEF ReadLine, CanRead, TypeOK
    <3>2. ~ Still
      BY <3>1 DEF Still, NoLines
    <3>3. ASSUME NEW c \in Callers, Serves(c)
          PROVE  Serves(c)'
      <4>1. stdin.queue = <<>>
        BY <3>1, <3>3 DEF Serves, NoLines
      <4> QED BY <3>1, <3>3, <4>1, <1>q, <1>u, LineRead DEF Serves
    <3> QED BY <1>2, <1>t, <1>u, <3>2, <3>3, CallsStay
  <2>2. CASE PushLine
    <3>1. /\ reader.pc = "send" /\ lines'.queue = Append(lines.queue, reader.line) /\ stdout' = stdout
          /\ reader'.pc = "read"
      BY <2>2, <1>t, Updates DEF PushLine, TypeOK
    <3>2. ~ Still
      BY <3>1 DEF Still, NoLines
    <3>3. ASSUME NEW c \in Callers, Serves(c)
          PROVE  Serves(c)'
      <4>1. stdin.queue = <<>>
        BY <3>1, <3>3 DEF Serves, NoLines
      <4>2. reader'.pc # "send"
        BY <3>1
      <4> QED BY <3>1, <3>3, <4>1, <4>2, <1>q, <1>u, LinePushed DEF Serves
    <3> QED BY <1>2, <1>t, <1>u, <3>2, <3>3, CallsStay
  <2>3. CASE ReadFails
    <3>1. reader.pc = "read" /\ reader'.pc = "done" /\ lines'.queue = lines.queue /\ stdout' = stdout
      BY <2>3, <1>t, Updates DEF ReadFails, TypeOK
    <3>2. Still => Still'
      BY <3>1, <1>u DEF Still, NoLines
    <3>3. ASSUME NEW c \in Callers, Serves(c)
          PROVE  Serves(c)'
      BY <3>1, <3>3, <1>u DEF Serves, NoLines, LinesOf, OnlySignals
    <3> QED BY <1>2, <1>t, <1>u, <3>2, <3>3, CallsStay
  <2> QED BY <2>1, <2>2, <2>3
<1> QED BY <1>1, <1>2

(* The worker writes nothing but lines of the request it took, the last of *)
(* them its response or a torn line.                                       *)
LEMMA WorkerInStep ==
  ASSUME Inv, TypeOK', Mutex', TakeRequest \/ EmitSignal \/ Reply \/ EndOfInput \/ Wedge \/ Die
  PROVE  InStep'
<1>p. USE DEF callVars, pipeVars, readVars, closeVars
<1>t. TypeOK /\ Pipes /\ InStep
  BY DEF Inv
<1>q. lines.queue \in Seq(Lines) /\ stdout.pipe \in Seq(Lines) /\ worker \in Workers /\ stdout \in Stdouts
  BY <1>t, Parts DEF TypeOK
<1>u. UNCHANGED <<call, closed, lines, reader>>
  BY DEF TakeRequest, EmitSignal, Reply, EndOfInput, Wedge, Die
<1>1. CASE closed
  BY <1>1, <1>u, ClosedInStep
<1>2. CASE ~ closed
  <2>0. stdin.open /\ stdout.open
    BY <1>2, <1>t DEF Pipes
  <2>1. CASE TakeRequest
    <3>1. /\ stdin.queue # <<>> /\ stdin'.queue = Tail(stdin.queue) /\ stdout' = stdout
          /\ worker'.pc = "busy" /\ worker'.id = Head(stdin.queue)
      BY <2>1, <1>t, Updates DEF TakeRequest, TypeOK
    <3>2. ~ Still
      BY <3>1 DEF Still
    <3>3. ASSUME NEW c \in Callers, Serves(c)
          PROVE  Serves(c)'
      <4>1. stdin.queue = <<call[c].id>> /\ NoLines(lines.queue, reader, stdout.pipe)
        BY <3>1, <3>3 DEF Serves
      <4>2. stdin'.queue = <<>> /\ worker'.id = call[c].id
        BY <3>1, <4>1
      <4>3. /\ LinesOf(lines.queue, reader, stdout.pipe, call[c].id)
            /\ OnlySignals(lines.queue, reader, stdout.pipe)
        BY <4>1, NoLinesAre
      <4> QED BY <3>1, <4>2, <4>3, <1>u DEF Serves
    <3> QED BY <1>2, <1>t, <1>u, <3>2, <3>3, CallsStay
  <2>2. ASSUME worker.pc = "busy", stdin' = stdin, worker'.id = worker.id,
               NEW kind \in {"signal", "response", "torn"}, Output(kind),
               worker'.pc \in {"busy", "wedged"} => kind = "signal"
        PROVE  InStep'
    <3>d. DEFINE line == [kind |-> kind, id |-> worker.id]
    <3>1. stdout'.pipe = Append(stdout.pipe, line)
      BY <2>2, <1>q, Updates DEF Output
    <3>2. line \in Lines /\ line.id = worker.id /\ (kind = "signal" => IsSignal(line))
      BY <1>t, Parts, Records DEF IsSignal
    <3>h. HIDE DEF line
    <3>3. ~ Still
      BY <2>2 DEF Still
    <3>4. ASSUME NEW c \in Callers, Serves(c)
          PROVE  Serves(c)'
      <4>1. /\ stdin.queue = <<>> /\ worker.id = call[c].id
            /\ LinesOf(lines.queue, reader, stdout.pipe, call[c].id)
            /\ OnlySignals(lines.queue, reader, stdout.pipe)
        BY <2>2, <3>4 DEF Serves
      <4>2. /\ LinesOf(lines.queue, reader, Append(stdout.pipe, line), call[c].id)
            /\ kind = "signal" => OnlySignals(lines.queue, reader, Append(stdout.pipe, line))
        BY <4>1, <3>2, <1>q, LineWritten
      <4> QED BY <2>2, <3>1, <4>1, <4>2, <1>u DEF Serves
    <3> QED BY <1>2, <1>t, <1>u, <3>3, <3>4, CallsStay
  <2>3. ASSUME UNCHANGED <<stdin, stdout>>, worker.pc \in {"busy", "wedged"},
               worker'.id = worker.id, worker'.pc \in {"wedged", "exited"}
        PROVE  InStep'
    <3>1. ~ Still
      BY <2>3 DEF Still
    <3>2. ASSUME NEW c \in Callers, Serves(c)
          PROVE  Serves(c)'
      BY <2>3, <3>2, <1>u DEF Serves
    <3> QED BY <1>2, <1>t, <1>u, <3>1, <3>2, CallsStay
  <2>4. CASE EmitSignal
    <3>1. worker'.pc = worker.pc /\ worker'.id = worker.id /\ worker.pc = "busy" /\ stdin' = stdin
      BY <2>4, <1>q, Updates DEF EmitSignal
    <3>2. Output("signal")
      BY <2>4, <2>0 DEF EmitSignal
    <3> QED BY <3>1, <3>2, <2>2
  <2>5. CASE Reply
    <3>1. worker'.pc = "read" /\ worker'.id = worker.id /\ worker.pc = "busy" /\ stdin' = stdin
      <4>1. worker' = [worker EXCEPT !.pc = "read"] /\ worker.pc = "busy" /\ stdin' = stdin
        BY <2>5, <2>0 DEF Reply
      <4> QED BY <4>1, <1>q DEF Workers
    <3>2. Output("response")
      BY <2>5, <2>0 DEF Reply
    <3> QED BY <3>1, <3>2, <2>2
  <2>6. CASE EndOfInput  BY <2>6, <2>0 DEF EndOfInput
  <2>7. CASE Wedge
    <3>1. /\ worker'.pc = "wedged" /\ worker'.id = worker.id /\ worker.pc = "busy"
          /\ UNCHANGED <<stdin, stdout>>
      BY <2>7, <2>0, <1>q, Updates DEF Wedge
    <3> QED BY <3>1, <2>3
  <2>8. CASE Die
    <3>1. worker'.pc = "exited" /\ worker'.id = worker.id /\ stdin' = stdin
      <4>1. worker' = [worker EXCEPT !.pc = "exited"] /\ stdin' = stdin
        BY <2>8 DEF Die
      <4> QED BY <4>1, <1>q DEF Workers
    <3>2. worker.pc \in {"busy", "wedged"}
      BY <2>8 DEF Die
    <3>3. CASE stdout' = stdout  BY <3>1, <3>2, <3>3, <2>3
    <3>4. CASE worker.pc = "busy" /\ Output("torn")  BY <3>1, <3>4, <2>2
    <3> QED BY <2>8, <3>3, <3>4 DEF Die
  <2> QED BY <2>1, <2>4, <2>5, <2>6, <2>7, <2>8
<1> QED BY <1>1, <1>2

(* Close touches the lines only of a closed transport. *)
LEMMA CloseInStep ==
  ASSUME Inv, TypeOK', Mutex',
         \/ CloseCalled \/ Shutdown \/ CloseAgain \/ WaitLands \/ Drain \/ TakeWait
         \/ KillWorker \/ ReapElapses \/ DrainTail
  PROVE  InStep'
<1>p. USE DEF callVars, pipeVars, readVars, closeVars
<1>t. TypeOK /\ Pipes /\ InStep
  BY DEF Inv
<1>1. CASE closed'
  BY <1>1, ClosedInStep
<1>2. CASE ~ closed'
  <2>1. ~ Shutdown
    BY <1>2 DEF Shutdown
  <2>2. closed' = closed
    BY <2>1 DEF CloseCalled, CloseAgain, WaitLands, Drain, TakeWait, KillWorker, ReapElapses, DrainTail
  <2>3. wait = "none" /\ closer.pc \notin Closing
    BY <1>2, <2>2, <1>t DEF Pipes
  <2>4. CloseCalled \/ CloseAgain
    BY <2>1, <2>3 DEF WaitLands, Drain, Drains, DrainingSteps, TakeWait, KillWorker, ReapElapses,
                      DrainTail, Closing
  <2>5. UNCHANGED <<call, closed, stdin, worker, stdout, reader, lines>>
    BY <2>4 DEF CloseCalled, CloseAgain
  <2>6. Still => Still'
    BY <2>5 DEF Still
  <2>7. \A c \in Callers : call[c].pc = "wait" /\ Serves(c) => Serves(c)'
    BY <2>5 DEF Serves
  <2> QED BY <1>2, <2>2, <2>5, <2>6, <2>7, <1>t, CallsStay
<1> QED BY <1>1, <1>2

-----------------------------------------------------------------------------
LEMMA InitInv ==
  ASSUME Init
  PROVE  Inv
<1>n. Closer \notin Callers /\ Nobody \notin Callers /\ Nobody # Closer
  BY CapsAssumption
<1>1. TypeOK
  <2>1. call \in [Callers -> CallRecs]
    BY DEF Init, CallRecs
  <2>2. stdin \in Stdins /\ stdout \in Stdouts /\ lines \in Channels
    BY DEF Init, Stdins, Stdouts, Channels
  <2>3. worker \in Workers /\ reader \in Readers
    BY DEF Init, Workers, Readers
  <2>4. closer \in Closers /\ wait \in Waits /\ closeErr \in Errs /\ ifReaped \in Verdicts
    BY DEF Init, Closers, Waits, Errs, Verdicts
  <2> QED BY <2>1, <2>2, <2>3, <2>4 DEF Init, TypeOK
<1>2. Mutex
  BY <1>n DEF Init, Mutex, Closing
<1>3. Pipes
  BY DEF Init, Pipes, Closing
<1>4. InStep
  BY DEF Init, InStep, Still, NoLines
<1>5. Verdict
  BY DEF Init, Verdict, Closing
<1> QED BY <1>1, <1>2, <1>3, <1>4, <1>5 DEF Inv

LEMMA StepInv ==
  ASSUME Inv, [Next]_vars
  PROVE  Inv'
<1>c. Control /\ TypeOK
  BY DEF Inv, Control
<1>1. ASSUME NEW c \in Callers,
             Want(c) \/ Enter(c) \/ SendFails(c) \/ Send(c) \/ Receive(c) \/ ReceiveClosed(c) \/ CtxDone(c)
      PROVE  Inv'
  <2>1. TypeOK'
    BY <1>1, <1>c, CallTypes
  <2>2. Mutex' /\ Pipes' /\ Verdict'
    BY <1>1, <1>c, CallControl
  <2>3. InStep'
    BY <1>1, <2>1, <2>2, CallInStep
  <2> QED BY <2>1, <2>2, <2>3 DEF Inv
<1>2. CASE ReadLine \/ PushLine \/ ReadFails
  <2>1. TypeOK'
    BY <1>2, <1>c, ReaderTypes
  <2>2. Mutex' /\ Pipes' /\ Verdict'
    BY <1>2, <1>c, ReaderControl
  <2>3. InStep'
    BY <1>2, <2>1, <2>2, ReaderInStep
  <2> QED BY <2>1, <2>2, <2>3 DEF Inv
<1>3. CASE TakeRequest \/ EmitSignal \/ Reply \/ EndOfInput \/ Wedge \/ Die
  <2>1. TypeOK'
    BY <1>3, <1>c, WorkerTypes
  <2>2. Mutex' /\ Pipes' /\ Verdict'
    BY <1>3, <1>c, WorkerControl
  <2>3. InStep'
    BY <1>3, <2>1, <2>2, WorkerInStep
  <2> QED BY <2>1, <2>2, <2>3 DEF Inv
<1>4. CASE \/ CloseCalled \/ Shutdown \/ CloseAgain \/ WaitLands \/ Drain \/ TakeWait
           \/ KillWorker \/ ReapElapses \/ DrainTail
  <2>1. TypeOK'
    BY <1>4, <1>c, CloseTypes
  <2>2. Mutex' /\ Pipes' /\ Verdict'
    BY <1>4, <1>c, CloseControl
  <2>3. InStep'
    BY <1>4, <2>1, <2>2, CloseInStep
  <2> QED BY <2>1, <2>2, <2>3 DEF Inv
<1>5. CASE UNCHANGED vars
  <2>1. UNCHANGED <<mu, call, closed, nextID, stdin, worker, stdout, reader, lines, closer, wait,
                    closeErr, ifReaped, patient>>
    BY <1>5 DEF vars, callVars, pipeVars, readVars, closeVars
  <2> QED BY <2>1 DEF Inv, TypeOK, Mutex, Pipes, InStep, Serves, Still, Verdict
<1> QED BY <1>1, <1>2, <1>3, <1>4, <1>5 DEF Next

(* The transport's mutex is held by one at a time, its pipes open and      *)
(* close in order, the lines of one request are all there is, and Close    *)
(* knows what it tells: the inductive invariant.                           *)
THEOREM Invariance == Spec => []Inv
<1>1. Init => Inv
  BY InitInv
<1>2. Inv /\ [Next]_vars => Inv'
  BY StepInv
<1> QED BY <1>1, <1>2, PTL DEF Spec

(* A waiting Call can receive only lines of its own request, whatever was  *)
(* abandoned before it: the worker, the pipe, the reader and the channel   *)
(* are empty when it sends.                                                *)
THEOREM StaysInStep == Spec => []StreamInStep
<1>1. ASSUME Inv
      PROVE  StreamInStep
  <2>1. SUFFICES ASSUME NEW c \in Callers, call[c].pc = "wait", NEW k \in DOMAIN OnTheWay
                 PROVE  OnTheWay[k].id = call[c].id
    BY DEF StreamInStep
  <2>d. DEFINE q == lines.queue
               h == IF reader.pc = "send" THEN <<reader.line>> ELSE <<>>
               p == stdout.pipe
               i == call[c].id
  <2>2. LinesOf(q, reader, p, i) /\ TypeOK
    BY <1>1, <2>1 DEF Inv, InStep, Serves
  <2>3. q \in Seq(Lines) /\ p \in Seq(Lines) /\ h \in Seq(Lines)
    BY <2>2, Parts
  <2>4. \A j \in 1..Len(q) : q[j].id = i
    BY <2>2 DEF LinesOf
  <2>5. \A j \in 1..Len(h) : h[j].id = i
    BY <2>2 DEF LinesOf
  <2>6. \A j \in 1..Len(p) : p[j].id = i
    BY <2>2 DEF LinesOf
  <2>7. OnTheWay = q \o h \o p
    BY DEF OnTheWay
  <2>h. HIDE DEF q, h, p, i
  <2>8. ASSUME NEW s \in Seq(Lines), NEW t \in Seq(Lines),
               \A j \in 1..Len(s) : s[j].id = i, \A j \in 1..Len(t) : t[j].id = i
        PROVE  s \o t \in Seq(Lines) /\ \A j \in 1..Len(s \o t) : (s \o t)[j].id = i
    <3>1. /\ s \o t \in Seq(Lines) /\ Len(s) \in Nat /\ Len(t) \in Nat /\ Len(s \o t) = Len(s) + Len(t)
          /\ \A j \in 1..Len(s \o t) : (s \o t)[j] = IF j <= Len(s) THEN s[j] ELSE t[j - Len(s)]
      OBVIOUS
    <3>2. ASSUME NEW j \in 1..Len(s \o t)
          PROVE  (s \o t)[j].id = i
      <4>1. CASE j <= Len(s)  BY <4>1, <3>1, <2>8
      <4>2. CASE ~ (j <= Len(s))
        <5>1. j - Len(s) \in 1..Len(t) /\ (s \o t)[j] = t[j - Len(s)]
          BY <4>2, <3>1
        <5> QED BY <5>1, <2>8
      <4> QED BY <4>1, <4>2
    <3> QED BY <3>1, <3>2
  <2>9. q \o h \in Seq(Lines) /\ \A j \in 1..Len(q \o h) : (q \o h)[j].id = i
    BY <2>3, <2>4, <2>5, <2>8
  <2>10. OnTheWay \in Seq(Lines) /\ \A j \in 1..Len(OnTheWay) : OnTheWay[j].id = i
    BY <2>3, <2>6, <2>7, <2>8, <2>9
  <2>11. k \in 1..Len(OnTheWay)
    BY <2>10
  <2>12. OnTheWay[k].id = i
    BY <2>10, <2>11
  <2> QED BY <2>12 DEF i
<1> QED BY <1>1, Invariance, PTL

(* What Close last returned is true of the present. *)
THEOREM CloseIsTruthful == Spec => []CloseTellsTruth
<1>1. ASSUME Inv
      PROVE  CloseTellsTruth
  <2>1. SUFFICES ASSUME closer.pc = "idle", closeErr # NotRun
                 PROVE  /\ "unreaped" \in closeErr <=> wait # "taken"
                        /\ wait = "taken" => worker.pc = "exited"
                        /\ "unreaped" \in closeErr => "not exited" \in closeErr
                        /\ "still reading" \notin closeErr => reader.pc = "done"
                        /\ mu # Closer
    BY DEF CloseTellsTruth
  <2>2. Mutex /\ Pipes /\ Verdict
    BY <1>1 DEF Inv
  <2>3. mu # Closer
    BY <2>1, <2>2 DEF Mutex, Closing
  <2>4. wait = "taken" => worker.pc = "exited"
    BY <2>2 DEF Pipes
  <2> QED BY <2>1, <2>2, <2>3, <2>4 DEF Verdict
<1> QED BY <1>1, Invariance, PTL

(* When Close has to kill although its timers outlast all that could still *)
(* happen, the worker is wedged: a worker at work always has room sooner   *)
(* or later, for the reader empties the pipe and Close the channel.        *)
LEMMA KilledIsWedged ==
  ASSUME Inv, KillWorker, patient
  PROVE  worker.pc = "wedged"
<1>1. TypeOK /\ Pipes
  BY DEF Inv
<1>2. closer.pc = "select" /\ wait = "running" /\ ~ CanMove
  BY DEF KillWorker, Elapsed
<1>3. ~ stdin.open /\ stdout.open
  BY <1>1, <1>2 DEF Pipes
<1>4. worker.pc \notin {"read", "exited"}
  BY <1>2, <1>3 DEF CanMove
<1>5. ASSUME worker.pc = "busy"
      PROVE  FALSE
  <2>1. ~ (Len(stdout.pipe) < PipeCap)
    BY <1>2, <1>5 DEF CanMove, HasRoom
  <2>2. stdout.pipe # <<>>
    BY <2>1, <1>1, Parts, EmptyIs, CapsAssumption
  <2>3. reader.pc # "read"
    BY <2>2, <1>2 DEF CanMove, CanRead
  <2>4. reader.pc # "done"
    BY <1>1, <1>3, <1>5 DEF Pipes
  <2>5. reader.pc = "send"
    BY <2>3, <2>4, <1>1, Parts
  <2>6. ~ (Len(lines.queue) < LinesCap)
    BY <2>5, <1>2 DEF CanMove
  <2>7. lines.queue # <<>>
    BY <2>6, <1>1, Parts, EmptyIs, CapsAssumption
  <2> QED BY <2>7, <1>2 DEF CanMove, Drains, DrainingSteps
<1> QED BY <1>1, <1>4, <1>5, Parts

(* Close with timers that outlast what can still happen kills only a       *)
(* wedged worker.                                                          *)
THEOREM KillsOnlyTheWedged == Spec => OnlyWedgedAreKilled
<1>1. Inv /\ [Next]_vars => [KillWorker /\ patient => worker.pc = "wedged"]_vars
  BY KilledIsWedged
<1> QED BY <1>1, Invariance, PTL DEF Spec, OnlyWedgedAreKilled

=============================================================================
