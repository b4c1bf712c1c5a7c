-------------------------------- MODULE Logger --------------------------------
(***************************************************************************)
(* lib/Log.h, lib/Log.cpp: the Logger behind the global etiLog.  Threads   *)
(* push messages into a ThreadsafeQueue; the thread that the constructor   *)
(* starts (io_process) pops them and writes them to the backends under     *)
(* m_backend_mutex.  The destructor asks that thread to stop, joins it and *)
(* clears the backends.                                                    *)
(*                                                                         *)
(* etiLog is a global object, so its destructor runs inside exit(): when   *)
(* main returns, or when the signal handler of src/MuxMPE.cpp calls        *)
(* exit(0) on whatever thread the signal interrupted.  That execution is   *)
(* Exit here; the thread it runs on, host, does not go on while it lasts.  *)
(***************************************************************************)
EXTENDS Integers, Sequences

CONSTANTS
  Writers,        \* the threads that log
  Main,           \* the one of them that runs main and registers backends
  IO,             \* m_io_thread
  Exit,           \* the execution of the destructor
  Bystander,      \* a thread that does not log: those of TSDuck
  SignalTargets,  \* the threads on which SIGINT and SIGTERM may be handled
  Levels,         \* the members of log_level_t in use
  Texts,          \* the kinds of text in use
  Backends,       \* the names (get_name) of the backends to register
  MaxLogs,        \* bound: the messages that each writer logs
  NoThread, NoValue, NoBackend

\* The n-th message of a writer.  An empty text is not among them: nobody in
\* src/ logs one.
Messages == [by : Writers, n : 1..MaxLogs, level : Levels, text : Texts]

ASSUME LoggerAssumption ==
  /\ Main \in Writers
  /\ IO \notin {Exit, Bystander, NoThread}
  /\ Exit \notin {Bystander, NoThread}
  /\ Bystander # NoThread
  /\ {IO, Exit, Bystander, NoThread} \cap Writers = {}
  /\ SignalTargets \subseteq Writers \cup {IO, Bystander}
  /\ Levels \subseteq {"debug", "info", "warn", "error", "alert", "emerg",
                       "trace", "discard"}
  /\ Texts \subseteq {"line", "line with newline"}
  /\ Backends \subseteq {"SYSLOG", "FILE", "TRACE"}
  /\ MaxLogs \in Nat
  /\ NoBackend \notin Backends
  /\ NoValue \notin Messages

VARIABLES
  \* the ThreadsafeQueue m_message_queue
  the_queue, the_mutex, wakeup_requested, pc, call, ret,
  m_backend_mutex,   \* its owner, or NoThread
  backends,          \* the registered backends; each is registered once
  registering,       \* the backend that Main is in register_backend with
  io,                \* where io_process is
  output,            \* what each backend and the console have been given
  exit,              \* where the destructor is
  host,              \* the thread it runs on, or NoThread
  count              \* how many messages each writer has logged

qvars == <<the_queue, the_mutex, wakeup_requested, pc, call, ret>>
lvars == <<m_backend_mutex, backends, registering, io, output, exit, host, count>>
vars == <<qvars, lvars>>

Q == INSTANCE ThreadsafeQueue WITH
  Producers <- Writers \cup {Exit}, Consumers <- {IO}, Values <- Messages,
  MaxSizes <- {0}, Thresholds <- {}, Prebufferings <- {1}

-----------------------------------------------------------------------------
(* Sinks: the registered backends, and cerr.                               *)

Console == "CONSOLE"
Sinks == Backends \cup {Console}

\* A message of level discard never gets here.
Takes(sink, level) ==
  CASE sink \in {"SYSLOG", "FILE"} -> level \notin {"trace", "discard"}
    [] sink = "TRACE" -> level = "trace"
    [] sink = Console -> level # "trace"

\* io_process takes a trailing newline off.
Line(m) == [m EXCEPT !.text = IF @ = "line with newline" THEN "line" ELSE @]

-----------------------------------------------------------------------------
TypeOK ==
  /\ Q!TypeOK
  /\ m_backend_mutex \in {Main, IO, Exit, NoThread}
  /\ backends \subseteq Backends
  /\ registering \in Backends \cup {NoBackend}
  /\ io \in {"pop", "popping", "write", "ended"}
  /\ output \in [Sinks -> Seq({Line(m) : m \in Messages})]
  /\ exit \in {"none", "wakeup", "waking", "lock", "clear", "done", "aborted"}
  /\ host \in Writers \cup {IO, Bystander, NoThread}
  /\ count \in [Writers -> 0..MaxLogs]

\* The constructor has started the thread.
Init ==
  /\ Q!Init
  /\ m_backend_mutex = NoThread
  /\ backends = {}
  /\ registering = NoBackend
  /\ io = "pop"
  /\ output = [s \in Sinks |-> <<>>]
  /\ exit = "none"
  /\ host = NoThread
  /\ count = [w \in Writers |-> 0]

\* A thread can go on unless the destructor runs on top of it, or the
\* process is over.
Runs(t) == t # host /\ exit \notin {"done", "aborted"}

Idle(w) == pc[w] = "idle" /\ (w = Main => registering = NoBackend)

-----------------------------------------------------------------------------
(* The threads that log.                                                   *)

\* log, and logstr, which the destructor of a LogLine calls.  A message of
\* level discard goes nowhere.
Log(w, level, text) ==
  /\ level # "discard"
  /\ Runs(w) /\ Idle(w) /\ count[w] < MaxLogs
  /\ count' = [count EXCEPT ![w] = @ + 1]
  /\ Q!Push(w, [by |-> w, n |-> count'[w], level |-> level, text |-> text], 0)
  /\ UNCHANGED <<m_backend_mutex, backends, registering, io, output, exit, host>>

\* register_backend, of a backend that was made for it.
RegisterBackend(b) ==
  /\ Runs(Main) /\ Idle(Main)
  /\ b \notin backends
  /\ registering' = b
  /\ UNCHANGED <<qvars, m_backend_mutex, backends, io, output, exit, host, count>>

\* Mutant of RegisterLock: register_backend does without the mutex.
RegisterUnlocked ==
  /\ registering # NoBackend
  /\ m_backend_mutex' = Main
  /\ UNCHANGED <<qvars, backends, registering, io, output, exit, host, count>>

RegisterLock ==
  /\ registering # NoBackend
  /\ m_backend_mutex = NoThread
  /\ m_backend_mutex' = Main
  /\ UNCHANGED <<qvars, backends, registering, io, output, exit, host, count>>

\* Mutant of RegisterBody: the backend is gone before it is put on the list.
RegisterMoved ==
  /\ m_backend_mutex = Main
  /\ registering' = NoBackend
  /\ backends' = backends \cup {registering'}
  /\ m_backend_mutex' = NoThread
  /\ UNCHANGED <<qvars, io, output, exit, host, count>>

RegisterBody ==
  /\ m_backend_mutex = Main
  /\ backends' = backends \cup {registering}
  /\ registering' = NoBackend
  /\ m_backend_mutex' = NoThread
  /\ UNCHANGED <<qvars, io, output, exit, host, count>>

WriterStep(w) ==
  /\ Runs(w)
  /\ \/ Q!Step(w) /\ UNCHANGED lvars
     \/ w = Main /\ (RegisterLock \/ RegisterBody)

-----------------------------------------------------------------------------
(* io_process.                                                             *)

IoPop ==
  /\ io = "pop"
  /\ Q!WaitAndPop(IO, 1)
  /\ io' = "popping"
  /\ UNCHANGED <<m_backend_mutex, backends, registering, output, exit, host, count>>

IoReturned(kind) == io = "popping" /\ pc[IO] = "idle" /\ ret[IO].kind = kind

\* ThreadsafeQueueWakeup ends the loop.
IoWoken ==
  /\ IoReturned("wakeup")
  /\ io' = "ended"
  /\ UNCHANGED <<qvars, m_backend_mutex, backends, registering, output, exit, host, count>>

IoLock ==
  /\ IoReturned("value")
  /\ m_backend_mutex = NoThread
  /\ m_backend_mutex' = IO
  /\ io' = "write"
  /\ UNCHANGED <<qvars, backends, registering, output, exit, host, count>>

\* Mutant of IoWrite: only the backends that are registered are told apart,
\* not the levels they take.
IoWriteAll ==
  /\ io = "write"
  /\ output' = [s \in Sinks |-> IF s \in backends \cup {Console}
                                THEN Append(output[s], Line(ret[IO].value))
                                ELSE output[s]]
  /\ m_backend_mutex' = NoThread
  /\ io' = "pop"
  /\ UNCHANGED <<qvars, backends, registering, exit, host, count>>

\* The backends one after the other, then the console, then the unlock: one
\* step, for nobody sees the backends in between.
IoWrite ==
  /\ io = "write"
  /\ output' = [s \in Sinks |->
                  IF s \in backends \cup {Console} /\ Takes(s, ret[IO].value.level)
                  THEN Append(output[s], Line(ret[IO].value))
                  ELSE output[s]]
  /\ m_backend_mutex' = NoThread
  /\ io' = "pop"
  /\ UNCHANGED <<qvars, backends, registering, exit, host, count>>

IoStep ==
  /\ Runs(IO)
  /\ \/ IoPop
     \/ IoWoken
     \/ IoLock
     \/ IoWrite
     \/ Q!Step(IO) /\ UNCHANGED lvars

\* wait_and_pop's wait returns although nobody notified.
IoSpuriousWakeup ==
  /\ Runs(IO)
  /\ Q!SpuriousWakeup(IO)
  /\ UNCHANGED lvars

-----------------------------------------------------------------------------
(* exit() and the destructor.                                              *)

BeginExit(t) ==
  /\ exit = "none"
  /\ exit' = "wakeup"
  /\ host' = t
  /\ UNCHANGED <<qvars, m_backend_mutex, backends, registering, io, output, count>>

ReturnFromMain == Idle(Main) /\ BeginExit(Main)

\* signalHandler, for SIGINT and SIGTERM: exit(0), wherever the thread is.
Signal(t) == t \in SignalTargets /\ BeginExit(t)

ExitWakeup ==
  /\ exit = "wakeup"
  /\ Q!TriggerWakeup(Exit)
  /\ exit' = "waking"
  /\ UNCHANGED <<m_backend_mutex, backends, registering, io, output, host, count>>

ExitGoes(label) ==
  /\ exit' = label
  /\ UNCHANGED <<qvars, backends, registering, io, output, host, count>>

\* Mutant of ExitJoin: the thread is left alone (detached).
ExitDetach ==
  /\ exit = "waking" /\ pc[Exit] = "idle"
  /\ ExitGoes("lock")
  /\ UNCHANGED m_backend_mutex

\* The join waits for io_process to return.
ExitJoin ==
  /\ exit = "waking" /\ pc[Exit] = "idle"
  /\ io = "ended"
  /\ ExitGoes("lock")
  /\ UNCHANGED m_backend_mutex

\* A thread that joins itself gets an exception, which a destructor does not
\* let out: terminate.
ExitJoinSelf ==
  /\ exit = "waking" /\ pc[Exit] = "idle"
  /\ host = IO
  /\ ExitGoes("aborted")
  /\ UNCHANGED m_backend_mutex

ExitLock ==
  /\ exit = "lock"
  /\ m_backend_mutex = NoThread
  /\ m_backend_mutex' = Exit
  /\ ExitGoes("clear")

ExitClear ==
  /\ exit = "clear"
  /\ backends' = {}
  /\ m_backend_mutex' = NoThread
  /\ exit' = "done"
  /\ UNCHANGED <<qvars, registering, io, output, host, count>>

ExitStep ==
  /\ Runs(Exit)
  /\ \/ ExitWakeup
     \/ ExitJoin
     \/ ExitJoinSelf
     \/ ExitLock
     \/ ExitClear
     \/ Q!Step(Exit) /\ UNCHANGED lvars

-----------------------------------------------------------------------------
Next ==
  \/ \E w \in Writers, l \in Levels, x \in Texts : Log(w, l, x)
  \/ \E b \in Backends : RegisterBackend(b)
  \/ \E w \in Writers : WriterStep(w)
  \/ IoStep
  \/ IoSpuriousWakeup
  \/ ReturnFromMain
  \/ \E t \in SignalTargets : Signal(t)
  \/ ExitStep

Spec == Init /\ [][Next]_vars

(***************************************************************************)
(* The threads that can run do.  Nothing says that anybody ever logs, that *)
(* main returns or that a signal comes.                                    *)
(***************************************************************************)
Fairness ==
  /\ \A w \in Writers : WF_vars(WriterStep(w))
  /\ WF_vars(IoStep)
  /\ WF_vars(ExitStep)

FairSpec == Spec /\ Fairness

-----------------------------------------------------------------------------
(* Properties.                                                             *)

\* The message that io_process has popped and not yet written.
InHand ==
  IF io \in {"popping", "write"} /\ ret[IO].kind = "value"
  THEN <<ret[IO].value>> ELSE <<>>

Stream == INSTANCE LogStream WITH
  todo <- InHand \o the_queue,
  active <- backends \cup {Console},
  state <- CASE exit = "none" -> "open"
             [] exit = "done" -> "closed"
             [] OTHER -> "closing"

\* The logger writes each message once, in the order of the pushes, to every
\* backend that is registered by then and takes its level, and to the console.
ImplementsLogStream == Stream!Spec

\* ... and, until the program exits, writes all of them.
ImplementsFairLogStream == Stream!FairSpec

\* The io thread writes nothing once the destructor has joined it: the
\* backends are destroyed behind its back otherwise.
NoWriteAfterJoin ==
  [][(exit \in {"lock", "clear", "done"}) => UNCHANGED output]_vars

\* The list of backends does not change while the io thread goes through it:
\* neither register_backend nor the destructor gets in.
BackendsStableWhileWriting == [][(io = "write") => UNCHANGED backends]_vars

\* The destructor runs to its end when the thread it runs on held neither
\* mutex and is not the one that it joins.
CleanExitTerminates ==
  exit = "wakeup" /\ host \notin {the_mutex, m_backend_mutex, IO} ~> exit = "done"

\* "Log the message to all backends": what has been logged when the program
\* ends has been written.
LoggedIsWritten == exit = "done" => InHand \o the_queue = <<>>

\* "We are not allowed to use etiLog in the signal handler, because etiLog
\* uses mutexes": the handler does not wait for one that its thread holds.
HandlerNeverSelfDeadlocks ==
  /\ pc[Exit] = "lock" => host # the_mutex
  /\ exit = "lock" => host # m_backend_mutex
=============================================================================
