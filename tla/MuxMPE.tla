-------------------------------- MODULE MuxMPE --------------------------------
(***************************************************************************)
(* src/MuxMPE.cpp: the life of the process, from main through the startup  *)
(* check and the configuration to the TSDuck processor that it starts and  *)
(* waits for, and the signals that may hit it meanwhile.                   *)
(*                                                                         *)
(* What the configuration file says is chosen when the code reads it.  A   *)
(* key that is missing or cannot be converted makes ptree throw, and after *)
(* the try block of the initialisation nobody catches that.  The messages  *)
(* to etiLog are left out (module Logger has them), as are the steps that  *)
(* only print or change the scheduling priority.                           *)
(***************************************************************************)
EXTENDS Integers, Sequences

CONSTANTS
  Uids,        \* the names of the sections under "inputs"
  Sources,     \* what an input's source and sourceport may be
  MaxInputs,   \* bound: the sections under "inputs"
  Pids,        \* what payload_pid and pmt_pid may be
  Ids,         \* what ts_id and service_id may be
  None         \* what has not been read or built yet

ASSUME MuxAssumption ==
  /\ MaxInputs \in Nat
  /\ Pids \subseteq Nat
  /\ None \notin Pids \cup Ids \cup Sources

VARIABLES
  at,          \* where main is
  returnCode,
  process,     \* "running", or how it ended
  status,      \* its exit status once it has ended by returning or exiting
  handlers,    \* how many of sigs have their handler
  sigpipe,     \* the disposition of SIGPIPE, which the process inherits
  check,       \* the startup check's child process
  inputs,      \* the inputs read so far
  dest,        \* the ts_destination_t
  opt,         \* the ts::TSProcessorArgs
  tsproc,      \* the ts::TSProcessor
  running      \* the global flag

vars == <<at, returnCode, process, status, handlers, sigpipe, check, inputs,
          dest, opt, tsproc, running>>

\* The signals main installs signalHandler for, in its order.
sigs == <<"SIGHUP", "SIGQUIT", "SIGINT", "SIGTERM">>

Inputs == [uid : Uids, source : Sources]
Destinations ==
  [payload_pid : Pids, pmt_pid : Pids, ts_id : Ids, service_id : Ids,
   output : {"srt", "udp", "other"}]
Options ==
  [pat : [pid : Nat, ts_id : Ids, service_id : Ids, program_map_PID : Pids],
   pmt : [pid : Nat, service_id : Ids, elementary_PID : Pids],
   sdt : [pid : Nat, ts_id : Ids, service_id : Ids],
   mpe : [pid : Pids, sources : Seq(Sources)],
   output : {"srt", "udp"}]

TypeOK ==
  /\ at \in {"version", "handlers", "init", "configured", "checking", "setup",
             "output", "debug", "options", "start", "wait", "finish"}
  /\ returnCode \in {0, 1, 2}
  /\ process \in {"running", "returned", "exited", "killed", "aborted"}
  /\ status \in {0, 1, 2, 255}
  /\ handlers \in 0..4
  /\ sigpipe \in {"default", "ignored"}
  /\ check \in {"none", "running", "ok", "failed"}
  /\ inputs \in Seq(Inputs)
  /\ dest \in Destinations \cup {None}
  /\ opt \in Options \cup {None}
  /\ tsproc \in {"none", "running", "ended"}
  /\ running \in BOOLEAN

Init ==
  /\ at = "version"
  /\ returnCode = 0
  /\ process = "running"
  /\ status = 0
  /\ handlers = 0
  /\ sigpipe \in {"default", "ignored"}
  /\ check = "none"
  /\ inputs = <<>>
  /\ dest = None
  /\ opt = None
  /\ tsproc = "none"
  /\ running = TRUE

-----------------------------------------------------------------------------
(* How main moves and how the process ends.                                *)

signals == <<handlers, sigpipe, running>>
peers == <<check, tsproc>>
config == <<inputs, dest, opt>>

Goto(from, to) ==
  /\ process = "running" /\ at = from
  /\ at' = to
  /\ UNCHANGED <<process, status, signals>>

\* Nothing but the place changes.
Moves(from, to) == Goto(from, to) /\ UNCHANGED <<returnCode, peers, config>>

Ends(how, code) ==
  /\ process = "running"
  /\ process' = how /\ status' = code
  /\ UNCHANGED <<at, returnCode, signals, peers, config>>

Return(from, code) == at = from /\ Ends("returned", code)

\* An exception that nobody catches.
Abort(from) == at = from /\ Ends("aborted", status)

-----------------------------------------------------------------------------
(* main, up to the end of the try block.                                   *)

PrintVersion == Return("version", 0)

NoVersion == Moves("version", "handlers")

\* Mutant of InstallHandler: the loop goes one past the end of sigs.
InstallOneMore ==
  /\ process = "running" /\ at = "handlers"
  /\ handlers' = handlers + 1
  /\ at' = IF handlers' > Len(sigs) THEN "init" ELSE "handlers"
  /\ UNCHANGED <<returnCode, process, status, sigpipe, running, peers, config>>

InstallHandler ==
  /\ process = "running" /\ at = "handlers"
  /\ handlers' = handlers + 1
  /\ at' = IF handlers' = Len(sigs) THEN "init" ELSE "handlers"
  /\ UNCHANGED <<returnCode, process, status, sigpipe, running, peers, config>>

SigactionFails == Return("handlers", 1)

\* No file named, -h, or a file that read_json or read_info refuses.
InitException ==
  /\ Goto("init", "finish")
  /\ returnCode' = 1
  /\ UNCHANGED <<peers, config>>

\* An exception of the standard library, for which there are four handlers:
\* invalid_argument and out_of_range, any other logic_error, and runtime_error.
StandardException ==
  /\ \E from \in {"init", "configured"} : Goto(from, "finish")
  /\ returnCode' \in {1, 2}
  /\ UNCHANGED <<peers, config>>

ReadConfiguration == Moves("init", "configured")

\* Mutant of NoStartupCheck: the check is started, and nobody waits for it.
CheckInBackground ==
  /\ Goto("configured", "setup")
  /\ check' = "running"
  /\ UNCHANGED <<returnCode, tsproc, config>>

NoStartupCheck == Moves("configured", "setup")

\* system() creates the child and waits for it.
RunStartupCheck ==
  /\ Goto("configured", "checking")
  /\ check' = "running"
  /\ UNCHANGED <<returnCode, tsproc, config>>

\* The child exits with 0, or in some other way (a signal and a failure to
\* create it included).
CheckEnds ==
  /\ process = "running" /\ check = "running"
  /\ check' \in {"ok", "failed"}
  /\ UNCHANGED <<at, returnCode, process, status, signals, tsproc, config>>

CheckPassed == check = "ok" /\ Moves("checking", "setup")

CheckFailed == check = "failed" /\ Return("checking", 1)

-----------------------------------------------------------------------------
(* main, with returnCode 0.                                                *)

AddInput ==
  /\ Goto("setup", "setup")
  /\ Len(inputs) < MaxInputs
  /\ \E i \in Inputs :
       /\ \A k \in 1..Len(inputs) : inputs[k].uid # i.uid
       /\ inputs' = Append(inputs, i)
  /\ UNCHANGED <<returnCode, peers, dest, opt>>

\* No "inputs", an incomplete input, or a uid for the second time.
BadInputs == Abort("setup")

InputsRead == Moves("setup", "output")

ReadOutput ==
  /\ Goto("output", "debug")
  /\ dest' \in Destinations
  /\ UNCHANGED <<returnCode, peers, inputs, opt>>

\* No "output", or an incomplete one.
BadOutput == Abort("output")

ReadDebugLevel == Moves("debug", "options")

\* No "general" or no tsduck_debug in it.
NoDebugLevel == Abort("debug")

\* The three tables as text, with the PIDs their inject plugins send them on,
\* the arguments of mpeinject, and the output.
Arguments(d, i) ==
  [pat |-> [pid |-> 0, ts_id |-> d.ts_id, service_id |-> d.service_id,
            program_map_PID |-> d.pmt_pid],
   pmt |-> [pid |-> 256, service_id |-> d.service_id,
            elementary_PID |-> d.payload_pid],
   sdt |-> [pid |-> 17, ts_id |-> d.service_id, service_id |-> d.service_id],
   mpe |-> [pid |-> d.payload_pid, sources |-> [k \in 1..Len(i) |-> i[k].source]],
   output |-> d.output]

\* Mutant of BuildOptions: the PMT takes its service_id from the ts_id.
BuildCrossedOptions ==
  /\ Goto("options", "start")
  /\ dest.output \in {"srt", "udp"}
  /\ opt' = [Arguments(dest, inputs) EXCEPT !.pmt.service_id = dest.ts_id]
  /\ UNCHANGED <<returnCode, peers, inputs, dest>>

BuildOptions ==
  /\ Goto("options", "start")
  /\ dest.output \in {"srt", "udp"}
  /\ opt' = Arguments(dest, inputs)
  /\ UNCHANGED <<returnCode, peers, inputs, dest>>

\* return -1 is an exit status of 255.
NoSuchOutput == at = "options" /\ dest.output = "other" /\ Return("options", 255)

StartProcessor ==
  /\ Goto("start", "wait")
  /\ tsproc' = "running"
  /\ UNCHANGED <<returnCode, check, config>>

\* Mutant of StartFails: main reports its returnCode, which nobody has set.
StartFailsSilently == Return("start", returnCode)

\* Mutant of StartFails: main tries again, for ever.
StartRetries == Moves("start", "options")

StartFails == Return("start", 255)

\* TSDuck's threads end by themselves.
ProcessorEnds ==
  /\ process = "running" /\ tsproc = "running"
  /\ tsproc' = "ended"
  /\ UNCHANGED <<at, returnCode, process, status, signals, check, config>>

WaitForTermination == tsproc = "ended" /\ Moves("wait", "finish")

Finish == Return("finish", returnCode)

-----------------------------------------------------------------------------
(* Signals.  While system() waits for the child, SIGINT and SIGQUIT are    *)
(* ignored.                                                                *)

Installed(sig) == \E k \in 1..handlers : sigs[k] = sig

Receives(sig) ==
  /\ process = "running"
  /\ ~(at = "checking" /\ check = "running" /\ sig \in {"SIGINT", "SIGQUIT"})

Killed == Ends("killed", status)

DefaultAction(sig) == Receives(sig) /\ ~Installed(sig) /\ Killed

\* SIGINT and SIGTERM: exit(0).
HandleExit(sig) ==
  /\ sig \in {"SIGINT", "SIGTERM"}
  /\ Receives(sig) /\ Installed(sig)
  /\ Ends("exited", 0)

\* SIGHUP and SIGQUIT: the handler sends SIGPIPE, for which main installs no
\* handler, to the process group; where it is ignored, the handler goes on to
\* clear a flag that nobody reads.
HandleHangup(sig) ==
  /\ sig \in {"SIGHUP", "SIGQUIT"}
  /\ Receives(sig) /\ Installed(sig)
  /\ \/ sigpipe = "default" /\ Killed
     \/ /\ sigpipe = "ignored"
        /\ running' = FALSE
        /\ UNCHANGED <<at, returnCode, process, status, handlers, sigpipe, peers, config>>

-----------------------------------------------------------------------------
MainStep ==
  \/ PrintVersion \/ NoVersion
  \/ InstallHandler \/ SigactionFails
  \/ InitException \/ StandardException \/ ReadConfiguration
  \/ NoStartupCheck \/ RunStartupCheck \/ CheckPassed \/ CheckFailed
  \/ AddInput \/ BadInputs \/ InputsRead
  \/ ReadOutput \/ BadOutput
  \/ ReadDebugLevel \/ NoDebugLevel
  \/ BuildOptions \/ NoSuchOutput
  \/ StartProcessor \/ StartFails
  \/ WaitForTermination \/ Finish

Next ==
  \/ MainStep
  \/ CheckEnds
  \/ ProcessorEnds
  \/ \E k \in 1..Len(sigs) :
       DefaultAction(sigs[k]) \/ HandleExit(sigs[k]) \/ HandleHangup(sigs[k])

Spec == Init /\ [][Next]_vars

\* main goes on when it can.  Neither the child of the startup check nor
\* TSDuck need ever end, and no signal need come.
FairSpec == Spec /\ WF_vars(MainStep)

-----------------------------------------------------------------------------
(* Properties.                                                             *)

\* "At startup, run the command and abort if is it not returning 0": nothing
\* is transmitted while the check runs or after it has failed, not even when
\* signals come in between.
CheckGatesStart == tsproc # "none" => check \in {"none", "ok"}

\* A main that returns 0 has printed the version or has seen the TS
\* processing run and end: no failure looks like a success.
SuccessIsEarned ==
  process = "returned" /\ status = 0 => at = "version" \/ tsproc = "ended"

\* The tables and mpeinject describe one and the same service: the PAT, the
\* PMT and the SDT name the same service, its component is on the PID that
\* mpeinject fills, and every input that was accepted is a source of it.
OneService ==
  opt # None =>
    /\ opt.pat.service_id = opt.pmt.service_id
    /\ opt.pat.service_id = opt.sdt.service_id
    /\ opt.pmt.elementary_PID = opt.mpe.pid
    /\ Len(opt.mpe.sources) = Len(inputs)
    /\ \A k \in 1..Len(inputs) : opt.mpe.sources[k] = inputs[k].source

\* main waits for nothing but the startup check and TSDuck: from everywhere
\* else it gets to one of them or to the end of the process.
MainSettles == <>[](process # "running" \/ at \in {"checking", "wait"})

\* "Fully compliant Transport Stream output": the PMT is on the PID that the
\* PAT announces for it.
PmtIsWherePatSays == opt # None => opt.pat.program_map_PID = opt.pmt.pid

\* "Fully compliant Transport Stream output": the SDT, an actual one, carries
\* the transport stream id of the PAT.
SdtIsOfThisStream == opt # None => opt.sdt.ts_id = opt.pat.ts_id
=============================================================================
