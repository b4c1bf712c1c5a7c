-------------------------------- MODULE Program --------------------------------
(***************************************************************************)
(* The process and its log: main of module MuxMPE with the messages that   *)
(* it gives to etiLog, where it gives them, and the stream that module     *)
(* Logger is shown to implement, which brings them to the console and to   *)
(* syslog while main has gone on.                                          *)
(*                                                                         *)
(* SIGINT and SIGTERM are handled on main's own thread here, so that main  *)
(* is over when exit() destroys etiLog; what happens when another thread   *)
(* is interrupted, or main inside the logger, is in module Logger.         *)
(***************************************************************************)
EXTENDS MuxMPE

VARIABLES
  told,                         \* what main has logged last
  todo, active, output, state   \* etiLog

lvars == <<todo, active, output, state>>
pvars == <<vars, told, lvars>>

\* The messages of main with their levels, in the order of the code.
LevelOf ==
  [no_priority |-> "error", checking |-> "info", check_ok |-> "info",
   check_failed |-> "error", starting_up |-> "info", init_aborted |-> "error",
   caught |-> "error", not_started |-> "info", terminated |-> "info", exiting |-> "debug",
   aborting |-> "alert", done |-> "debug"]

Texts == DOMAIN LevelOf
Message(text) == [level |-> LevelOf[text], text |-> text]
Messages == {Message(text) : text \in Texts}

Console == "CONSOLE"
Syslog == "SYSLOG"

\* Of main's levels both sinks take all.
Takes(sink, level) == level # "trace"
Line(m) == m

Log == INSTANCE LogStream WITH Sinks <- {Console, Syslog}

TypesOK ==
  /\ TypeOK
  /\ told \in Texts \cup {"nothing"}
  /\ todo \in Seq(Messages)
  /\ Console \in active /\ active \subseteq {Console, Syslog}
  /\ output \in [{Console, Syslog} -> Seq(Messages)]
  /\ state \in {"open", "closing", "closed"}

ProgramInit ==
  /\ Init
  /\ told = "nothing"
  /\ Log!Init /\ active = {Console}

-----------------------------------------------------------------------------
(* What main logs, and where.                                              *)

Tells(text) ==
  /\ process = "running"
  /\ told' = text
  /\ Log!Accepts(Message(text))
  /\ UNCHANGED vars

\* Nothing but, perhaps, that the priority could not be set.
Fresh == told \in {"nothing", "no_priority"}

TellNoPriority == at = "init" /\ told = "nothing" /\ Tells("no_priority")

TellInitAborted == at = "init" /\ Fresh /\ Tells("init_aborted")

TellCaught == at \in {"init", "configured"} /\ Fresh /\ Tells("caught")

TellChecking == at = "configured" /\ Fresh /\ Tells("checking")

\* Mutant of TellCheckOk: the result of the check is not looked at.
TellCheckOver ==
  at = "checking" /\ check # "running" /\ told = "checking" /\ Tells("check_ok")

TellCheckOk ==
  at = "checking" /\ check = "ok" /\ told = "checking" /\ Tells("check_ok")

TellCheckFailed ==
  at = "checking" /\ check = "failed" /\ told = "checking" /\ Tells("check_failed")

TellStartingUp ==
  /\ (at = "configured" /\ Fresh) \/ (at = "checking" /\ told = "check_ok")
  /\ Tells("starting_up")

TellNotStarted == at = "start" /\ told = "starting_up" /\ Tells("not_started")

TellTerminated ==
  /\ at = "wait" /\ tsproc = "ended" /\ told = "starting_up"
  /\ Tells("terminated")

TellExiting ==
  /\ at = "finish" /\ told \in {"init_aborted", "caught", "terminated"}
  /\ Tells("exiting")

TellEnd ==
  /\ at = "finish" /\ told = "exiting"
  /\ Tells(IF returnCode # 0 THEN "aborting" ELSE "done")

Tell ==
  \/ TellNoPriority \/ TellInitAborted \/ TellCaught \/ TellChecking
  \/ TellCheckOk \/ TellCheckFailed \/ TellStartingUp \/ TellNotStarted
  \/ TellTerminated \/ TellExiting \/ TellEnd

-----------------------------------------------------------------------------
(* How main goes on, once it has logged what comes before.                 *)

LeavesInit ==
  \/ told = "init_aborted" /\ InitException
  \/ told = "caught" /\ StandardException
  \/ Fresh /\ ReadConfiguration
  \/ told = "checking" /\ RunStartupCheck
  \/ told = "starting_up" /\ (NoStartupCheck \/ CheckPassed)
  \/ told = "check_failed" /\ CheckFailed

Proceeds ==
  /\ \/ PrintVersion \/ NoVersion \/ InstallHandler \/ SigactionFails
     \/ LeavesInit
     \/ AddInput \/ BadInputs \/ InputsRead \/ ReadOutput \/ BadOutput
     \/ ReadDebugLevel \/ NoDebugLevel \/ BuildOptions \/ NoSuchOutput
     \/ told = "starting_up" /\ StartProcessor
     \/ told = "not_started" /\ StartFails
     \/ told = "terminated" /\ WaitForTermination
     \/ told \in {"aborting", "done"} /\ Finish
  /\ UNCHANGED <<told, lvars>>

\* Mutant of EnableSyslog: the backend comes after the startup check.
EnableSyslogLate ==
  /\ process = "running" /\ at = "setup"
  /\ Log!Activate
  /\ UNCHANGED <<vars, told>>

EnableSyslog ==
  /\ process = "running" /\ at = "configured" /\ Fresh
  /\ Log!Activate
  /\ UNCHANGED <<vars, told>>

MainActs == Tell \/ Proceeds \/ EnableSyslog

\* Mutant of IoDelivers: what is logged is written at the end only.
IoDeliversAtEnd ==
  /\ process \in {"returned", "exited"}
  /\ Log!Deliver
  /\ UNCHANGED <<vars, told>>

\* The thread of etiLog, which ends with the process.
IoDelivers ==
  /\ process \in {"running", "returned", "exited"}
  /\ Log!Deliver
  /\ UNCHANGED <<vars, told>>

\* exit(), of which returning from main is a form, runs etiLog's destructor.
DestroyLog ==
  /\ process \in {"returned", "exited"}
  /\ Log!BeginClose \/ (Log!Close /\ active' = {Console})
  /\ UNCHANGED <<vars, told>>

\* The child of the startup check, TSDuck, and signals.
OthersAct ==
  /\ \/ CheckEnds \/ ProcessorEnds
     \/ \E k \in 1..Len(sigs) :
          DefaultAction(sigs[k]) \/ HandleExit(sigs[k]) \/ HandleHangup(sigs[k])
  /\ UNCHANGED <<told, lvars>>

ProgramNext == MainActs \/ IoDelivers \/ DestroyLog \/ OthersAct

ProgramSpec == ProgramInit /\ [][ProgramNext]_pvars

\* main goes on when it can, and so does the thread of etiLog.  Neither the
\* child of the startup check nor TSDuck need ever end, and no signal need come.
FairProgramSpec == ProgramSpec /\ WF_pvars(MainActs) /\ WF_pvars(IoDelivers)

-----------------------------------------------------------------------------
(* Properties.                                                             *)

Shown(text) == \E k \in DOMAIN output[Console] : output[Console][k].text = text

\* Whoever reads the console, which is written later and by another thread,
\* reads what is still so: that the check was passed, that there is a service
\* or that there was none, and with which status main is about to return.
LogTellsTheTruth ==
  /\ Shown("check_ok") => check = "ok"
  /\ Shown("check_failed") => check = "failed" /\ tsproc = "none"
  /\ Shown("starting_up") => check \in {"none", "ok"}
  /\ Shown("not_started") \/ Shown("init_aborted") \/ Shown("caught") => tsproc = "none"
  /\ Shown("terminated") \/ Shown("done") => tsproc = "ended"
  /\ Shown("aborting") => returnCode # 0
  /\ Shown("done") => returnCode = 0

\* "Enable Logging to syslog conditionally": it begins before the startup
\* check, and nothing that the console gets from then on is missing in syslog.
SyslogMissesNothing ==
  LET console == output[Console]
      syslog == output[Syslog]
  IN syslog # <<>> =>
       syslog = console \/ (console[1].text = "no_priority" /\ syslog = Tail(console))

\* A service that runs is announced, for those who watch the log: the message
\* reaches the console in the end, unless the process ends first.
ServiceIsAnnounced == at = "wait" ~> Shown("starting_up") \/ process # "running"
=============================================================================
