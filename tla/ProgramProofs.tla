----------------------------- MODULE ProgramProofs -----------------------------
(***************************************************************************)
(* What holds of the life of the process whatever the configuration says,  *)
(* however many inputs it has, and whichever signals come when; and of the *)
(* process with its log, which is the process of MuxMPE, so that all that  *)
(* is proved of that one holds of it.                                      *)
(***************************************************************************)
EXTENDS Program, TLAPS

-----------------------------------------------------------------------------
(* The process alone.  Each property depends on where main has been, so    *)
(* the inductive invariant says for each place what the other variables    *)
(* can be there.                                                           *)

\* The check is over, with success, or was not asked for, once main is past
\* it; it runs at its own place only.
CheckInv ==
  /\ at \in {"version", "handlers", "init", "configured"} => check = "none"
  /\ at # "checking" => check \in {"none", "ok"}

\* The processor exists only where main waits for it and after that.
ProcessorInv ==
  /\ tsproc # "none" => at \in {"wait", "finish"}
  /\ at = "finish" => returnCode # 0 \/ tsproc = "ended"

\* The destination has been read where the options are built from it, and
\* nothing that they are built from changes any more.
OptionsInv ==
  /\ at \in {"debug", "options"} => dest \in Destinations
  /\ opt # None => at \in {"start", "wait", "finish"} /\ opt = Arguments(dest, inputs)

\* The loop over sigs ends in time.
HandlersInv == at \in {"version", "handlers"} => handlers < Len(sigs)

IInv ==
  /\ TypeOK
  /\ CheckInv
  /\ ProcessorInv
  /\ OptionsInv
  /\ HandlersInv
  /\ SuccessIsEarned

-----------------------------------------------------------------------------
\* The signals are four.
LEMMA SigsLen == Len(sigs) = 4
  BY DEF sigs

\* The options built from a destination and a list of inputs are of their
\* type, and the list of sources of mpeinject has one for each input.
LEMMA ArgumentsType ==
  ASSUME NEW d \in Destinations, NEW i \in Seq(Inputs),
         d.output \in {"srt", "udp"}
  PROVE  Arguments(d, i) \in Options
<1>1. [k \in 1..Len(i) |-> i[k].source] \in Seq(Sources)
  <2>1. \A k \in 1..Len(i) : i[k] \in Inputs
    OBVIOUS
  <2>2. \A k \in 1..Len(i) : i[k].source \in Sources
    BY <2>1 DEF Inputs
  <2> QED BY <2>2
<1>2. d.payload_pid \in Pids /\ d.pmt_pid \in Pids /\ d.ts_id \in Ids /\ d.service_id \in Ids
  BY DEF Destinations
<1> QED BY <1>1, <1>2 DEF Arguments, Options

\* The invariant holds at the start of main.
LEMMA InitIInv == Init => IInv
  BY SigsLen DEF Init, IInv, TypeOK, CheckInv, ProcessorInv, OptionsInv, HandlersInv,
     SuccessIsEarned, Inputs

-----------------------------------------------------------------------------
\* main on its way to the end of the configuration.
LEMMA SetupStep ==
  ASSUME IInv,
         PrintVersion \/ NoVersion \/ InstallHandler \/ SigactionFails
           \/ InitException \/ StandardException \/ ReadConfiguration
           \/ NoStartupCheck \/ RunStartupCheck \/ CheckPassed \/ CheckFailed
  PROVE  IInv'
  <1> USE DEF IInv, TypeOK, CheckInv, ProcessorInv, OptionsInv, HandlersInv,
              SuccessIsEarned, Goto, Moves, Return, Ends, signals, peers, config
  <1>1. CASE PrintVersion
    BY <1>1 DEF PrintVersion
  <1>2. CASE NoVersion
    BY <1>2, SigsLen DEF NoVersion
  <1>3. CASE InstallHandler
    BY <1>3, SigsLen DEF InstallHandler
  <1>4. CASE SigactionFails
    BY <1>4 DEF SigactionFails
  <1>5. CASE InitException
    BY <1>5 DEF InitException
  <1>6. CASE StandardException
    BY <1>6 DEF StandardException
  <1>7. CASE ReadConfiguration
    BY <1>7 DEF ReadConfiguration
  <1>8. CASE NoStartupCheck
    BY <1>8 DEF NoStartupCheck
  <1>9. CASE RunStartupCheck
    BY <1>9 DEF RunStartupCheck
  <1>10. CASE CheckPassed
    BY <1>10 DEF CheckPassed
  <1>11. CASE CheckFailed
    BY <1>11 DEF CheckFailed
  <1> QED
    BY <1>1, <1>2, <1>3, <1>4, <1>5, <1>6, <1>7, <1>8, <1>9, <1>10, <1>11

\* main with the configuration in hand, up to the options.
LEMMA ConfigurationStep ==
  ASSUME IInv,
         AddInput \/ BadInputs \/ InputsRead \/ ReadOutput \/ BadOutput
           \/ ReadDebugLevel \/ NoDebugLevel \/ BuildOptions \/ NoSuchOutput
  PROVE  IInv'
  <1> USE DEF IInv, TypeOK, CheckInv, ProcessorInv, OptionsInv, HandlersInv,
              SuccessIsEarned, Goto, Moves, Return, Abort, Ends, signals, peers, config
  <1>1. CASE AddInput
    BY <1>1 DEF AddInput
  <1>2. CASE BadInputs
    BY <1>2 DEF BadInputs
  <1>3. CASE InputsRead
    BY <1>3 DEF InputsRead
  <1>4. CASE ReadOutput
    BY <1>4 DEF ReadOutput
  <1>5. CASE BadOutput
    BY <1>5 DEF BadOutput
  <1>6. CASE ReadDebugLevel
    BY <1>6 DEF ReadDebugLevel
  <1>7. CASE NoDebugLevel
    BY <1>7 DEF NoDebugLevel
  <1>8. CASE BuildOptions
    BY <1>8, ArgumentsType DEF BuildOptions
  <1>9. CASE NoSuchOutput
    BY <1>9 DEF NoSuchOutput
  <1> QED
    BY <1>1, <1>2, <1>3, <1>4, <1>5, <1>6, <1>7, <1>8, <1>9

\* The processor, the ends of main, and what the child and TSDuck do.
LEMMA ServiceStep ==
  ASSUME IInv,
         StartProcessor \/ StartFails \/ WaitForTermination \/ Finish
           \/ CheckEnds \/ ProcessorEnds
  PROVE  IInv'
  <1> USE DEF IInv, TypeOK, CheckInv, ProcessorInv, OptionsInv, HandlersInv,
              SuccessIsEarned, Goto, Moves, Return, Ends, signals, peers, config
  <1>1. CASE StartProcessor
    BY <1>1 DEF StartProcessor
  <1>2. CASE StartFails
    BY <1>2 DEF StartFails
  <1>3. CASE WaitForTermination
    BY <1>3 DEF WaitForTermination
  <1>4. CASE Finish
    BY <1>4 DEF Finish
  <1>5. CASE CheckEnds
    BY <1>5 DEF CheckEnds
  <1>6. CASE ProcessorEnds
    BY <1>6 DEF ProcessorEnds
  <1> QED
    BY <1>1, <1>2, <1>3, <1>4, <1>5, <1>6

\* A signal ends the process as it stands, or changes nothing but running.
LEMMA SignalStep ==
  ASSUME IInv, NEW sig,
         DefaultAction(sig) \/ HandleExit(sig) \/ HandleHangup(sig)
  PROVE  IInv'
  <1> USE DEF IInv, TypeOK, CheckInv, ProcessorInv, OptionsInv, HandlersInv,
              SuccessIsEarned, Killed, Ends, signals, peers, config
  <1>1. CASE DefaultAction(sig)
    BY <1>1 DEF DefaultAction
  <1>2. CASE HandleExit(sig)
    BY <1>2 DEF HandleExit
  <1>3. CASE HandleHangup(sig)
    <2>1. CASE Killed
      BY <2>1
    <2>2. CASE /\ running' = FALSE
               /\ UNCHANGED <<at, returnCode, process, status, handlers, sigpipe,
                              peers, config>>
      <3>1. running' \in BOOLEAN
        BY <2>2, Zenon
      <3>2. UNCHANGED <<at, returnCode, process, status, handlers, sigpipe,
                        peers, config>>
        BY <2>2
      <3> QED
        BY <3>1, <3>2
    <2> QED
      BY <1>3, <2>1, <2>2, Zenon DEF HandleHangup
  <1> QED
    BY <1>1, <1>2, <1>3

\* The invariant is inductive.
LEMMA NextIInv == IInv /\ [Next]_vars => IInv'
  <1> SUFFICES ASSUME IInv, [Next]_vars PROVE IInv'
    OBVIOUS
  <1>1. CASE MainStep
    BY <1>1, SetupStep, ConfigurationStep, ServiceStep DEF MainStep
  <1>2. CASE CheckEnds \/ ProcessorEnds
    BY <1>2, ServiceStep
  <1>3. CASE \E k \in 1..Len(sigs) :
               DefaultAction(sigs[k]) \/ HandleExit(sigs[k]) \/ HandleHangup(sigs[k])
    BY <1>3, SignalStep
  <1>4. CASE UNCHANGED vars
    BY <1>4 DEF vars, IInv, TypeOK, CheckInv, ProcessorInv, OptionsInv, HandlersInv,
       SuccessIsEarned
  <1> QED
    BY <1>1, <1>2, <1>3, <1>4 DEF Next

-----------------------------------------------------------------------------
\* What holds wherever main is, for any configuration and any signals.
THEOREM ProcessInvariance == Spec => []IInv
  <1>1. Init => IInv
    BY InitIInv
  <1>2. IInv /\ [Next]_vars => IInv'
    BY NextIInv
  <1> QED
    BY <1>1, <1>2, PTL DEF Spec

\* Every variable keeps its type; what opt holds is what TSDuck can be given.
THEOREM ProcessTypes == Spec => []TypeOK
  <1>1. IInv => TypeOK
    BY DEF IInv
  <1> QED
    BY <1>1, ProcessInvariance, PTL

\* Nothing is transmitted while the startup check runs or after it has failed.
THEOREM CheckGates == Spec => []CheckGatesStart
  <1>1. IInv => CheckGatesStart
    BY DEF IInv, CheckInv, ProcessorInv, CheckGatesStart
  <1> QED
    BY <1>1, ProcessInvariance, PTL

\* A status of 0 is returned after --version or a completed service only.
THEOREM SuccessEarned == Spec => []SuccessIsEarned
  <1>1. IInv => SuccessIsEarned
    BY DEF IInv
  <1> QED
    BY <1>1, ProcessInvariance, PTL

\* The tables and mpeinject describe one service, whatever was configured.
THEOREM OneServiceDescribed == Spec => []OneService
  <1>1. IInv => OneService
    <2> SUFFICES ASSUME IInv, opt # None PROVE OneService
      BY DEF OneService
    <2>1. opt = Arguments(dest, inputs) /\ inputs \in Seq(Inputs)
      BY DEF IInv, OptionsInv, TypeOK
    <2>2. /\ opt.pat.service_id = opt.pmt.service_id
          /\ opt.pat.service_id = opt.sdt.service_id
          /\ opt.pmt.elementary_PID = opt.mpe.pid
      BY <2>1 DEF Arguments
    <2>3. opt.mpe.sources = [k \in 1..Len(inputs) |-> inputs[k].source]
      BY <2>1 DEF Arguments
    <2>4. Len(inputs) \in Nat
      BY <2>1
    <2>5. Len(opt.mpe.sources) = Len(inputs)
      BY <2>3, <2>4
    <2> QED
      BY <2>2, <2>3, <2>5 DEF OneService
  <1> QED
    BY <1>1, ProcessInvariance, PTL

-----------------------------------------------------------------------------
(* The process with its log: the log tells the truth.  A message is read   *)
(* long after it was logged.  So each one is given a condition, Firm, that *)
(* is true when main logs it and that no later step can undo; it is        *)
(* stronger than what the message says, for it also tells how far main has *)
(* got.                                                                    *)


\* What main can still log once it has logged these.
AfterStart == {"starting_up", "not_started", "terminated", "exiting", "aborting", "done"}
AfterAbort == {"init_aborted", "caught", "exiting", "aborting", "done"}
AfterService == {"terminated", "exiting", "aborting", "done"}

Firm == {text \in Texts \cup {"nothing"} :
    /\ text = "check_ok" => check = "ok"
    /\ text = "check_failed" => check = "failed" /\ tsproc = "none"
    /\ text = "starting_up" => check \in {"none", "ok"} /\ told \in AfterStart
    /\ text = "not_started" => tsproc = "none" /\ told = "not_started"
    /\ text \in {"init_aborted", "caught"} => tsproc = "none" /\ told \in AfterAbort
    /\ text = "terminated" => tsproc = "ended" /\ told \in AfterService
    /\ text = "aborting" => returnCode # 0 /\ told = "aborting"
    /\ text = "done" => returnCode = 0 /\ tsproc = "ended" /\ told = "done"}

AllFirm(messages) == \A k \in DOMAIN messages : messages[k].text \in Firm

LogInv ==
  /\ told \in Firm
  /\ AllFirm(todo)
  /\ AllFirm(output[Console])

PInv == IInv /\ TypesOK /\ LogInv

-----------------------------------------------------------------------------
\* What main does of itself is one of the steps of MuxMPE, all the rest of
\* the composition leaves its variables alone or is one of the others' steps.
LEMMA ProgramStep == ProgramNext => [Next]_vars
  <1> SUFFICES ASSUME ProgramNext PROVE [Next]_vars
    OBVIOUS
  <1>1. CASE Tell
    BY <1>1 DEF Tell, TellNoPriority, TellInitAborted, TellCaught, TellChecking,
       TellCheckOk, TellCheckFailed, TellStartingUp, TellNotStarted, TellTerminated,
       TellExiting, TellEnd, Tells
  <1>2. CASE Proceeds
    BY <1>2 DEF Proceeds, LeavesInit, Next, MainStep
  <1>3. CASE EnableSyslog \/ IoDelivers \/ DestroyLog
    BY <1>3 DEF EnableSyslog, IoDelivers, DestroyLog
  <1>4. CASE OthersAct
    BY <1>4 DEF OthersAct, Next
  <1> QED
    BY <1>1, <1>2, <1>3, <1>4 DEF ProgramNext, MainActs

\* The composition implements the process of MuxMPE.
THEOREM ProgramIsMux == ProgramSpec => Spec
  <1>1. ProgramInit => Init
    BY DEF ProgramInit
  <1>2. [ProgramNext]_pvars => [Next]_vars
    BY ProgramStep DEF pvars
  <1> QED
    BY <1>1, <1>2, PTL DEF ProgramSpec, Spec

-----------------------------------------------------------------------------
\* A message that main logs is of its type, with its text.
LEMMA MessageType ==
  ASSUME NEW text \in Texts
  PROVE  Message(text) \in Messages /\ Message(text).text = text
  BY DEF Message, Messages

\* The process begins with an empty log.
LEMMA InitPInv == ProgramInit => PInv
  <1> SUFFICES ASSUME ProgramInit PROVE PInv
    OBVIOUS
  <1>1. IInv
    BY InitIInv DEF ProgramInit
  <1>2. TypesOK
    BY <1>1 DEF ProgramInit, Log!Init, TypesOK, IInv
  <1>3. LogInv
    BY DEF ProgramInit, Log!Init, LogInv, AllFirm, Firm, Console, Syslog
  <1> QED
    BY <1>1, <1>2, <1>3 DEF PInv

\* What main can log at a time, where it is then.
LEMMA TellCases ==
  ASSUME IInv, told \in Firm, Tell
  PROVE  \E text \in Texts : Tells(text) /\ text \in Firm'
  <1> USE DEF Texts, LevelOf, Tells, Firm, vars, AfterStart, AfterAbort, AfterService,
              IInv, CheckInv, ProcessorInv
  <1>1. CASE TellNoPriority
    BY <1>1 DEF TellNoPriority
  <1>2. CASE TellInitAborted
    BY <1>2 DEF TellInitAborted, TypeOK
  <1>3. CASE TellChecking
    BY <1>3 DEF TellChecking
  <1>4. CASE TellCheckOk
    BY <1>4 DEF TellCheckOk
  <1>5. CASE TellCheckFailed
    BY <1>5 DEF TellCheckFailed, TypeOK
  <1>6. CASE TellStartingUp
    BY <1>6 DEF TellStartingUp, Fresh
  <1>7. CASE TellNotStarted
    BY <1>7 DEF TellNotStarted, TypeOK
  <1>8. CASE TellTerminated
    BY <1>8 DEF TellTerminated
  <1>9. CASE TellExiting
    BY <1>9 DEF TellExiting
  <1>10. CASE TellEnd
    BY <1>10 DEF TellEnd
  <1>11. CASE TellCaught
    BY <1>11 DEF TellCaught, TypeOK
  <1> QED
    BY <1>1, <1>2, <1>3, <1>4, <1>5, <1>6, <1>7, <1>8, <1>9, <1>10, <1>11 DEF Tell

\* No step undoes what a message stands for.
LEMMA FirmStays ==
  ASSUME IInv, IInv', told \in Firm, ProgramNext, NEW text \in Firm
  PROVE  text \in Firm'
  <1> USE DEF Firm, AfterStart, AfterAbort, AfterService
  <1>1. CASE Tell
    BY <1>1 DEF Tell, TellNoPriority, TellInitAborted, TellCaught, TellChecking,
       TellCheckOk, TellCheckFailed, TellStartingUp, TellNotStarted, TellTerminated,
       TellExiting, TellEnd, Tells, Fresh, vars
  <1>2. CASE Proceeds
    <2>1. told' = told
      BY <1>2 DEF Proceeds
    <2>2. CASE LeavesInit
      BY <2>1, <2>2 DEF LeavesInit, InitException, StandardException, ReadConfiguration,
         RunStartupCheck, NoStartupCheck, CheckPassed, CheckFailed, Moves, Goto, Return,
         Ends, Fresh, peers, config, IInv, CheckInv, TypeOK
    <2>3. CASE told = "starting_up" /\ StartProcessor
      BY <2>1, <2>3 DEF StartProcessor, Goto, IInv, CheckInv
    <2>4. CASE \/ PrintVersion \/ NoVersion \/ InstallHandler \/ SigactionFails
               \/ AddInput \/ BadInputs \/ InputsRead \/ ReadOutput \/ BadOutput
               \/ ReadDebugLevel \/ NoDebugLevel \/ BuildOptions \/ NoSuchOutput
               \/ StartFails \/ WaitForTermination \/ Finish
      <3>1. UNCHANGED <<check, tsproc, returnCode>>
        BY <2>4 DEF PrintVersion, NoVersion, InstallHandler, SigactionFails, AddInput,
           BadInputs, InputsRead, ReadOutput, BadOutput, ReadDebugLevel, NoDebugLevel,
           BuildOptions, NoSuchOutput, StartFails, WaitForTermination, Finish, Moves,
           Goto, Return, Abort, Ends, peers
      <3> QED
        BY <2>1, <3>1
    <2> QED
      BY <1>2, <2>2, <2>3, <2>4 DEF Proceeds
  <1>3. CASE EnableSyslog \/ IoDelivers \/ DestroyLog
    BY <1>3 DEF EnableSyslog, IoDelivers, DestroyLog, vars
  <1>4. CASE OthersAct
    <2>1. told' = told
      BY <1>4 DEF OthersAct
    <2>2. CASE CheckEnds
      BY <2>1, <2>2 DEF CheckEnds
    <2>3. CASE ProcessorEnds
      BY <2>1, <2>3 DEF ProcessorEnds
    <2>4. ASSUME NEW sig, DefaultAction(sig) \/ HandleExit(sig) \/ HandleHangup(sig)
          PROVE  UNCHANGED <<check, tsproc, returnCode>>
      BY <2>4 DEF DefaultAction, HandleExit, HandleHangup, Killed, Ends, peers
    <2> QED
      BY <1>4, <2>1, <2>2, <2>3, <2>4 DEF OthersAct
  <1> QED
    BY <1>1, <1>2, <1>3, <1>4 DEF ProgramNext, MainActs

\* A message joins the queue, or leaves it, or stays in it.
LEMMA FirmQueue ==
  ASSUME NEW s \in Seq(Messages), AllFirm(s)
  PROVE  /\ \A m \in Messages : m.text \in Firm => AllFirm(Append(s, m))
         /\ s # <<>> => AllFirm(Tail(s)) /\ Head(s).text \in Firm
  BY DEF AllFirm

\* What the log gets and what main has logged, in each kind of step.
LEMMA TellInv ==
  ASSUME PInv, IInv', Firm \subseteq Firm', Tell
  PROVE  TypesOK' /\ LogInv'
  <1>1. PICK text \in Texts : Tells(text) /\ text \in Firm'
    BY TellCases DEF PInv, LogInv
  <1>2. /\ told' = text /\ todo' = Append(todo, Message(text))
        /\ UNCHANGED <<active, output, state>>
    BY <1>1 DEF Tells, Log!Accepts
  <1>3. Message(text) \in Messages /\ Message(text).text = text
    BY MessageType
  <1>4. TypesOK'
    BY <1>2, <1>3 DEF PInv, TypesOK, IInv
  <1>5. AllFirm(todo)'
    BY <1>1, <1>2, <1>3 DEF PInv, LogInv, AllFirm, TypesOK
  <1>6. AllFirm(output[Console])'
    BY <1>2 DEF PInv, LogInv, AllFirm
  <1> QED
    BY <1>1, <1>2, <1>4, <1>5, <1>6 DEF LogInv

LEMMA DeliverInv ==
  ASSUME PInv, IInv', Firm \subseteq Firm', IoDelivers
  PROVE  TypesOK' /\ LogInv'
  <1> DEFINE m == Head(todo)
  <1>1. /\ todo # <<>> /\ todo' = Tail(todo)
        /\ UNCHANGED <<told, active, state>>
        /\ output' = [s \in {Console, Syslog} |->
                        IF s \in active /\ Takes(s, m.level)
                        THEN Append(output[s], m) ELSE output[s]]
    BY DEF IoDelivers, Log!Deliver, Line
  <1>2. todo \in Seq(Messages) /\ output \in [{Console, Syslog} -> Seq(Messages)]
    BY DEF PInv, TypesOK
  <1>3. m \in Messages /\ Tail(todo) \in Seq(Messages) /\ m.text \in Firm
    BY <1>1, <1>2, FirmQueue DEF PInv, LogInv
  <1> HIDE DEF m
  <1>4. output' \in [{Console, Syslog} -> Seq(Messages)]
    BY <1>1, <1>2, <1>3
  <1>5. TypesOK'
    BY <1>1, <1>3, <1>4 DEF PInv, TypesOK, IInv
  <1>6. AllFirm(todo)'
    BY <1>1, <1>2 DEF PInv, LogInv, AllFirm
  <1>7. AllFirm(output[Console])'
    <2>1. output'[Console] = Append(output[Console], m) \/ output'[Console] = output[Console]
      BY <1>1
    <2>2. output[Console] \in Seq(Messages)
      BY <1>2
    <2>3. AllFirm(Append(output[Console], m)) /\ AllFirm(output[Console])
      BY <1>3, <2>2, FirmQueue DEF PInv, LogInv
    <2>4. AllFirm(output'[Console])
      BY <2>1, <2>3
    <2> QED
      BY <2>4 DEF AllFirm
  <1> QED
    BY <1>1, <1>5, <1>6, <1>7 DEF PInv, LogInv

LEMMA QuietInv ==
  ASSUME PInv, IInv', Firm \subseteq Firm', Proceeds \/ EnableSyslog \/ DestroyLog \/ OthersAct
  PROVE  TypesOK' /\ LogInv'
  <1>1. UNCHANGED <<told, todo, output>>
    BY DEF Proceeds, EnableSyslog, DestroyLog, OthersAct, Log!Activate, Log!BeginClose,
       Log!Close, lvars
  <1>2. /\ Console \in active' /\ active' \subseteq {Console, Syslog}
        /\ state' \in {"open", "closing", "closed"}
    BY DEF PInv, TypesOK, Proceeds, EnableSyslog, DestroyLog, OthersAct, Log!Activate,
       Log!BeginClose, Log!Close, lvars
  <1>3. TypesOK'
    BY <1>1, <1>2 DEF PInv, TypesOK, IInv
  <1>4. LogInv'
    BY <1>1 DEF PInv, LogInv, AllFirm
  <1> QED
    BY <1>3, <1>4

\* The invariant is inductive.
LEMMA NextPInv == PInv /\ [ProgramNext]_pvars => PInv'
  <1> SUFFICES ASSUME PInv, [ProgramNext]_pvars PROVE PInv'
    OBVIOUS
  <1>1. CASE ProgramNext
    <2>1. IInv'
      BY <1>1, ProgramStep, NextIInv DEF PInv
    <2>2. Firm \subseteq Firm'
      BY <1>1, <2>1, FirmStays DEF PInv, LogInv
    <2> QED
      BY <1>1, <2>1, <2>2, TellInv, DeliverInv, QuietInv DEF ProgramNext, MainActs, PInv
  <1>2. CASE UNCHANGED pvars
    <2>1. IInv'
      BY <1>2, NextIInv DEF pvars, PInv
    <2>2. TypesOK'
      BY <1>2, <2>1 DEF pvars, lvars, PInv, TypesOK, IInv
    <2>3. LogInv'
      BY <1>2 DEF pvars, lvars, vars, PInv, LogInv, AllFirm, Firm
    <2> QED
      BY <2>1, <2>2, <2>3 DEF PInv
  <1> QED
    BY <1>1, <1>2

-----------------------------------------------------------------------------
\* Process and log together, for any configuration.
LEMMA ProgramInvariance == ProgramSpec => []PInv
  <1>1. ProgramInit => PInv
    BY InitPInv
  <1>2. PInv /\ [ProgramNext]_pvars => PInv'
    BY NextPInv
  <1> QED
    BY <1>1, <1>2, PTL DEF ProgramSpec

\* Every variable of the process and of its log keeps its type.
THEOREM ProgramTypes == ProgramSpec => []TypesOK
  <1>1. PInv => TypesOK
    BY DEF PInv
  <1> QED
    BY <1>1, ProgramInvariance, PTL

\* What the console shows of the check, the service and the end is so, however
\* late it shows it.
THEOREM TruthInLog == ProgramSpec => []LogTellsTheTruth
  <1>1. PInv => LogTellsTheTruth
    <2> SUFFICES ASSUME PInv PROVE LogTellsTheTruth
      OBVIOUS
    <2>1. \A text : Shown(text) => text \in Firm
      BY DEF PInv, LogInv, AllFirm, Shown
    <2> QED
      BY <2>1 DEF LogTellsTheTruth, Firm
  <1> QED
    BY <1>1, ProgramInvariance, PTL

\* What is proved of the process of MuxMPE holds of the process with its log:
\* nothing is transmitted while the startup check runs or after it has failed.
THEOREM ProgramGated == ProgramSpec => []CheckGatesStart
  BY ProgramIsMux, CheckGates, PTL

\* A status of 0 is earned with the log beside main too, however late the
\* messages are written.
THEOREM ProgramEarns == ProgramSpec => []SuccessIsEarned
  BY ProgramIsMux, SuccessEarned, PTL

\* The tables and mpeinject describe one service there too.
THEOREM ProgramDescribes == ProgramSpec => []OneService
  BY ProgramIsMux, OneServiceDescribed, PTL

-----------------------------------------------------------------------------
(* Nothing is missing in syslog.  When it is enabled main has logged that  *)
(* the priority could not be set, or nothing; from then on both sinks get  *)
(* the same.                                                               *)

NoPriority == Message("no_priority")

Follows(console, syslog) ==
  \/ syslog = console
  \/ console # <<>> /\ console[1].text = "no_priority" /\ syslog = Tail(console)

\* The log while main has logged no more than that.
FreshInv ==
  /\ told = "nothing" => output[Console] = <<>> /\ todo = <<>>
  /\ told = "no_priority" =>
       \/ output[Console] = <<>> /\ todo = <<NoPriority>>
       \/ output[Console] = <<NoPriority>> /\ todo = <<>>

SyslogInv ==
  /\ Syslog \in active => Follows(output[Console], output[Syslog])
  /\ Syslog \notin active /\ state # "closed" => output[Syslog] = <<>>
  /\ output[Syslog] # <<>> => Follows(output[Console], output[Syslog])

\* Both sinks get a message.
LEMMA FollowsOn ==
  ASSUME NEW c \in Seq(Messages), NEW s \in Seq(Messages), NEW m \in Messages,
         Follows(c, s)
  PROVE  Follows(Append(c, m), Append(s, m))
  <1>1. CASE s = c
    BY <1>1 DEF Follows
  <1>2. CASE c # <<>> /\ c[1].text = "no_priority" /\ s = Tail(c)
    <2>1. Append(c, m) # <<>> /\ Append(c, m)[1] = c[1]
      BY <1>2
    <2>2. Append(Tail(c), m) = Tail(Append(c, m))
      BY <1>2
    <2> QED
      BY <1>2, <2>1, <2>2 DEF Follows
  <1> QED
    BY <1>1, <1>2 DEF Follows

\* The log with that one message.
LEMMA OneMessage ==
  /\ Append(<<>>, NoPriority) = <<NoPriority>>
  /\ Head(<<NoPriority>>) = NoPriority /\ Tail(<<NoPriority>>) = <<>>
  /\ <<NoPriority>> # <<>> /\ <<NoPriority>>[1].text = "no_priority"
  <1>1. NoPriority.text = "no_priority"
    BY DEF NoPriority, Message
  <1> QED
    BY <1>1

\* No message of main is of level trace.
LEMMA BothTake ==
  ASSUME NEW m \in Messages
  PROVE  Takes(Console, m.level) /\ Takes(Syslog, m.level)
  BY DEF Messages, Message, Texts, LevelOf, Takes

LEMMA NextSyslogInv ==
  ASSUME PInv, FreshInv, SyslogInv, [ProgramNext]_pvars
  PROVE  FreshInv' /\ SyslogInv'
  <1> USE DEF FreshInv, SyslogInv
  <1>1. Console # Syslog
    BY DEF Console, Syslog
  <1>2. CASE Tell
    <2>1. PICK text \in Texts : Tells(text) /\ text \in Firm'
      BY <1>2, TellCases DEF PInv, LogInv
    <2>2. /\ told' = text /\ todo' = Append(todo, Message(text))
          /\ UNCHANGED <<active, output, state>>
      BY <2>1 DEF Tells, Log!Accepts
    <2>3. text # "nothing"
      BY DEF Texts, LevelOf
    <2>4. text = "no_priority" => told = "nothing"
      BY <1>2, <2>2 DEF Tell, TellNoPriority, TellInitAborted, TellCaught, TellChecking,
         TellCheckOk, TellCheckFailed, TellStartingUp, TellNotStarted, TellTerminated,
         TellExiting, TellEnd, Tells
    <2>5. CASE text = "no_priority"
      <3>1. output'[Console] = <<>> /\ todo' = Append(<<>>, NoPriority)
        BY <2>2, <2>4, <2>5 DEF NoPriority
      <3> QED
        BY <2>2, <2>5, <3>1, OneMessage
    <2>6. CASE text # "no_priority"
      BY <2>2, <2>3, <2>6
    <2> QED
      BY <2>2, <2>5, <2>6
  <1>3. CASE IoDelivers
    <2> DEFINE m == Head(todo)
    <2>1. /\ state # "closed" /\ todo # <<>> /\ todo' = Tail(todo)
          /\ UNCHANGED <<told, active, state>>
          /\ output' = [s \in {Console, Syslog} |->
                          IF s \in active /\ Takes(s, m.level)
                          THEN Append(output[s], m) ELSE output[s]]
      BY <1>3 DEF IoDelivers, Log!Deliver, Line
    <2>2. /\ todo \in Seq(Messages) /\ output \in [{Console, Syslog} -> Seq(Messages)]
          /\ Console \in active
      BY DEF PInv, TypesOK
    <2>3. m \in Messages
      BY <2>1, <2>2
    <2>4. Takes(Console, m.level) /\ Takes(Syslog, m.level)
      BY <2>3, BothTake
    <2>5. output'[Console] = Append(output[Console], m)
      BY <2>1, <2>2, <2>4
    <2>6. FreshInv'
      <3>1. told # "nothing"
        BY <2>1
      <3>2. ASSUME told = "no_priority"
            PROVE  output'[Console] = <<NoPriority>> /\ todo' = <<>>
        <4>1. output[Console] = <<>> /\ todo = <<NoPriority>>
          BY <2>1, <3>2
        <4>2. m = NoPriority /\ todo' = <<>>
          BY <2>1, <4>1, OneMessage
        <4> QED
          BY <2>5, <4>1, <4>2, OneMessage
      <3> QED
        BY <2>1, <3>1, <3>2
    <2> HIDE DEF m
    <2>7. CASE Syslog \in active
      <3>1. output'[Syslog] = Append(output[Syslog], m)
        BY <2>1, <2>4, <2>7
      <3>2. Follows(output'[Console], output'[Syslog])
        BY <2>2, <2>3, <2>5, <2>7, <3>1, FollowsOn
      <3> QED
        BY <2>1, <2>6, <2>7, <3>2 DEF Follows
    <2>8. CASE Syslog \notin active
      <3>1. output'[Syslog] = <<>>
        BY <2>1, <2>8
      <3> QED
        BY <2>1, <2>6, <2>8, <3>1
    <2> QED
      BY <2>7, <2>8
  <1>4. CASE EnableSyslog
    <2>1. /\ told \in {"nothing", "no_priority"}
          /\ UNCHANGED <<told, todo, output, state>>
          /\ state # "closed" /\ active \subseteq active'
          /\ active' \subseteq {Console, Syslog} /\ Console \in active
      BY <1>4 DEF EnableSyslog, Fresh, Log!Activate, PInv, TypesOK
    <2>2. Syslog \notin active => Follows(output[Console], output[Syslog])
      BY <2>1, OneMessage DEF Follows
    <2> QED
      BY <2>1, <2>2 DEF Follows
  <1>5. CASE Proceeds \/ OthersAct \/ UNCHANGED pvars
    BY <1>5 DEF Proceeds, OthersAct, pvars, lvars, Follows
  <1>6. CASE DestroyLog
    <2>1. /\ UNCHANGED <<told, todo, output>>
          /\ \/ active' = active /\ state = "open" /\ state' = "closing"
             \/ active' = {Console} /\ state' = "closed"
      BY <1>6 DEF DestroyLog, Log!BeginClose, Log!Close
    <2> QED
      BY <1>1, <2>1 DEF Follows
  <1> QED
    BY <1>2, <1>3, <1>4, <1>5, <1>6 DEF ProgramNext, MainActs

\* Whatever the console shows from the time syslog is enabled, syslog has.
THEOREM SyslogComplete == ProgramSpec => []SyslogMissesNothing
  <1>1. ProgramInit => FreshInv /\ SyslogInv
    BY DEF ProgramInit, Log!Init, FreshInv, SyslogInv, Follows, Console, Syslog
  <1>2. PInv /\ FreshInv /\ SyslogInv /\ [ProgramNext]_pvars => FreshInv' /\ SyslogInv'
    BY NextSyslogInv
  <1>3. SyslogInv => SyslogMissesNothing
    BY DEF SyslogInv, Follows, SyslogMissesNothing
  <1> QED
    BY <1>1, <1>2, <1>3, ProgramInvariance, PTL DEF ProgramSpec
=============================================================================
