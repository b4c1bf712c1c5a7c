# ODR-MuxMPE in TLA+

ODR-MuxMPE reads a configuration file, builds the PAT, PMT and SDT of a
one-service transport stream, and starts a TSDuck processor that injects UDP
inputs into it as MPE sections. Its own code is small: a `main` that goes from the
configuration to the processor, a logger with a thread of its own, the thread-safe
queue between the two, and libraries inherited from ODR-DabMux. This directory
models that code, checks the models with TLC and proves the most important results
with TLAPS.

Paths below are those of the repository: `lib/...` and `src/...` (the program's
own `src` directory).

## 1. Inventory

| component | state | operations | modelled |
|---|---|---|---|
| `ThreadsafeQueue` (`lib/ThreadsafeQueue.h`) | `the_queue`, `the_mutex`, two condition variables, `wakeup_requested` | `push`, `push_wait_if_full`, `trigger_wakeup`, `notify`, `empty`/`size`, `try_pop`, `wait_and_pop` | yes |
| `Logger`, the global `etiLog` (`lib/Log.*`, `lib/Globals.cpp`) | `m_message_queue`, `m_io_thread`, `m_backend_mutex`, `backends` | `log`/`logstr`/`LogLine`, `register_backend`, `io_process`, constructor, destructor | yes |
| Log backends (`lib/Log.*`) | syslog, file, console | `log(level, message)` | levels and order only |
| `main` (`src/MuxMPE.cpp`) | `returnCode`, `pt`, `inputs`, `dest`, `opt`, the processor | start, startup check, configuration, processor, return | yes |
| Signal handling (`src/MuxMPE.cpp:75-145`) | dispositions, `running` | `signalHandler` | yes |
| Configuration to tables (`src/MuxMPE.cpp:300-393`) | the XML texts and plugin arguments | string building | PIDs, ids, sources, kind of output |
| MPEG frame reader (`src/mpeg.c`) | a file descriptor, a buffer | `readData`, `readMpegHeader`, `readMpegFrame`, header functions | yes |
| DAB time and MJD (`src/utils.cpp`) | `dab_time_seconds`, `dab_time_millis` | `update_dab_time`, `get_dab_time`, `gregorian2mjd` | yes |
| String helpers (`src/utils.*`) | none | `stringEndsWith`, conversions | as the predicate that `main` makes of it |
| CRC (`lib/crc.*`) | three tables | `init_crcNtab`, `crc8`, `crc16`, `crc32` | yes |
| EBU Latin (`lib/charset/charset.*`) | a table | the constructor, `utf8_to_ebu`, `ebu_to_utf8` | yes |
| utf8-cpp (`lib/charset/utf8*`) | none | decoding with its checks, `find_invalid`, `is_valid`, `utf8to32`, `append` | these, which the character set is built on |
| boost::property_tree, TSDuck, `src/PcDebug.h` | | | no: external, or unused |

`Makefile.am` does not build `mpeg.c` and `crc.c`, and nothing calls the DAB time,
the MJD or the character set. They are the library part of the repository and came
after the program itself here.

**How the parts interact.** Every thread that logs calls `ThreadsafeQueue::push`.
The io thread of the logger is the queue's only consumer; it writes each message to
the backends under `m_backend_mutex`, which `register_backend` (called by `main`)
and the destructor also take. `etiLog` is a global object: its destructor runs
inside `exit()`, which is called when `main` returns, and also by `signalHandler`,
on whatever thread the signal interrupted. `main` waits for a child process
(`system()`, the startup check) and for TSDuck's threads. It logs as it
goes and does not wait for the io thread; syslog is registered between two messages.

**What is hard.**

* Interleaving: `push` and `wait_and_pop` notify after the unlock; waits return
  spuriously; `notify_one` wakes one of several sleepers; backends are registered
  while the io thread holds a message.
* Ordering: a wakeup overtakes the elements pushed before it.
* Termination: the destructor joins the io thread, and runs in a signal handler.
* Failure: reads that are short or fail; a startup check that is killed; exceptions
  after the `try` block of `main`.
* Lateness: what the log says is read when `main` is somewhere else.
* Boundaries: the queue at `max_size`, the carry of the DAB time, the search limit
  of the sync word, leap years, the three corrections of the CRC tables, overlong and
  truncated UTF-8, NUL, which the EBU table lacks.

`PROJECT.json` lists these hazards at their lines, each with the properties that
are about it or the reason why there is none.

**What makes each component correct.**

* Queue: a linearizable FIFO with no lost wakeup, whose two ends never wait for
  each other, and whose blocking calls return when they can.
* Logger: every message written once, in order, to the backends of its time and
  level; the io thread and the destructor do not race for the backends; `exit()`
  ends.
* `main`: no transmission without a passed check; no failure that returns 0; one
  service in all tables; nothing else to wait for; a log that says what is so.
* MPEG reader: the first header of the file, frames in one piece, calls that return.
* Functions: equal to what a calendar, a clock, the bit rate, a polynomial division
  or the Unicode table of well-formed sequences says; conversions that can be undone.

## 2. Modules

| module | what it is | code |
|---|---|---|
| `BlockingFifo` | abstract: a FIFO with atomic calls | |
| `ThreadsafeQueue` | the queue, step by step | `lib/ThreadsafeQueue.h` |
| `ThreadsafeQueueProofs` | its proofs | |
| `LogStream` | abstract: messages written in order | |
| `Logger` | the logger; has the queue as `Q == INSTANCE ThreadsafeQueue` | `lib/Log.*`, `signalHandler`, end of `main` |
| `LoggerProofs` | its proofs | |
| `MuxMPE` | the life of the process | `src/MuxMPE.cpp` |
| `Program` | `MuxMPE` with its messages, composed with `LogStream` | the calls of `etiLog` in `src/MuxMPE.cpp` |
| `ProgramProofs` | the proofs of both, `MuxMPE` first | |
| `MpegReader` | reading frames | `src/mpeg.c:123-221` |
| `MpegReaderProofs` | its proofs | |
| `MpegFrame` | functions of one header | `src/mpeg.c:28-120, 223-246` |
| `DabTime` | the DAB time | `src/utils.cpp:40-61` |
| `Mjd` | `gregorian2mjd` against a calendar | `src/utils.cpp:64-77` |
| `Crc` | table-driven CRCs and their tables | `lib/crc.c` |
| `CrcTables` | the tables of the file, entry by entry | `lib/crc.c:32-169` |
| `CrcProofs` | its proofs | |
| `Utf8` | decoding and encoding | `lib/charset/utf8/{core,checked}.h` |
| `Charset` | EBU Latin and back; extends `Utf8` | `lib/charset/charset.cpp` |
| `CharsetProofs` | the proofs of both | |
| `InductionProofs` | induction and recursion over the naturals, lemmas stated over sets | |
| `Utilities` | `MpegFrame`, `DabTime`, `Mjd`, `Crc` and `Charset` beside each other | |
| `UtilitiesProofs` | its proofs: the headers, the clock and the calendar there, the rest from `CrcProofs` and `CharsetProofs` | |
| `MCThreadsafeQueue`, `MCLogger`, `MCMpegReader`, `MCUtilities` | bounds and values for TLC | |

### ThreadsafeQueue

A thread's `pc` says where it is in a method: `lock` (it wants the mutex), `locked`
(it has it and is about to do the body), `rx_wait`/`tx_wait` (asleep on a condition
variable, the mutex released), `notify_rx`/`notify_tx` (the body is done and the
mutex released, `notify_one` is still to come), `idle`. Between two of these points
the code runs under the mutex, so that one step is enough. `call` holds method and
arguments, `ret` the result. `Lock`, `Unlock`, `NotifyOne` and `SpuriousWakeup` are
the C++ library as the code uses it. A threshold of 0 and a prebuffering of 0 are
excluded by `QueueAssumption`: the first blocks for ever, the second takes the front
of a queue that may be empty. `NotifyOne` hands the sleeper over to `lock`; it
re-evaluates its condition, as the `while` loops do.

### Logger

`Log`, `RegisterBackend`, `RegisterLock`, `RegisterBody` are the threads that log;
`IoPop`, `IoWoken`, `IoLock`, `IoWrite` are `io_process`; `ReturnFromMain`, `Signal`
and the `Exit...` actions are `exit()` and `~Logger`, an execution of its own called
`Exit`, on top of the thread `host`, which does not go on meanwhile. Every queue
method is a call of `Q`, so all its steps interleave with those of the logger.
`IoWrite` is one step: the whole loop over the backends is under `m_backend_mutex`,
and what a backend does with a line is its own I/O. The wording of a line is left
out, except for the trailing newline that `io_process` removes. There is one exit
only: a second signal during the handler is not modelled. Nobody in the repository
logs an empty message, so there is none (`message.length()-1` would wrap).

### MuxMPE

`at` is the place in `main`; the configuration is not a variable but a choice at
the point where the code reads it. A read that throws after the `try` block is
`Abort`. `InitException` and `StandardException` are the handlers of the `try` block; the
second stands for the four of them that nothing in the block is seen to need, and comes
from any place before the startup check. `handlers` counts the installed handlers, so that a signal before the
last `sigaction` has its default action. `check` is the child of `system()`, which
ignores SIGINT and SIGQUIT while the child runs. SIGHUP and SIGQUIT make the handler send
SIGPIPE to the process group: no handler is installed for it, so the process is
killed, unless it was started with SIGPIPE ignored (`sigpipe`). `Arguments` is the
string building of lines 346-371 with the texts left out. `-1` as exit status is 255.
The model does not look into TSDuck: the processor starts or fails to, runs, and
may end. `MuxMPE` says nothing of the log.

### Program

`Program` extends `MuxMPE` by the messages. `told` is the last one that `main` has
logged: each `Tell...` action is one call of `etiLog`, at its place in the code, with
its level, and `Proceeds` lets the steps of `MuxMPE` go on only after the messages
that the code has before them. The other side is `LogStream`, the abstract log that
`Logger` is shown to implement; so this is the composition of two components through
the specification of one of them. `EnableSyslog` is lines 203-207, `IoDelivers` the io
thread, `DestroyLog` the destructor in `exit()`, which may end with messages left. A
process that is killed or aborts stops where it is, its log too. SIGINT and SIGTERM
interrupt `main` here; `Logger` has them on other threads, and with `main` inside the
logger.

### MpegReader, MpegFrame

Each `read()` is a step: `ReadSome` (any part of what is asked for), `ReadEnd`,
`ReadAgain` (EAGAIN), `ReadFails`. `readData` is recursive in the code with `tries`
going down; here it is the variables `left`, `tries`, `got`, `failed`, and
`Returned(n)` is its result. A byte is known only by what the code asks of it:
first or second byte of a sync word, and the frame length it announces as the third
byte. `Results` is what calls may have returned. `MpegFrame` has the real fields, bit rates and lengths; its type invariant
says that the lengths are those that `MpegReader` assumes (-1, 0, 4 or more). In the
shift `*syncword >>= 8` the last of the four bytes is garbage until the next one is
read; the model has three bytes there.

### DabTime, Mjd

`update_dab_time` with the time of the first call chosen; `gregorian2mjd` with the
truncated half day of the C expression, which is positive from the epoch on.

### Crc

A word is the set of its bits that are 1, so that 32 bits do not exceed TLC's integers,
and `^` is the symmetric difference. The three widths have the same code but for
constants, so they are one definition with the width as a parameter. Of the tables in
the file the module has the entries at the powers of two and makes each other one as
the exclusive or of those of its bits. That the 256 numbers in the file are these is not taken
for granted: `CrcTables` has them all, and TLC compares each of the 768 with its word in
`Crc` before the run begins (`TablesAssumption` in `MCUtilities`; no proof uses it).
`InitTable` is `init_crc8tab` and its two siblings, called with an `l_init` of ones, for
which their last step is made. `CrcIsRemainder` compares the register with a division
of polynomials that knows of no tables.

### Utf8, Charset

A text is a sequence of octets and an iterator an index into it. `validate_next`
returns what the C++ function returns by value and by reference: error, iterator, code
point. `Charset` has the 255 entries of the table as code points, and `append` makes
of them the UTF-8 that stands in the file. A behaviour takes a string to the other side
and back; `utf8_to_ebu` with `up_to_first_error` stops at the first fault, without it it
throws. A character that the table lacks becomes a space. NUL becomes U+2047.

## 3. Runs

All runs have `CHECK_DEADLOCK FALSE`, because all of them really stop: the calls and
messages are bounded, the process ends, a file has an end. That nobody waits for ever
is said by properties instead.

| run | shows | bounds |
|---|---|---|
| `queue_safety` | `ConsumerNotStranded`, `ProducerNotStranded`, `NoStandoff`, `ImplementsFifo` (326 thousand states) | two producers, one consumer, two calls each in any mixture of methods, two values, `max_size` none or 2, threshold 2, prebuffering 1 or 2, spurious wakeups; symmetry in producers and values |
| `queue_liveness` | `ImplementsFairFifo`: calls whose condition stays true return | the same threads and calls, one value, no limit, threshold 1, prebuffering 1; no symmetry |
| `queue_prebuffering` | violation of `MinimumBeforeTaking` | one thread on either side |
| `logger_safety` | `ImplementsLogStream`, `NoWriteAfterJoin`, `BackendsStableWhileWriting` (402 thousand states) | two threads that log, three messages, a backend to register, levels info, trace and discard, one spurious wakeup |
| `logger_liveness` | `ImplementsFairLogStream`, `CleanExitTerminates` | one thread, two messages, signals on main, the io thread and a thread of TSDuck |
| `logger_shutdown` | violation of `LoggedIsWritten` | as above, no signals |
| `logger_signal` | violation of `HandlerNeverSelfDeadlocks` | as above, a signal on main |
| `mux_process` | `CheckGatesStart`, `SuccessIsEarned`, `OneService`, `LogTellsTheTruth`, `SyslogMissesNothing`, `MainSettles`, `ServiceIsAnnounced` (673 thousand states) | `Program`: one input, two sources, two PIDs, two ids, all signals everywhere |
| `mux_pmt`, `mux_sdt` | violations of `PmtIsWherePatSays`, `SdtIsOfThisStream` | `MuxMPE`: up to two inputs |
| `mpeg_reader` | `HeaderIsFirstSync`, `FrameIsWhole`, `CallsReturn` (770 thousand states) | all files of up to seven bytes over three kinds of byte; frames of six bytes, invalid ones and ones of length 0; one byte of search where the code has 1200 |
| `utilities` | `DabFrameLength`, `MasksMatchFields`, `MjdCountsDays`, `TimeIsFrames`, `CrcIsRemainder`, `ConvertsWellFormedPrefix`, `ThereAndBack` (431 thousand states) | all 131072 headers; all days from 1858 to 2101; 300 frames; the CRCs of up to three bytes of five values, from zeros and ones, with two polynomials per width, and all entries of the tables in the file; texts of up to three octets out of 15, and of four behind a lead of four; 256 times 16 strings of two EBU bytes |

A run whose properties are invariants also checks the type invariant of its module.

Why the bounds are enough. Two producers are the least with which a notification
can go to the wrong sleeper, or a fresh producer can overtake the one that was woken;
with two calls each, a limit of 2 is reached and left again. Three messages of two
threads with a backend registered in between show every order of registration and
writing. In `mux_process` the two sources, PIDs and ids are what `OneService` needs to
tell one field from another; more inputs multiply the states and add only turns of
the loop, and the theorem `OneServiceDescribed` has any number of them. `mux_pmt` and
`mux_sdt` have two inputs, with which a uid can be doubled. The octets of `utilities`
are a lead of each kind, the special ones (E0, ED, F0, F4) and invalid ones (C1, F8)
among them, and both sides of every boundary that a second octet has. The bytes for the
CRCs are the lowest bit, the highest, a mixture, none and all; with three of them, and
with registers of 8, 16 and 32 bits, a byte meets what earlier bytes have left, what
they have not reached yet, and the first value of the register, zeros or ones.
Seven bytes hold a header behind a byte of rubbish, a frame behind one, a truncated
frame, and the end of the search. In the liveness runs the state graph is smaller,
since symmetry is not sound there.

Every property has a mutant of the code that breaks it (`PROJECT.json`, "mutants";
their definitions stand beside the originals): a notification left out or sent to
the wrong side, a limit that is off by one, a missing lock, a detached thread, a
check that runs in the background, a message that is logged before its condition is
looked at, a byte that is not complemented, an offset that is forgotten.

### Fairness

* Queue: weak fairness of each thread's own steps: a thread that the scheduler can
  run is run. Nothing is assumed of who gets the mutex, of calls being made, or of
  spurious wakeups. `ImplementsFairFifo` accordingly promises only that a call
  returns whose condition *stays* true.
* Logger: the same for the writers, the io thread and `Exit`. Nobody need log, no
  signal need come, `main` need not return.
* `main`: weak fairness of its own steps and, in `Program`, of the io thread's. Neither
  the startup check nor TSDuck need ever end, which is why `MainSettles` allows `main`
  to be there for ever, and why `ServiceIsAnnounced` has to hold while it waits.
* MPEG reader: `read()` returns, as it does on a descriptor that may say EAGAIN.
  What it returns is free: it may find nothing every time.

### What the violations say

1. `queue_prebuffering`: the header of `ThreadsafeQueue.h` promises a minimum given
   at creation. It is an argument of `wait_and_pop`, and `try_pop` takes from any
   queue that is not empty.
2. `logger_shutdown`: `~Logger` requests a wakeup, which overtakes the queued messages;
   the io thread ends and they are never written, the reason of a failed start among
   them.
3. `logger_signal`: a comment forbids `etiLog` in the signal handler because of its
   mutexes, but `exit(0)` there runs its destructor, which takes both. If the thread
   it interrupted holds one of them, the process hangs. (On the io thread itself
   the join throws and the process aborts; `CleanExitTerminates` shows that in all
   other cases it ends.)
4. `mux_pmt`: the PAT announces `pmt_pid`, the PMT is always sent on PID 256.
5. `mux_sdt`: the SDT's `transport_stream_id` is the `service_id`, the PAT's is `ts_id`.

## 4. Proofs

For every value of the constants, unless said otherwise:

| theorem | says |
|---|---|
| `ThreadsafeQueueProofs!Invariance`, `TypeCorrect` | types, mutual exclusion |
| `OneConsumerNotStranded` | one consumer, any number of producers: no notification to it is lost |
| `OneThresholdNotStranded` | one threshold, any finite number of threads: no producer sleeps on with room in the queue |
| `TwoEndsNoStandoff` | one consumer, one threshold that covers its minimum: no standoff |
| `Refinement` | the queue implements `BlockingFifo`, with any number of producers and consumers |
| `LoggerProofs!LoggerTypes`, `LoggerInvariance` | types; who holds `m_backend_mutex`, and what is over behind the join |
| `WritesEndBeforeClear`, `BackendsStable` | the io thread and the destructor, or `register_backend`, never meet at the backends |
| `LoggerImplementsStream` | the logger over its queue implements `LogStream`, with any writers, messages, levels and backends |
| `ProgramProofs!ProcessTypes`, `CheckGates`, `SuccessEarned`, `OneServiceDescribed` | the safety properties of the process, for any configuration and any number of inputs |
| `ProgramIsMux` | `Program` implements `MuxMPE`; `ProgramGated`, `ProgramEarns` and `ProgramDescribes` say so of each property |
| `ProgramTypes`, `TruthInLog`, `SyslogComplete` | the log tells the truth, and syslog misses nothing |
| `MpegReaderProofs!ReaderTypes`, `FirstSyncFound`, `FrameInOnePiece` | the safety properties of `mpeg_reader`, for files of any length, any search limit and any sizes |
| `UtilitiesProofs!DabFrames`, `MasksAgree` | lengths and masks, for every header, without going through them |
| `TimeCountsFrames` | the DAB time never drifts, for any number of frames |
| `CalendarFollowed` | `gregorian2mjd` counts the days, for any number of years |
| `CrcDivides` | a CRC is the remainder of the division, for any number of any bytes, by the tables in the file and by those that `init_crcNtab` builds from any polynomial of the width |
| `PrefixConverted`, `TripsReturn` | the conversion of the longest well-formed prefix, and the way there and back, for texts of any length and all octets |
| `TypesKept` | the types of these parts, the ranges of lengths and milliseconds among them |
| `CharsetProofs!AppendDecodes`, `DecodesOnlyAppended` | the decoder accepts the encoding of every valid code point and nothing else, anywhere in any text |

With these every safety property that a passing run checks, each invariant, each action
property and each refinement, is stated by a theorem. Three of them, those of the queue
about sleepers, are proved for the one consumer or the one threshold that their
theorems name as a hypothesis; all others for any values of the constants.

*The queue.* `TypeOK` is not inductive: `IInv` adds that the thread at `locked` is
the owner of the mutex (`MutexInv`) and which method can be where (`CallInv`), without
which one could not tell whose body a step is. `ConsumerNotStranded` is inductive on
top of it when the consumer is alone: every step that makes its condition true leaves
a thread at `notify_rx`, and such a thread leaves only by waking it.
With several producers asleep this is not so for them: one `notify_tx` wakes one of
them. `RoomInv` counts: when producers sleep, the threads that are on their way (the set
`Comers`: those about to notify and those that were woken or are fresh) are at least
as many as the free places. Each step is shown to keep the count, with the facts about
`Cardinality` from the library. With several thresholds the code does not have this
property, since a notification may reach the one producer that has no room; so the
theorem states it for one. `Refinement` maps a call to *pending* from its invocation
to the end of its body; taking effect is the body, all other steps stutter.

*The logger.* `LoggerStep` says what any step, those of the queue included, can do to
the logger's own variables. `JoinInv` (behind the join io_process has ended) and
`BackendMutexInv` (each holder of `m_backend_mutex` is between its lock and unlock)
are inductive over these steps, and the two action properties follow. For the
refinement one has to know what the queue does. `QP == INSTANCE ThreadsafeQueueProofs`
takes over the queue's invariant and its lemmas for `m_message_queue`; `CallsInv` adds
which methods the logger calls and that no message of level discard gets there, and
`PopInv` where the io thread is in its loop while it is in a method. `QueueEffect` then
sums a step of the queue up: a message is appended, taken, or nothing happens to the
content. The mapping is `todo`: the message in the hand of the io thread, followed by
the queue. A pop moves a message from one to the other and is a stutter.

*The process.* The properties look at one moment, so `IInv` says for each place in
`main` what the check (`CheckInv`), the processor and `returnCode` (`ProcessorInv`),
and the destination and the options (`OptionsInv`: the options are still the ones built
from the inputs as they are) can be. Signals either end the process, with all of this
kept, or change only `running`.

*The process and its log.* A message is read long after it was logged, so its truth has
to outlast all that `main` does in between. `Firm` gives each message a condition that
holds when it is logged and that no step can undo; it is stronger than what the message
says, since it also tells what can still be logged after it. All messages in `todo` and
on the console are firm, and this is inductive. For syslog, `FreshInv` says what can have
been logged before it is enabled (at most one message, written or not), and `SyslogInv`
that the two sinks agree from there on.

*The MPEG reader.* The buffer is filled by up to two reads per call of `readData`,
shifted by a byte and filled again. The invariant is that it is always a `Piece` of the
file that ends at the file offset; for each place there is where it begins, and up to
which offset no sync word has been passed. A read makes a piece longer, a shift makes it
begin later, and the rest is arithmetic on `got` and `left`.

*Induction over data.* The induction theorems of the library take an operator as a
parameter, which the provers cannot instantiate. `InductionProofs` states them with a
*set* for what is to be shown: `Induction` that a set of naturals with 0 and with the
successor of each member is all of them, `InductionUpTo` the same below a bound, and
`Recursion` that equations of which each looks only at values of a lower rank have a
solution. A recursive function of the model is a `CHOOSE` of one that satisfies its
equation; since there is one, the equation is a fact, and what the function computes can be
shown by induction on its argument.

*The utilities.* `UtilitiesInv` is the conjunction of an invariant for each part:
`ClockInv` (`TimeIsFrames`, and the clock at 0 before the first call), `DateInv`,
`FrameInv`, `CrcInv`, `CharsetInv`. A step is of one part and leaves the variables of the
others alone. `SameCrc` and `SameText` say that the instances of `Crc` and `Charset` that
`Utilities` makes are those that come with the theorems of `CrcProofs` and
`CharsetProofs`.

*The headers.* `Frequencies` and `Bitrates` give the entries of the tables by version and
layer, and bound them; `FrameLengths` follows from the bounds, `MaskedFields` from what each
mask leaves of the fields in a byte.

*The calendar.* Within a month the date advances by one and so does the result. At the
end of a month, `MonthEnds` compares the term `(m * 153 + 3) / 5` with the lengths of the
months one by one; February needs `LeapDay`, that the three divisions of the year step
up exactly after a leap year.

*The CRCs.* `Division(w, g, i, r)` says that `r` are the eight steps of dividing the byte
`i` by the polynomial `g` of width `w`. The entries that `init_crcNtab` builds are the last
of them (`EntryDivides`: the complement, the ones of the register and the last step of the
loop cancel). In the tables of the file each entry at a power of two is got from the one
before by a step of the division, and every other one is the sum of such (`SumDivides`).
`RemainderStep` is the heart: of the division of the message that is one byte longer the
first steps are those of the shorter one, and the last eight are the division of the byte
that the register and the new byte make of the table's index. So `CrcIsRemainder`, with the
polynomial being that of the table in use (`CodeOfTable`), is inductive.

*UTF-8.* Both directions by the four lengths, with the octets taken apart into six bits
at a time. That nothing but encodings is accepted holds because the check for overlong
forms and that for valid code points leave each length exactly its own range.

*The character set.* `CharsetInv` says what the strings of a trip are of each other: the
second is what `utf8_to_ebu` makes of the first, or nothing is there and `thrown` is what
the decoder found. The boundaries of the Unicode table of well-formed sequences are the
positions that the decoder passes, since a sequence is well-formed exactly when
`validate_next` accepts it; both loops, `find_invalid` and `utf8to32`, go along them,
so that there is a byte for each. For the way back, the encodings of the code points put one
behind the other are the text they were decoded from (by `DecodesOnlyAppended` for each of
them), decoding them gives the code points again (by `AppendDecodes`), and no two bytes have
the same character (`LatinInjective`).

The proofs rest on the `ASSUME` of each module only; TLC evaluates them in the runs.
`UtilitiesAssumption` says that the polynomials fit their tables and that octets have eight
bits, and that is all it says. `CrcProofs` speaks of the tables of `Crc`; that they are those
of the file is `TablesAssumption`, which TLC checks completely, there being nothing to vary.

**Model-checked only.** All liveness: `ImplementsFairFifo`, `ImplementsFairLogStream`,
`CleanExitTerminates`, `MainSettles`, `ServiceIsAnnounced` and `CallsReturn` (fairness
and ENABLED are out of the prover's reach here). The five violations are
counterexamples of TLC and nothing else.

**Not modelled.** TSDuck and boost: not this repository's code. Of utf8-cpp the
templates that nothing instantiates: utf-16, the iterators, `prior`,
`replace_invalid`, all of `unchecked.h`. Opening log files and syslog, time stamps and
formats: I/O and wording. Scheduling priority: no effect on what can happen.
`stringEndsWith` character by character. `src/PcDebug.h`: nobody includes it. PID
collisions in the configuration, the abort on an incomplete configuration, what SIGHUP
does, a second signal during the exit, the loss of a header that straddles two calls of
`readMpegHeader`, the length of a layer I frame, and reading on after an error are listed
as hazards without a property: the repository does not say what should happen.

## 5. Plan

Done, in this order: the queue with its abstract FIFO; the logger and the shutdown
composed with it; the process; the MPEG reader and the small functions; the CRCs and the
character set; the process composed with its log; the proofs of the refinement of
the logger, of the reader, the composition, the decoder and the calendar; induction over
data, and with it the proofs of the headers, the CRCs and the conversions.

What could follow:

1. `OneThresholdNotStranded` for several thresholds: which weaker condition than a single
   one is enough.
2. The composition in one step: `Program` over `Logger` over `ThreadsafeQueue`, so that
   `LogTellsTheTruth` is a theorem about the single steps of the queue and not only, through
   `LoggerImplementsStream`, about `LogStream`.
3. `find_invalid` and `is_valid` against `Boundaries` for every text, as theorems that stand
   beside `AppendDecodes`.
