---------------------------- MODULE AsyncLogging ----------------------------
(***************************************************************************)
(* AsyncLogging (pallette/AsyncLogging.cpp): front-end threads append to   *)
(* the current buffer under a mutex, the logging thread takes the full     *)
(* buffers and the current one, gives back two empty ones and writes them  *)
(* to a LogFile; an owner starts and stops it.  A buffer is the sequence   *)
(* of its lines; a spare buffer (nextBuffer_, newBuffer1, newBuffer2) is   *)
(* empty, and only whether it is there counts.                             *)
(***************************************************************************)
EXTENDS LogFile

CONSTANTS
    BufferSize,   \* bytes of a buffer
    MaxLines,     \* bound: lines appended
    MaxTime       \* bound: the clock

ASSUME LogAssumption == BufferSize \in Nat /\ BufferSize > 2 /\ MaxLines \in Nat

VARIABLES
    currentBuffer,  \* currentBuffer_
    nextBuffer,     \* nextBuffer_ is there
    buffers,        \* buffers_
    newBuffer1,     \* the logging thread's spare buffers are there
    newBuffer2,
    buffersToWrite,
    written,        \* how many of them the loop over them has written
    running,        \* running_
    owner,          \* where the owner is: constructor, start(), stop()
    logger,         \* where the logging thread is
    output,         \* its LogFile
    now,            \* time(NULL)
    appended,       \* history: the lines appended, in order
    assertFailed    \* an assertion of threadFunc() has failed

logVars == <<currentBuffer, nextBuffer, buffers, newBuffer1, newBuffer2,
             buffersToWrite, written, running, owner, logger, output, now, appended,
             assertFailed>>

LogInit ==
    /\ currentBuffer = <<>> /\ nextBuffer = TRUE /\ buffers = <<>>
    /\ newBuffer1 = TRUE /\ newBuffer2 = TRUE /\ buffersToWrite = <<>> /\ written = 0
    /\ running = FALSE /\ owner = "constructed" /\ logger = "unborn"
    /\ now = 1
    /\ output = [files |-> <<>>, lines |-> <<>>, unflushed |-> 0]
    /\ appended = <<>>
    /\ assertFailed = FALSE

-----------------------------------------------------------------------------
(* Wrong variants of definitions below, one plausible slip each.            *)

\* The current buffer is taken before the full ones.
CurrentFirst == <<currentBuffer>> \o buffers

\* The current buffer is exchanged and not written.
FullBuffersOnly == buffers

\* The logging thread waits for a full buffer, without a timeout.
WaitsForFull == buffers # <<>>

-----------------------------------------------------------------------------
(* The front end.                                                           *)

Fits(line) == BufferSize - Size(currentBuffer) > Length(line)

AppendLine ==
    /\ owner \in {"started", "stopping"}
    /\ Len(appended) < MaxLines
    /\ LET line == Len(appended) + 1
       IN  /\ appended' = Append(appended, line)
           /\ currentBuffer' = IF Fits(line) THEN Append(currentBuffer, line) ELSE <<line>>
           /\ buffers' = IF Fits(line) THEN buffers ELSE Append(buffers, currentBuffer)
           /\ nextBuffer' = (nextBuffer /\ Fits(line))
    /\ UNCHANGED <<newBuffer1, newBuffer2, buffersToWrite, written, running, owner, logger,
                   output, now, assertFailed>>

\* start(): running_ = true, the thread, and the latch it counts down
Start ==
    /\ \/ /\ owner = "constructed"
          /\ owner' = "starting" /\ running' = TRUE /\ logger' = "latch"
       \/ /\ owner = "starting" /\ logger # "latch"
          /\ owner' = "started" /\ UNCHANGED <<running, logger>>
    /\ UNCHANGED <<currentBuffer, nextBuffer, buffers, newBuffer1, newBuffer2,
                   buffersToWrite, written, output, now, appended, assertFailed>>

\* stop() or the destructor: running_ = false, notify, join
Stop ==
    /\ \/ owner = "started" /\ owner' = "stopping" /\ running' = FALSE
       \/ owner = "stopping" /\ logger = "finished" /\ owner' = "stopped" /\ UNCHANGED running
    /\ UNCHANGED <<currentBuffer, nextBuffer, buffers, newBuffer1, newBuffer2,
                   buffersToWrite, written, logger, output, now, appended, assertFailed>>

-----------------------------------------------------------------------------
(* The logging thread: threadFunc().                                        *)

Enter ==
    /\ logger = "latch"
    /\ assertFailed' = (assertFailed \/ ~running)
    /\ output' = NewLogFile(now)
    /\ logger' = "test"
    /\ UNCHANGED <<currentBuffer, nextBuffer, buffers, newBuffer1, newBuffer2,
                   buffersToWrite, written, running, owner, now, appended>>

\* while (running_), and the last flush and ~LogFile behind it
TestRunning ==
    /\ logger = "test"
    /\ assertFailed' = (assertFailed \/ (running /\ buffersToWrite # <<>>))
    /\ logger' = IF running THEN "wait" ELSE "finished"
    /\ output' = IF running THEN output ELSE Flush(output)
    /\ UNCHANGED <<currentBuffer, nextBuffer, buffers, newBuffer1, newBuffer2,
                   buffersToWrite, written, running, owner, now, appended>>

\* A full buffer, the notification of append() or stop(), a spurious wakeup or
\* the end of the flush interval: the thread goes on in any case.
WokenUp == TRUE

\* buffers_.push_back(currentBuffer_)
TakenBuffers == Append(buffers, currentBuffer)

\* The exchange under the mutex; a missing newBuffer1 would leave the front end
\* without a buffer.
SwapBuffers ==
    /\ logger = "wait"
    /\ WokenUp
    /\ buffersToWrite' = TakenBuffers
    /\ buffers' = <<>>
    /\ currentBuffer' = <<>>
    /\ newBuffer1' = FALSE
    /\ newBuffer2' = (newBuffer2 /\ nextBuffer)
    /\ nextBuffer' = TRUE
    /\ assertFailed' = (assertFailed \/ ~newBuffer1 \/ buffersToWrite' = <<>>)
    /\ logger' = "write"
    /\ UNCHANGED <<written, running, owner, output, now, appended>>

\* One turn of the loop over the buffers: output.append()
WriteBuffer ==
    /\ logger = "write"
    /\ written' = written + 1
    /\ output' = AppendLines(output, buffersToWrite[written + 1], now)
    /\ logger' = IF written + 1 < Len(buffersToWrite) THEN "write" ELSE "refill"
    /\ UNCHANGED <<currentBuffer, nextBuffer, buffers, newBuffer1, newBuffer2,
                   buffersToWrite, running, owner, now, appended, assertFailed>>

\* resize(2), the spare buffers from the back with their assertions, flush
Refill ==
    /\ logger = "refill"
    /\ LET needed == (IF newBuffer1 THEN 0 ELSE 1) + (IF newBuffer2 THEN 0 ELSE 1)
       IN  assertFailed' = (assertFailed \/ needed > Len(buffersToWrite))
    /\ newBuffer1' = TRUE
    /\ newBuffer2' = TRUE
    /\ buffersToWrite' = <<>> /\ written' = 0
    /\ output' = Flush(output)
    /\ logger' = "test"
    /\ UNCHANGED <<currentBuffer, nextBuffer, buffers, running, owner, now, appended>>

Tick ==
    /\ now < MaxTime
    /\ now' = now + 1
    /\ UNCHANGED <<currentBuffer, nextBuffer, buffers, newBuffer1, newBuffer2,
                   buffersToWrite, written, running, owner, logger, output, appended,
                   assertFailed>>

LoggerStep == Enter \/ TestRunning \/ SwapBuffers \/ WriteBuffer \/ Refill

LogNext == AppendLine \/ Start \/ Stop \/ LoggerStep \/ Tick

\* The logging thread is scheduled, and its wait ends with the flush interval.
LogFairness == WF_logVars(LoggerStep) /\ WF_logVars(Stop /\ owner = "stopping")

LogSpec == LogInit /\ [][LogNext]_logVars /\ LogFairness

-----------------------------------------------------------------------------
\* append() and the log files as the abstract queue
Lines == INSTANCE Fifo WITH
    Items <- 1..MaxLines, put <- appended, got <- output.lines

\* Refinement: through append(), the buffers that are swapped and refilled, and
\* the files, the lines stay in order and none is lost or doubled between others.
LogIsFifo == Lines!FifoSpec

\* The assertions of threadFunc() hold: in particular the buffers just written
\* always suffice to refill both spare buffers.
LogAssertionsHold == ~assertFailed

\* A line is in the kernel's hands after some time without stop(): by the
\* flush interval, not only when a buffer is full.
LineIsFlushed ==
    \A n \in 1..MaxLines :
        (n \in Range(appended) /\ running)
            ~> (n \in Range(Flushed(output)) \/ ~running)

=============================================================================
