------------------------------- MODULE LogFile -------------------------------
(***************************************************************************)
(* LogFile and AppendFile (pallette/LogFile.cpp, FileUtil.cpp): a log that *)
(* is written through stdio and rolled over to a new file by size and by   *)
(* day.  The functions are operators on a record f of the members.  A file *)
(* is named by the second it was opened in (getLogFileName); f.lines are   *)
(* the lines of all files in order, the last f.unflushed of which are      *)
(* still in the stdio buffer.                                              *)
(***************************************************************************)
EXTENDS Integers, Sequences, FiniteSets, SequencesExt

CONSTANTS
    RollSize,        \* rollSize_
    FlushInterval,   \* flushInterval_ of the file, in seconds
    CheckEveryN,     \* checkEveryN_
    RollPerSeconds   \* kRollPerSeconds_: seconds of a day

\* Every log line n of the model has a length.
Length(n) == 1 + (n % 2)
Size(lines) == FoldSeq(LAMBDA n, sum : sum + Length(n), 0, lines)

\* now / kRollPerSeconds_ * kRollPerSeconds_
Period(now) == (now \div RollPerSeconds) * RollPerSeconds

\* The name has seconds: within one second there is only one file.
MayRoll(f, now) == now > f.lastRoll

\* rollFile(): the new file is opened, then fclose() writes out the old one.
RollFile(f, now) ==
    IF ~MayRoll(f, now) THEN f
    ELSE [f EXCEPT !.lastRoll = now, !.lastFlush = now,
                   !.startOfPeriod = Period(now), !.writtenBytes = 0,
                   !.unflushed = 0,
                   !.files = Append(@, now)]

NewLogFile(now) ==
    RollFile([files |-> <<>>, lines |-> <<>>, writtenBytes |-> 0,
              unflushed |-> 0, count |-> 0, startOfPeriod |-> 0,
              lastRoll |-> 0, lastFlush |-> 0], now)

Flush(f) == [f EXCEPT !.unflushed = 0]

\* AppendFile::append(), with a disk that is not full
WriteLines(f, lines) ==
    [f EXCEPT !.lines = @ \o lines,
              !.unflushed = @ + Len(lines),
              !.writtenBytes = @ + Size(lines)]

\* appendUnloked(): roll by size, else every checkEveryN_ calls look at the
\* clock, and roll by day or flush.
AppendLines(f, lines, now) ==
    LET g == WriteLines(f, lines)
        h == [g EXCEPT !.count = (@ + 1) % CheckEveryN]
    IN  CASE g.writtenBytes > RollSize -> RollFile(g, now)
          [] g.writtenBytes <= RollSize /\ h.count # 0 -> h
          [] OTHER ->
               IF Period(now) # h.startOfPeriod THEN RollFile(h, now)
               ELSE IF now - h.lastFlush > FlushInterval
                    THEN Flush([h EXCEPT !.lastFlush = now])
                    ELSE h

\* What of it the kernel has
Flushed(f) == SubSeq(f.lines, 1, Len(f.lines) - f.unflushed)

=============================================================================
