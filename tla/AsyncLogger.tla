----------------------------- MODULE AsyncLogger -----------------------------
(***************************************************************************)
(* log() (src/src/base/Logging.cpp) and the AsyncLogger behind it          *)
(* (AsyncLogger.cpp, FileUtils.cpp): any thread appends lines to the       *)
(* current buffer under the mutex, a writer thread takes all buffers once  *)
(* in a while and writes them to the file, and main() starts and stops the *)
(* logger with a LoggerLauncher.                                           *)
(*                                                                         *)
(* A line is a record of its number, its size and its level: log() puts it *)
(* together in a buffer of its own thread and appends it in one piece.     *)
(* Where one full buffer ends and the next begins makes no difference to   *)
(* the file, so a vector of buffers is one sequence of lines here.         *)
(***************************************************************************)
EXTENDS Naturals, Sequences, SequencesExt

CONSTANTS Line,         \* lines the program logs, each once
          Size,         \* of a FixedBuffer
          MaxLaunches   \* bound: LoggerLaunchers one after the other

FATAL == 4              \* LogLevel::FATAL

\* log() puts a line together in a FixedBuffer of the same size, which is never
\* filled to its end.
ASSUME LineAssumption ==
    /\ Size \in Nat
    /\ \A l \in Line : l.size \in 1..(Size - 1) /\ l.level \in 0..FATAL

VARIABLES
    gLogLevel,      \* lines below it are not logged
    buffers,        \* _buffers: full buffers
    currBuffer,     \* _currBuffer
    emptyBuffer,    \* of threadFunc: what _currBuffer is swapped with
    writeBuffers,   \* of threadFunc: taken and not yet written
    cache,          \* what the FILE of AppendFile holds back
    disk,           \* kernel: what has left the FILE
    running,        \* _running
    writer,         \* where the writer thread is
    owner,          \* the LoggerLauncher: "none", "up", "joining"
    launches,       \* number of LoggerLaunchers so far
    program,        \* "runs", "dying": log() is about to abort(), "dead"
    logged,         \* history: lines that went into a buffer, in order
    lost            \* history: lines given up by AppendFile::append or by abort()

logvars == <<gLogLevel, buffers, currBuffer, emptyBuffer, writeBuffers, cache, disk,
             running, writer, owner, launches, program, logged, lost>>
files == <<cache, disk>>

Alive == program # "dead"

LogInit ==
    /\ gLogLevel = 0
    /\ buffers = <<>> /\ currBuffer = <<>> /\ emptyBuffer = <<>> /\ writeBuffers = <<>>
    /\ cache = <<>> /\ disk = <<>>
    /\ running = FALSE /\ writer = "none" /\ owner = "none" /\ launches = 0
    /\ program = "runs"
    /\ logged = <<>> /\ lost = {}

-----------------------------------------------------------------------------
(* The callers of log() *)

\* FixedBuffer::avail
avail(b) == Size - FoldSeq(LAMBDA l, n : l.size + n, 0, b)

\* FixedBuffer::append leaves out what does not fit.
FixedAppend(b, l) == IF avail(b) <= l.size THEN b ELSE Append(b, l)

\* AsyncLogger::append, all of it under the mutex.
AppendLine(l) ==
    LET full == avail(currBuffer) <= l.size
    IN  /\ buffers' = IF full THEN buffers \o currBuffer ELSE buffers
        /\ currBuffer' = FixedAppend(IF full THEN <<>> ELSE currBuffer, l)
        /\ logged' = Append(logged, l)

\* log(): below the level it returns at once; a FATAL line is the last.
LogLine(l) ==
    /\ Alive /\ l \notin ToSet(logged) /\ l.level >= gLogLevel
    /\ AppendLine(l)
    /\ program' = IF l.level >= FATAL THEN "dying" ELSE program
    /\ UNCHANGED <<gLogLevel, emptyBuffer, writeBuffers, files, running, writer, owner,
                   launches, lost>>

\* abort() ends all threads; the FILE is not flushed, though some of it may have
\* been written already.
Abort ==
    /\ program = "dying"
    /\ program' = "dead"
    /\ \E k \in 0..Len(cache) :
          /\ disk' = disk \o SubSeq(cache, 1, k)
          /\ lost' = lost \cup ToSet(SubSeq(cache, k + 1, Len(cache)))
    /\ cache' = <<>>
    /\ UNCHANGED <<gLogLevel, buffers, currBuffer, emptyBuffer, writeBuffers, running,
                   writer, owner, launches, logged>>

-----------------------------------------------------------------------------
(* The file *)

\* fflush()
Flush == disk' = disk \o cache /\ cache' = <<>>

\* A new LogFile takes the place of the old one, whose fclose() flushes; files
\* are opened for appending.
SetPath == Flush

-----------------------------------------------------------------------------
(* AsyncLogger::threadFunc *)

WriterChecks ==
    /\ Alive /\ writer = "top"
    /\ writer' = IF running THEN "waiting" ELSE "done"
    /\ UNCHANGED <<gLogLevel, buffers, currBuffer, emptyBuffer, writeBuffers, files,
                   running, owner, launches, program, logged, lost>>

\* The wait has a time limit, so it may end whatever the callers do.
WriterTakes ==
    /\ Alive /\ writer = "waiting"
    /\ writeBuffers' = buffers \o currBuffer
    /\ buffers' = <<>>
    /\ currBuffer' = emptyBuffer
    /\ emptyBuffer' = currBuffer
    /\ writer' = "writing"
    /\ UNCHANGED <<gLogLevel, files, running, owner, launches, program, logged, lost>>

\* AppendFile::append: fwrite() takes as much as it likes, again and again ...
WriterWrites ==
    /\ Alive /\ writer = "writing"
    /\ \E k \in 1..Len(writeBuffers) :
          /\ cache' = cache \o SubSeq(writeBuffers, 1, k)
          /\ writeBuffers' = SubSeq(writeBuffers, k + 1, Len(writeBuffers))
    /\ UNCHANGED <<gLogLevel, buffers, currBuffer, emptyBuffer, disk, running, writer,
                   owner, launches, program, logged, lost>>

\* ... and when it takes nothing the rest of the buffer is given up.
WriterGivesUp ==
    /\ Alive /\ writer = "writing"
    /\ \E k \in 1..Len(writeBuffers) :
          /\ lost' = lost \cup ToSet(SubSeq(writeBuffers, 1, k))
          /\ writeBuffers' = SubSeq(writeBuffers, k + 1, Len(writeBuffers))
    /\ UNCHANGED <<gLogLevel, buffers, currBuffer, emptyBuffer, files, running, writer,
                   owner, launches, program, logged>>

WriterEndsUnreset ==
    /\ Alive /\ writer = "writing" /\ writeBuffers = <<>>
    /\ Flush
    /\ writer' = "top"
    /\ UNCHANGED <<gLogLevel, buffers, currBuffer, emptyBuffer, writeBuffers, running,
                   owner, launches, program, logged, lost>>

WriterEndsUnflushed ==
    /\ Alive /\ writer = "writing" /\ writeBuffers = <<>>
    /\ emptyBuffer' = <<>>
    /\ writer' = "top"
    /\ UNCHANGED <<gLogLevel, buffers, currBuffer, writeBuffers, files, running,
                   owner, launches, program, logged, lost>>

\* flush(), and emptyBuffer, which is the buffer the writer took last, is reset.
WriterEnds ==
    /\ Alive /\ writer = "writing" /\ writeBuffers = <<>>
    /\ Flush
    /\ emptyBuffer' = <<>>
    /\ writer' = "top"
    /\ UNCHANGED <<gLogLevel, buffers, currBuffer, writeBuffers, running, owner,
                   launches, program, logged, lost>>

-----------------------------------------------------------------------------
(* LoggerLauncher *)

\* setLogLevel(), setPath() and start().
Launch(level) ==
    /\ Alive /\ owner = "none" /\ launches < MaxLaunches
    /\ gLogLevel' = level
    /\ SetPath
    /\ running' = TRUE /\ writer' = "top"
    /\ emptyBuffer' = <<>>
    /\ owner' = "up" /\ launches' = launches + 1
    /\ UNCHANGED <<buffers, currBuffer, writeBuffers, program, logged, lost>>

\* stop(): nothing wakes the writer ...
StopLogger ==
    /\ Alive /\ owner = "up"
    /\ running' = FALSE
    /\ owner' = "joining"
    /\ UNCHANGED <<gLogLevel, buffers, currBuffer, emptyBuffer, writeBuffers, files,
                   writer, launches, program, logged, lost>>

\* ... and join() waits for it.
JoinWriter ==
    /\ Alive /\ owner = "joining" /\ writer = "done"
    /\ owner' = "none" /\ writer' = "none"
    /\ UNCHANGED <<gLogLevel, buffers, currBuffer, emptyBuffer, writeBuffers, files,
                   running, launches, program, logged, lost>>

-----------------------------------------------------------------------------

Writer == WriterChecks \/ WriterTakes \/ WriterWrites \/ WriterGivesUp \/ WriterEnds

LogNext ==
    \/ \E l \in Line : LogLine(l)
    \/ Abort
    \/ WriterChecks \/ WriterTakes \/ WriterWrites \/ WriterGivesUp \/ WriterEnds
    \/ \E level \in {0, 2} : Launch(level)
    \/ StopLogger \/ JoinWriter

\* The operating system runs the writer and the thread in join(); nobody has to
\* log or to stop.
LogFairness == WF_logvars(Writer) /\ WF_logvars(JoinWriter)

LogSpec == LogInit /\ [][LogNext]_logvars /\ LogFairness

-----------------------------------------------------------------------------
(* Properties *)

\* Lines reach the file in the order in which they were logged, none twice (each is
\* logged once) and none left out but those that a failing device or abort() took,
\* through every rotation of the buffers, restart of the logger and change of the
\* file (AsyncLogger::append and AsyncLogger::threadFunc).
LogInOrder ==
    LET kept == disk \o cache \o writeBuffers \o buffers \o currBuffer
    IN  /\ ToSet(kept) = ToSet(logged) \ lost
        /\ \A i, j \in DOMAIN kept : i < j =>
              \E m, n \in DOMAIN logged : m < n /\ logged[m] = kept[i] /\ logged[n] = kept[j]

\* The logger's thread gets its work done without being woken: a line logged
\* while the logger runs is in the file at last, unless stop(), a failing device
\* or abort() comes before (lines that come after the writer's last swap stay in
\* the buffer when stop() returns), and stop() returns.
LoggerProgress ==
    /\ \A l \in Line :
          (l \in ToSet(logged) /\ running)
             ~> (l \in ToSet(disk) \/ ~running \/ l \in lost \/ program = "dead")
    /\ (owner = "joining") ~> (owner = "none" \/ program = "dead")
=============================================================================
