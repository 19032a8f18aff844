---------------------------- MODULE ReadSmallFile ----------------------------
(***************************************************************************)
(* file_util::ReadSmallFile::readToString() (pallette/FileUtil.cpp), which *)
(* the Inspector and ProcessInfo read /proc with: read() may return less   *)
(* than it was asked for, and files of /proc have a size of 0.             *)
(***************************************************************************)
EXTENDS Naturals

CONSTANTS
    BufferBytes,    \* sizeof(buf_)
    FileSizes,      \* bound: the lengths of the file
    MaxReadSizes    \* bound: the values of maxSize

ASSUME FileAssumption ==
    BufferBytes \in Nat /\ FileSizes \subseteq Nat /\ MaxReadSizes \subseteq Nat

VARIABLES
    fileLength,     \* bytes that can be read
    statSize,       \* st_size: fileLength, or 0 for a file of /proc
    readLimit,      \* maxSize
    readSoFar,      \* content->size()
    reader,         \* "open", "stat", "reading" or "returned"
    readError       \* err, and which call set it last

fileVars == <<fileLength, statSize, readLimit, readSoFar, reader, readError>>

FileInit ==
    /\ fileLength \in FileSizes
    /\ statSize \in {0, fileLength}
    /\ readLimit \in MaxReadSizes
    /\ readSoFar = 0
    /\ reader = "open" /\ readError = "none"

\* The constructor; without a descriptor readToString() returns its errno.
OpenFile ==
    /\ reader = "open"
    /\ \/ reader' = "stat" /\ UNCHANGED readError
       \/ reader' = "returned" /\ readError' = "open"
    /\ UNCHANGED <<fileLength, statSize, readLimit, readSoFar>>

\* fstat(): a failure is remembered and the file is read all the same.
StatFile ==
    /\ reader = "stat"
    /\ reader' = "reading"
    /\ readError' \in {"none", "stat"}
    /\ UNCHANGED <<fileLength, statSize, readLimit, readSoFar>>

-----------------------------------------------------------------------------
(* A wrong variant: the buffer is filled whatever is left of maxSize.       *)

FullBuffer == BufferBytes

-----------------------------------------------------------------------------
ToRead == IF readLimit - readSoFar < BufferBytes THEN readLimit - readSoFar ELSE BufferBytes

\* One turn of the loop: some bytes, the end of the file, or an error
ReadBytes ==
    /\ reader = "reading"
    /\ readSoFar < readLimit
    /\ \/ \E n \in 1..ToRead :
             /\ n <= fileLength - readSoFar
             /\ readSoFar' = readSoFar + n
             /\ UNCHANGED <<reader, readError>>
       \/ /\ readSoFar = fileLength
          /\ reader' = "returned"
          /\ UNCHANGED <<readSoFar, readError>>
       \/ /\ reader' = "returned" /\ readError' = "read"
          /\ UNCHANGED readSoFar
    /\ UNCHANGED <<fileLength, statSize, readLimit>>

ReadEnough ==
    /\ reader = "reading"
    /\ readSoFar >= readLimit
    /\ reader' = "returned"
    /\ UNCHANGED <<fileLength, statSize, readLimit, readSoFar, readError>>

FileNext == OpenFile \/ StatFile \/ ReadBytes \/ ReadEnough

FileSpec == FileInit /\ [][FileNext]_fileVars

-----------------------------------------------------------------------------
\* However short the reads are, and whatever size the file claims to have, a
\* call that returns without an error has read the file or its first maxSize
\* bytes, and no call reads more.
FileReadWhole ==
    /\ readSoFar <= readLimit
    /\ (reader = "returned" /\ readError = "none")
          => readSoFar = (IF fileLength < readLimit THEN fileLength ELSE readLimit)

=============================================================================
