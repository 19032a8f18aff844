------------------------------ MODULE TimeZone ------------------------------
(***************************************************************************)
(* The zone half of pallette/TimeZone.cpp: a zone file is read, and local  *)
(* times are computed from its transitions and back.  Time is counted in   *)
(* hours, and the file is the sequence of the numbers that are read from   *)
(* it: timecnt and typecnt, the transition times, their types, and an      *)
(* offset and a daylight saving flag for each type.                        *)
(***************************************************************************)
EXTENDS Integers, Sequences

CONSTANTS
    ZoneFiles,      \* bound: the files
    ZoneTimes       \* bound: the times converted

\* A file that the zone compiler wrote: as long as its counts say, each
\* transition to a type that it has
ZoneFile(file) ==
    /\ file \in Seq(Int) /\ Len(file) >= 2 /\ file[1] \in Nat /\ file[2] \in Nat
    /\ Len(file) = 2 + 2 * file[1] + 2 * file[2]
    /\ \A i \in 1..file[1] : file[2 + file[1] + i] \in 0..(file[2] - 1)

ASSUME ZoneAssumption == ZoneTimes \subseteq Int /\ \A f \in ZoneFiles : ZoneFile(f)

NoData == [transitions |-> <<>>, localtimes |-> <<>>]

\* readTimeZoneFile(): what was read before the end of a short file stays, and
\* the result is TRUE in any case.
ReadTimeZoneFile(file) ==
    LET timecnt == file[1]
        typecnt == file[2]
        typesAt == 2 + 2 * timecnt
        whole(i) == Len(file) >= typesAt + 2 * i
        types == CHOOSE n \in 0..typecnt : whole(n) /\ (n = typecnt \/ ~whole(n + 1))
        localtimes == [i \in 1..types |->
                         [gmtOffset |-> file[typesAt + 2 * i - 1],
                          isDst |-> file[typesAt + 2 * i] = 1]]
    IN  CASE Len(file) < typesAt -> NoData
          [] Len(file) >= typesAt /\ ~whole(typecnt) -> [NoData EXCEPT !.localtimes = localtimes]
          [] OTHER -> [localtimes |-> localtimes,
                       transitions |-> [i \in 1..timecnt |->
                          LET idx == file[2 + timecnt + i]
                          IN  [gmttime |-> file[2 + i], localtimeIdx |-> idx + 1,
                               localtime |-> file[2 + i] + localtimes[idx + 1].gmtOffset]]]

-----------------------------------------------------------------------------
(* A wrong variant: the hour that occurs twice is always the second one.    *)

NoHack(data, local, isDst, offset) == 0

-----------------------------------------------------------------------------
\* Comp: the field that is compared, by compareGmt
Compared(transition, compareGmt) ==
    IF compareGmt THEN transition.gmttime ELSE transition.localtime

\* findLocaltime(): lower_bound() gives the first transition not before t.
FindLocaltime(data, t, compareGmt) ==
    LET trans == data.transitions
        key(transition) == Compared(transition, compareGmt)
        notBefore == {i \in DOMAIN trans : key(trans[i]) >= t}
        lower == CHOOSE i \in notBefore : \A j \in notBefore : i <= j
        index == CASE notBefore = {} -> Len(trans)
                   [] notBefore # {} /\ key(trans[lower]) = t -> lower
                   [] OTHER -> lower - 1
    IN  IF trans = <<>> \/ t < key(trans[1]) THEN data.localtimes[1]
        ELSE data.localtimes[trans[index].localtimeIdx]

ToLocalTime(data, t) ==
    LET local == FindLocaltime(data, t, TRUE)
    IN  [time |-> t + local.gmtOffset, isDst |-> local.isDst]

\* "FIXME: HACK" of fromLocalTime(): the hour that occurs twice, in its first
\* occurrence; hours and minutes are compared, days are not.
Hack(data, local, isDst, offset) ==
    LET try == ToLocalTime(data, local - offset)
    IN  IF isDst /\ ~try.isDst /\ try.time % 24 = local % 24 THEN 1 ELSE 0

FromLocalTime(data, tm) ==
    LET offset == FindLocaltime(data, tm.time, FALSE).gmtOffset
    IN  tm.time - Hack(data, tm.time, tm.isDst, offset) - offset

-----------------------------------------------------------------------------
VARIABLES
    zone,           \* the TimeZone::Data read so far
    zoneFile,       \* the file, perhaps cut short
    zoneTime        \* a time to convert

zoneVars == <<zone, zoneFile, zoneTime>>

ZoneInit ==
    /\ zone = NoData
    /\ zoneTime \in ZoneTimes
    /\ zoneFile \in UNION {{SubSeq(f, 1, n) : n \in 2..Len(f)} : f \in ZoneFiles}

ReadZone ==
    /\ zone = NoData
    /\ zone' = ReadTimeZoneFile(zoneFile)
    /\ UNCHANGED <<zoneFile, zoneTime>>

ZoneSpec == ZoneInit /\ [][ReadZone]_zoneVars

-----------------------------------------------------------------------------
\* A zone as clocks are set by: daylight saving is one hour, a transition starts
\* or ends it, and transitions are more than two hours apart.
Ordinary(data) ==
    \A i \in DOMAIN data.transitions :
        LET type(j) == data.localtimes[data.transitions[j].localtimeIdx]
            before == IF i = 1 THEN data.localtimes[1] ELSE type(i - 1)
        IN  /\ type(i).isDst # before.isDst
            /\ type(i).gmtOffset - before.gmtOffset = IF type(i).isDst THEN 1 ELSE -1
            /\ i > 1 => data.transitions[i].gmttime > data.transitions[i - 1].gmttime + 2

\* In an ordinary zone every time survives the way to local time and back, the
\* hour that occurs twice and both sides of the hour that is skipped included;
\* a file that is cut short gives no transition that refers to a type it lacks.
LocalTimesReturn ==
    /\ \A i \in DOMAIN zone.transitions :
          zone.transitions[i].localtimeIdx \in DOMAIN zone.localtimes
    /\ (zone.localtimes # <<>> /\ Ordinary(zone))
          => FromLocalTime(zone, ToLocalTime(zone, zoneTime)) = zoneTime

=============================================================================
