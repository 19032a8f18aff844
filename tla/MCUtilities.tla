---------------------------- MODULE MCUtilities ----------------------------
(***************************************************************************)
(* The utilities under the network code in one instance: thread pool,      *)
(* object pool, signals, logging, dates, time zones, Base64 and the file   *)
(* reader.  They share nothing, so a behaviour is a behaviour of one of    *)
(* them, chosen by part, and the others keep one initial state.            *)
(***************************************************************************)
EXTENDS ThreadPool, ObjectPool, SignalSlot, AsyncLogging,
        Date, TimeZone, Base64, ReadSmallFile

VARIABLE part

utilityVars == <<part, poolVars, objectVars, signalVars, logVars, dateVars,
                 zoneVars, plain, fileVars>>

\* From 1900 on, the range that Date.h names
MCFirstDate == <<1900, 1, 1>>

\* Daylight saving on and off again, twice; the same after a standard time with
\* another offset; a fixed offset; daylight saving at the first transition's type
MCZoneFiles ==
    {<<4, 2, 10, 20, 30, 40, 1, 0, 1, 0, o, 0, o + 1, 1>> : o \in {-5, 0, 8}}
    \cup {<<2, 2, 10, 30, 1, 0, 3, 0, 4, 1>>, <<0, 1, 8, 0>>,
          <<3, 3, 10, 20, 30, 1, 2, 1, 2, 0, 3, 1, 4, 0>>}

UtilitiesInit ==
    /\ part \in {"threads", "objects", "signals", "log", "date", "zone",
                 "base64", "file"}
    /\ PoolInit /\ ObjectPoolInit /\ SignalInit /\ LogInit
    /\ DateInit /\ ZoneInit /\ Base64Init /\ FileInit
    /\ part # "objects" => maxSize = 1
    /\ part # "zone" => zoneTime = 0 /\ zoneFile = <<0, 1>>
    /\ part # "file" => fileLength = 0 /\ readLimit = 1

UtilitiesNext ==
    /\ UNCHANGED part
    /\ part # "threads" => UNCHANGED poolVars
    /\ part # "objects" => UNCHANGED objectVars
    /\ part # "signals" => UNCHANGED signalVars
    /\ part # "log" => UNCHANGED logVars
    /\ part # "date" => UNCHANGED dateVars
    /\ part # "zone" => UNCHANGED zoneVars
    /\ part # "base64" => UNCHANGED plain
    /\ part # "file" => UNCHANGED fileVars
    /\ \/ part = "threads" /\ PoolNext
       \/ part = "objects" /\ ObjectPoolNext
       \/ part = "signals" /\ SignalNext
       \/ part = "log" /\ LogNext
       \/ part = "date" /\ NextDay
       \/ part = "zone" /\ ReadZone
       \/ part = "base64" /\ AddByte
       \/ part = "file" /\ FileNext

UtilitiesSpec ==
    /\ UtilitiesInit
    /\ [][UtilitiesNext]_utilityVars
    /\ PoolFairness
    /\ LogFairness

=============================================================================
