--------------------------- MODULE ProcessesProofs ---------------------------
(***************************************************************************)
(* Proofs about the processes the tools start: the table of background     *)
(* processes keeps its limits and tells how each one ended, for any number *)
(* of processes and any limits; the output of a shell command is what it   *)
(* wrote but for characters torn by a read, for any capacity of the        *)
(* channel and any capture limit; and the log of a background process      *)
(* loses nothing without saying so.                                        *)
(***************************************************************************)
EXTENDS Commands, Background, ProcessLogs, FiniteSetTheorems, SequenceTheorems, WellFoundedInduction, TLAPS

(* A set of handles that is not empty has a first one.                     *)
LEMMA FirstOf ==
  ASSUME NEW S \in SUBSET Nat, S # {}
  PROVE  \E n \in S : \A m \in S : n <= m
<1> DEFINE R == OpToRel(<, Nat)
<1>1. IsWellFoundedOn(R, Nat)
  BY NatLessThanWellFounded, Zenon
<1>2. \E n \in S : \A m \in S : ~(<<m, n>> \in R)
  <2> HIDE DEF R
  <2> QED BY <1>1, WFMin, Zenon
<1>3. \A m, n \in Nat : <<m, n>> \in R <=> m < n
  BY DEF OpToRel
<1> HIDE DEF R
<1>4. PICK n \in S : \A m \in S : ~(<<m, n>> \in R)
  BY <1>2
<1>5. \A m \in S : n <= m
  <2> SUFFICES ASSUME NEW m \in S PROVE n <= m
    OBVIOUS
  <2>1. m \in Nat /\ n \in Nat
    OBVIOUS
  <2>2. ~(m < n)
    BY <1>3, <1>4, <2>1
  <2> QED BY <2>1, <2>2
<1> QED BY <1>5

-----------------------------------------------------------------------------
(* The table of background processes.                                      *)
BgTypeOK ==
  /\ bgChild \in [Handles -> {"none", "alive", "zero", "failed", "killed"}]
  /\ status \in [Handles -> FinalStatuses \cup {"none", "running"}]
  /\ asked \in [Handles -> BOOLEAN] /\ interrupt \in [Handles -> BOOLEAN]
  /\ monitor \in [Handles -> {"none", "watch", "killing", "record", "gone"}]
  /\ stopper \in [Handles -> {"none", "checked", "asked", "returned"}]
  /\ manager \in {"up", "dropping", "down"}
  /\ visit \in [Handles -> {"none", "running", "asked", "killed", "done"}]

(* A live process has a running record and a monitor that watches it.      *)
AliveIsWatched(h) == bgChild[h] = "alive" => status[h] = "running" /\ monitor[h] \in {"watch", "killing"}

(* Nothing is known of a handle before its start, and nobody watches a     *)
(* process whose start failed.                                             *)
UnwatchedIsDead(h) == /\ bgChild[h] = "none" => status[h] = "none"
                      /\ monitor[h] = "none" => status[h] \notin {"exited", "failed"}

(* stop_requested is stored before the kill.                               *)
KillIsAsked(h) == /\ bgChild[h] = "killed" /\ monitor[h] # "none" => asked[h]
                  /\ monitor[h] = "killing" => asked[h]
                  /\ stopper[h] = "asked" => asked[h]
                  /\ visit[h] \in {"asked", "killed"} => asked[h]

(* While the monitor has not recorded, only the end of the manager can     *)
(* have recorded, and it has asked.                                        *)
EarlyIsStopped(h) == status[h] \in FinalStatuses /\ monitor[h] # "gone" => status[h] = "stopped" /\ asked[h]

(* drop is with a process after the last start, and leaves it dead.        *)
VisitIsLast(h) == /\ visit[h] # "none" => manager # "up" /\ status[h] # "none"
                  /\ visit[h] \in {"killed", "done"} => bgChild[h] # "alive"

HandleIsSound(h) == VisitIsLast(h) /\ AliveIsWatched(h) /\ UnwatchedIsDead(h) /\ KillIsAsked(h) /\ EarlyIsStopped(h)

RunningSet == {h \in Handles : status[h] = "running"}

BgInv == /\ BgTypeOK
         /\ \A h \in Handles : HandleIsSound(h)
         /\ KilledIsStopped
         /\ Cardinality(RunningSet) <= MaxActive
         /\ Cardinality(Records) <= MaxRecords
         /\ NothingOutlivesManager

(* The handles are finitely many, so every set of them can be counted.     *)
LEMMA HandlesFinite ==
  ASSUME NEW S \in SUBSET Handles
  PROVE  IsFiniteSet(S) /\ Cardinality(S) \in Nat /\ \A T \in SUBSET S : Cardinality(T) <= Cardinality(S)
<1>1. IsFiniteSet(Handles)
  BY RecordsExceedActive, FS_Interval DEF Handles
<1>2. IsFiniteSet(S)
  BY <1>1, FS_Subset
<1> QED BY <1>2, FS_Subset, FS_CardinalityType

(* A full table has a finished record, for there are fewer running ones    *)
(* than records: making room removes at least one, and a finished one.     *)
LEMMA EvictionMakesRoom ==
  ASSUME BgInv, ActiveBelowLimit
  PROVE  /\ Evicted \subseteq Records \ RunningSet
         /\ Cardinality(Records) >= MaxRecords => Evicted # {}
<1> DEFINE finished == {h \in Records : ~Running(h)}
<1>1. Evicted \subseteq Records \ RunningSet
  BY DEF Evicted, Running, RunningSet, Records
<1>2. ASSUME Cardinality(Records) >= MaxRecords PROVE Evicted # {}
  <2>1. Records \in SUBSET Handles /\ RunningSet \in SUBSET Handles /\ RunningSet \subseteq Records
    BY DEF Records, RunningSet
  <2>2. Cardinality(Records) \in Nat /\ Cardinality(RunningSet) \in Nat
    BY <2>1, HandlesFinite
  <2>3. Cardinality(RunningSet) < MaxActive
    BY DEF ActiveBelowLimit, RunningSet, Running
  <2>4. Records # RunningSet
    BY <1>2, <2>2, <2>3, RecordsExceedActive
  <2>5. finished # {}
    BY <2>1, <2>4 DEF RunningSet, Running, Records
  <2>6. finished \in SUBSET Nat
    BY RecordsExceedActive DEF Records, Handles
  <2>7. \E h \in finished : \A k \in finished : h <= k
    <3> HIDE DEF finished
    <3> QED BY <2>5, <2>6, FirstOf
  <2>8. ~(Cardinality(Records) < MaxRecords)
    BY <1>2, <2>2, RecordsExceedActive
  <2> QED BY <2>7, <2>8 DEF Evicted
<1> QED BY <1>1, <1>2

(* start: the table after it.                                              *)
LEMMA StartCounts ==
  ASSUME BgInv, NEW h \in Handles, NEW threads \in BOOLEAN, Start(h, threads)
  PROVE  Cardinality(RunningSet') <= MaxActive /\ Cardinality(Records') <= MaxRecords
<1>1. status[h] = "none" /\ ActiveBelowLimit
  BY DEF Start, BgInv, HandleIsSound, UnwatchedIsDead
<1>2. Evicted \subseteq Records \ RunningSet /\ (Cardinality(Records) >= MaxRecords => Evicted # {})
  BY <1>1, EvictionMakesRoom
<1>3. \A k \in Handles : status'[k] = IF k = h THEN "running" ELSE IF k \in Evicted THEN "none" ELSE status[k]
  BY DEF Start
<1>4. RunningSet' = RunningSet \cup {h}
  BY <1>2, <1>3 DEF RunningSet
<1>5. Records' = (Records \ Evicted) \cup {h} /\ h \notin Records
  BY <1>1, <1>2, <1>3 DEF Records, RunningSet
<1>6. Records \in SUBSET Handles /\ RunningSet \in SUBSET Handles /\ Records \ Evicted \in SUBSET Handles
  BY DEF Records, RunningSet
<1>7. Cardinality(RunningSet') <= MaxActive
  <2>1. Cardinality(RunningSet) < MaxActive
    BY <1>1 DEF ActiveBelowLimit, RunningSet, Running
  <2>2. Cardinality(RunningSet \cup {h}) \in {Cardinality(RunningSet), Cardinality(RunningSet) + 1}
    BY <1>6, HandlesFinite, FS_AddElement
  <2> QED BY <1>4, <1>6, <2>1, <2>2, HandlesFinite, RecordsExceedActive
<1>8. Cardinality(Records') <= MaxRecords
  <2>1. Cardinality(Records') = Cardinality(Records \ Evicted) + 1
    BY <1>5, <1>6, HandlesFinite, FS_AddElement
  <2>2. Cardinality(Records) \in Nat /\ Cardinality(Records \ Evicted) \in Nat
    BY <1>6, HandlesFinite
  <2>3. Cardinality(Records \ Evicted) <= Cardinality(Records)
    BY <1>6, HandlesFinite
  <2>4. CASE Cardinality(Records) < MaxRecords
    BY <2>1, <2>2, <2>3, <2>4, RecordsExceedActive
  <2>5. CASE Cardinality(Records) >= MaxRecords
    <3>1. Records \ Evicted # Records
      BY <1>2, <2>5
    <3>2. Cardinality(Records \ Evicted) # Cardinality(Records)
      BY <1>6, <3>1, HandlesFinite, FS_Subset
    <3>3. Cardinality(Records) <= MaxRecords
      BY DEF BgInv
    <3> QED BY <2>1, <2>2, <2>3, <3>2, <3>3, RecordsExceedActive
  <2> QED BY <2>2, <2>4, <2>5, RecordsExceedActive
<1> QED BY <1>7, <1>8

(* A step that puts nothing in the table keeps the counts.                 *)
LEMMA CountsKept ==
  ASSUME BgInv, RunningSet' \subseteq RunningSet, Records' \subseteq Records
  PROVE  Cardinality(RunningSet') <= MaxActive /\ Cardinality(Records') <= MaxRecords
<1>1. RunningSet \in SUBSET Handles /\ Records \in SUBSET Handles
  BY DEF RunningSet, Records
<1>2. /\ RunningSet' \in SUBSET RunningSet /\ RunningSet' \in SUBSET Handles
      /\ Records' \in SUBSET Records /\ Records' \in SUBSET Handles
  BY <1>1
<1>3. Cardinality(RunningSet') <= Cardinality(RunningSet) /\ Cardinality(Records') <= Cardinality(Records)
  BY <1>1, <1>2, HandlesFinite
<1>4. /\ Cardinality(RunningSet) \in Nat /\ Cardinality(RunningSet') \in Nat
      /\ Cardinality(Records) \in Nat /\ Cardinality(Records') \in Nat
  BY <1>1, <1>2, HandlesFinite
<1> QED BY <1>3, <1>4, RecordsExceedActive DEF BgInv

(* At the start nothing is known of any handle.                            *)
LEMMA BgInitInv == BgInit => BgInv
<1> SUFFICES ASSUME BgInit PROVE BgInv
  OBVIOUS
<1>1. BgTypeOK
  BY DEF BgInit, BgTypeOK
<1>2. (\A h \in Handles : HandleIsSound(h)) /\ KilledIsStopped /\ NothingOutlivesManager
  BY DEF BgInit, HandleIsSound, AliveIsWatched, UnwatchedIsDead, VisitIsLast, KillIsAsked, EarlyIsStopped, KilledIsStopped,
         NothingOutlivesManager, FinalStatuses
<1>3. RunningSet = {} /\ Records = {}
  BY DEF BgInit, RunningSet, Records
<1> QED BY <1>1, <1>2, <1>3, FS_EmptySet, RecordsExceedActive DEF BgInv

(* What a step may do to the handle it is about; it leaves the others.     *)
LEMMA BgStepInv ==
  ASSUME BgInv, [BgNext]_bgVars
  PROVE  BgInv' /\ \A h \in Handles : status[h] \in FinalStatuses => status'[h] \in {status[h], "none"} \/ OverwrittenByDrop(h)
<1> USE DEF FinalStatuses
<1> DEFINE Final == \A h \in Handles : status[h] \in FinalStatuses => status'[h] \in {status[h], "none"} \/ OverwrittenByDrop(h)
           Shrinks == RunningSet' \subseteq RunningSet /\ Records' \subseteq Records
           Parts == /\ BgTypeOK' /\ (\A h \in Handles : HandleIsSound(h)') /\ KilledIsStopped' /\ NothingOutlivesManager'
                    /\ Final
<1>0. ASSUME Parts, Shrinks PROVE BgInv' /\ Final
  BY <1>0, CountsKept DEF BgInv
<1>1. ASSUME NEW h \in Handles, NEW threads \in BOOLEAN, Start(h, threads) PROVE BgInv' /\ Final
  <2>1. Evicted \subseteq Records \ RunningSet
    BY <1>1, EvictionMakesRoom DEF Start
  <2>2. Parts
    BY <1>1, <2>1 DEF Start, BgInv, BgTypeOK, HandleIsSound, AliveIsWatched, UnwatchedIsDead, VisitIsLast, KillIsAsked, EarlyIsStopped,
       KilledIsStopped, NothingOutlivesManager, RunningSet
  <2> QED BY <1>1, <2>2, StartCounts DEF BgInv
<1>2. ASSUME NEW h \in Handles, NEW code \in {"zero", "failed"}, ProcessExits(h, code) PROVE Parts /\ Shrinks
  BY <1>2 DEF ProcessExits, BgInv, BgTypeOK, HandleIsSound, AliveIsWatched, UnwatchedIsDead, VisitIsLast, KillIsAsked, EarlyIsStopped,
     KilledIsStopped, NothingOutlivesManager, RunningSet, Records
<1>3. ASSUME NEW h \in Handles, MonitorChecks(h) PROVE Parts /\ Shrinks
  <2>1. UNCHANGED <<bgChild, status, interrupt, stopper, manager, visit, reported>> /\ monitor[h] = "watch"
    BY <1>3 DEF MonitorChecks
  <2>2. ASSUME asked' = [asked EXCEPT ![h] = TRUE], monitor' = [monitor EXCEPT ![h] = "killing"] PROVE Parts /\ Shrinks
    BY <2>1, <2>2 DEF BgInv, BgTypeOK, HandleIsSound, AliveIsWatched, UnwatchedIsDead, VisitIsLast, KillIsAsked, EarlyIsStopped,
       KilledIsStopped, NothingOutlivesManager, RunningSet, Records
  <2>3. ASSUME bgChild[h] # "alive", monitor' = [monitor EXCEPT ![h] = "record"], UNCHANGED asked PROVE Parts /\ Shrinks
    BY <2>1, <2>3 DEF BgInv, BgTypeOK, HandleIsSound, AliveIsWatched, UnwatchedIsDead, VisitIsLast, KillIsAsked, EarlyIsStopped,
       KilledIsStopped, NothingOutlivesManager, RunningSet, Records
  <2> QED BY <1>3, <2>2, <2>3 DEF MonitorChecks
<1>4. ASSUME NEW h \in Handles, MonitorKills(h) PROVE Parts /\ Shrinks
  BY <1>4 DEF MonitorKills, Killed, BgInv, BgTypeOK, HandleIsSound, AliveIsWatched, UnwatchedIsDead, VisitIsLast, KillIsAsked,
     EarlyIsStopped, KilledIsStopped, NothingOutlivesManager, RunningSet, Records
<1>5. ASSUME NEW h \in Handles, MonitorRecords(h) PROVE Parts /\ Shrinks
  <2> DEFINE s == Recorded(h, FinalStatus(h))
  <2>1. /\ monitor[h] = "record" /\ status' = [status EXCEPT ![h] = s] /\ monitor' = [monitor EXCEPT ![h] = "gone"]
        /\ UNCHANGED <<bgChild, asked, interrupt, stopper, manager, visit>>
    BY <1>5 DEF MonitorRecords
  <2>2. /\ s \in FinalStatuses \cup {"none"} /\ (status[h] = "none" <=> s = "none")
        /\ status[h] \in FinalStatuses => s = status[h]
        /\ bgChild[h] = "killed" => s \notin {"exited", "failed"}
    BY <2>1 DEF Recorded, FinalStatus, BgInv, BgTypeOK, HandleIsSound, KillIsAsked, EarlyIsStopped
  <2> HIDE DEF s
  <2>3. BgTypeOK' /\ Final /\ Shrinks
    BY <2>1, <2>2 DEF BgInv, BgTypeOK, RunningSet, Records
  <2>4. (\A k \in Handles : HandleIsSound(k)') /\ KilledIsStopped' /\ NothingOutlivesManager'
    BY <2>1, <2>2 DEF BgInv, BgTypeOK, HandleIsSound, AliveIsWatched, UnwatchedIsDead, VisitIsLast, KillIsAsked, EarlyIsStopped,
       KilledIsStopped, NothingOutlivesManager
  <2> QED BY <2>3, <2>4
<1>6. ASSUME NEW h \in Handles, Interrupt(h) PROVE Parts /\ Shrinks
  BY <1>6 DEF Interrupt, BgInv, BgTypeOK, HandleIsSound, AliveIsWatched, UnwatchedIsDead, VisitIsLast, KillIsAsked, EarlyIsStopped,
     KilledIsStopped, NothingOutlivesManager, RunningSet, Records
<1>7. ASSUME NEW h \in Handles, StopChecks(h) PROVE Parts /\ Shrinks
  BY <1>7 DEF StopChecks, Running, BgInv, BgTypeOK, HandleIsSound, AliveIsWatched, UnwatchedIsDead, VisitIsLast, KillIsAsked,
     EarlyIsStopped, KilledIsStopped, NothingOutlivesManager, RunningSet, Records
<1>8. ASSUME NEW h \in Handles, StopKills(h) PROVE Parts /\ Shrinks
  <2>1. UNCHANGED <<status, interrupt, monitor, manager, visit, reported>>
    BY <1>8 DEF StopKills
  <2>2. ASSUME stopper' = [stopper EXCEPT ![h] = "asked"], asked' = [asked EXCEPT ![h] = TRUE], UNCHANGED bgChild
        PROVE  Parts /\ Shrinks
    BY <2>1, <2>2 DEF BgInv, BgTypeOK, HandleIsSound, AliveIsWatched, UnwatchedIsDead, VisitIsLast, KillIsAsked, EarlyIsStopped,
       KilledIsStopped, NothingOutlivesManager, RunningSet, Records
  <2>3. ASSUME stopper[h] = "asked", stopper' = [stopper EXCEPT ![h] = "returned"],
               bgChild' = [bgChild EXCEPT ![h] = Killed(h)], UNCHANGED asked
        PROVE  Parts /\ Shrinks
    BY <2>1, <2>3 DEF Killed, BgInv, BgTypeOK, HandleIsSound, AliveIsWatched, UnwatchedIsDead, VisitIsLast, KillIsAsked, EarlyIsStopped,
       KilledIsStopped, NothingOutlivesManager, RunningSet, Records
  <2> QED BY <1>8, <2>2, <2>3 DEF StopKills
<1>9. ASSUME NEW h \in Handles, Drop(h) PROVE Parts /\ Shrinks
  <2>1. CASE DropLooks(h)
    BY <2>1 DEF DropLooks, Running, BgInv, BgTypeOK, HandleIsSound, AliveIsWatched, UnwatchedIsDead, VisitIsLast, KillIsAsked,
       EarlyIsStopped, KilledIsStopped, NothingOutlivesManager, RunningSet, Records
  <2>2. CASE DropStops(h)
    <3>1. UNCHANGED <<status, interrupt, monitor, stopper, manager, reported>>
      BY <2>2 DEF DropStops
    <3>2. ASSUME visit[h] = "running", visit' = [visit EXCEPT ![h] = "asked"], asked' = [asked EXCEPT ![h] = TRUE], UNCHANGED bgChild
          PROVE  Parts /\ Shrinks
      BY <3>1, <3>2 DEF BgInv, BgTypeOK, HandleIsSound, AliveIsWatched, UnwatchedIsDead, VisitIsLast, KillIsAsked, EarlyIsStopped,
         KilledIsStopped, NothingOutlivesManager, RunningSet, Records
    <3>3. ASSUME visit[h] = "asked", visit' = [visit EXCEPT ![h] = "killed"],
                 bgChild' = [bgChild EXCEPT ![h] = Killed(h)], UNCHANGED asked
          PROVE  Parts /\ Shrinks
      <4>1. status[h] \notin {"exited", "failed"} \/ bgChild[h] # "alive"
        BY DEF BgInv, HandleIsSound, AliveIsWatched
      <4> QED BY <3>1, <3>3, <4>1 DEF Killed, BgInv, BgTypeOK, HandleIsSound, AliveIsWatched, UnwatchedIsDead, VisitIsLast, KillIsAsked,
               EarlyIsStopped, KilledIsStopped, NothingOutlivesManager, RunningSet, Records
    <3> QED BY <2>2, <3>2, <3>3 DEF DropStops
  <2>3. CASE DropRecords(h)
    BY <2>3 DEF DropRecords, OverwrittenByDrop, BgInv, BgTypeOK, HandleIsSound, AliveIsWatched, UnwatchedIsDead, VisitIsLast, KillIsAsked,
       EarlyIsStopped, KilledIsStopped, NothingOutlivesManager, RunningSet, Records
  <2> QED BY <1>9, <2>1, <2>2, <2>3 DEF Drop
<1>10. ASSUME DropManager \/ DropEnds PROVE Parts /\ Shrinks
  <2>1. /\ manager' \in {"dropping", "down"} /\ (manager' = "down" => \A h \in Records : visit[h] = "done")
        /\ UNCHANGED <<bgChild, status, asked, interrupt, monitor, stopper, visit, reported>>
    BY <1>10 DEF DropManager, DropEnds
  <2>2. ASSUME manager' = "down", NEW h \in Handles, bgChild[h] = "alive" PROVE FALSE
    <3>1. h \in Records
      BY <2>2 DEF Records, BgInv, HandleIsSound, AliveIsWatched
    <3> QED BY <2>1, <2>2, <3>1 DEF BgInv, HandleIsSound, VisitIsLast
  <2> QED BY <2>1, <2>2 DEF BgInv, BgTypeOK, HandleIsSound, AliveIsWatched, UnwatchedIsDead, VisitIsLast, KillIsAsked, EarlyIsStopped,
             KilledIsStopped, NothingOutlivesManager, RunningSet, Records
<1>11. ASSUME UNCHANGED bgVars PROVE Parts /\ Shrinks
  BY <1>11 DEF bgVars, BgInv, BgTypeOK, HandleIsSound, AliveIsWatched, UnwatchedIsDead, VisitIsLast, KillIsAsked, EarlyIsStopped,
     KilledIsStopped, NothingOutlivesManager, RunningSet, Records
<1> QED BY <1>0, <1>1, <1>2, <1>3, <1>4, <1>5, <1>6, <1>7, <1>8, <1>9, <1>10, <1>11 DEF BgNext, Monitor

(* No more processes live than the limit allows.                           *)
LEMMA BgBounded == BgInv => ProcessesBounded
<1> SUFFICES ASSUME BgInv PROVE ProcessesBounded
  OBVIOUS
<1> DEFINE alive == {h \in Handles : bgChild[h] = "alive"}
<1>1. alive \in SUBSET RunningSet /\ RunningSet \in SUBSET Handles
  BY DEF BgInv, HandleIsSound, AliveIsWatched, RunningSet
<1>2. Cardinality(alive) <= Cardinality(RunningSet) /\ Cardinality(alive) \in Nat /\ Cardinality(RunningSet) \in Nat
  <2> HIDE DEF alive
  <2> QED BY <1>1, HandlesFinite
<1>3. Cardinality(alive) <= MaxActive
  <2> HIDE DEF alive
  <2> QED BY <1>2, RecordsExceedActive DEF BgInv
<1> QED BY <1>3 DEF BgInv, HandleIsSound, AliveIsWatched, ProcessesBounded

(* The table of background processes, for any number of starts and any     *)
(* limits: it keeps the limits on live processes and on records, a killed  *)
(* process is never told as failed, a final status changes only when drop, *)
(* which read "running" before the end, records "stopped" over it, and no  *)
(* process outlives the manager.                                           *)
THEOREM TableSound == BgSpec => TableIsSound
<1>1. BgInv /\ [BgNext]_bgVars => BgInv'
  BY BgStepInv
<1>2. BgInv /\ [BgNext]_bgVars => [\A h \in Handles : status[h] \in FinalStatuses => status'[h] \in {status[h], "none"} \/ OverwrittenByDrop(h)]_bgVars
  BY BgStepInv
<1>3. BgInv => ProcessesBounded /\ KilledIsStopped /\ NothingOutlivesManager
  BY BgBounded DEF BgInv
<1> QED BY <1>1, <1>2, <1>3, BgInitInv, PTL DEF BgSpec, TableIsSound, StatusIsFinal

-----------------------------------------------------------------------------
(* The output of a shell command.                                          *)
Chunks == [stream : Streams, from : Nat, to : Nat]
Outcomes == [timedOut : BOOLEAN, cancelled : BOOLEAN, consumerFailed : BOOLEAN, success : BOOLEAN]

CmdTypeOK ==
  /\ child \in {"running", "zero", "failed", "killed"}
  /\ written \in [Streams -> Nat]
  /\ taken \in [Streams -> Nat] /\ (\A s \in Streams : taken[s] <= written[s])
  /\ reader \in [Streams -> {"reading", "sending", "done"}]
  /\ held \in [Streams -> Chunks]
  /\ captured \in Nat /\ captured <= CaptureLimit
  /\ channel \in Seq(Chunks)
  /\ output \in [Streams -> Seq(Nat)]
  /\ token \in BOOLEAN /\ outcome \in Outcomes

(* Of m bytes reserved by the reader of a stream those before the chunk it *)
(* holds have been sent.                                                   *)
Sent(s, m) == IF reader[s] = "sending" THEN held[s].from ELSE m

(* A text whose last byte begins a character ends in a replaced one.       *)
GoodText(text) == WellShown(text) /\ (Len(text) \in Wide => text[Len(text)] # Len(text))

(* Of n bytes sent the first are in the output, the others in the channel, *)
(* in chunks that follow each other.                                       *)
Collected(s, n) == GoodText(output[s]) /\ Len(output[s]) <= n
Queued(s, n) ==
  /\ \A i \in 1 .. Len(channel) : channel[i].stream = s =>
        Len(output[s]) <= channel[i].from /\ channel[i].from < channel[i].to /\ channel[i].to <= n
  /\ \A i, j \in 1 .. Len(channel) :
        i < j /\ channel[i].stream = s /\ channel[j].stream = s => channel[i].to <= channel[j].from
  /\ \A k \in (Len(output[s]) + 1) .. n : \E i \in 1 .. Len(channel) : channel[i].stream = s /\ k \in Bytes(channel[i])

(* The reader holds the last of the m bytes it has reserved, and has read  *)
(* no others unless the limit made it drop them.                           *)
Ahead(s, m) ==
  /\ reader[s] = "sending" => held[s].stream = s /\ held[s].from < m /\ held[s].to = m
  /\ captured < CaptureLimit => taken[s] = m

Accounted(m) ==
  /\ \A s \in Streams : Collected(s, Sent(s, m[s])) /\ Queued(s, Sent(s, m[s])) /\ Ahead(s, m[s])
  /\ captured = m["stdout"] + m["stderr"]

(* A reader ends at the end of its pipe; the tool finishes after both.     *)
EndIsReached ==
  /\ \A s \in Streams : reader[s] = "done" => taken[s] = written[s] /\ ~PipeOpen(s)
  /\ main = "done" => ReadersDone /\ channel = <<>>
  /\ main = "done" /\ outcome.success => child = "zero" /\ ~outcome.timedOut /\ ~outcome.cancelled /\ ~outcome.consumerFailed

CmdInv == CmdTypeOK /\ EndIsReached /\ \E m \in [Streams -> Nat] : Accounted(m)

(* Facts about the state of one stream that every step starts from.        *)
LEMMA StreamTypes ==
  ASSUME CmdTypeOK, NEW s \in Streams
  PROVE  /\ written[s] \in Nat /\ taken[s] \in Nat /\ taken[s] <= written[s]
         /\ output[s] \in Seq(Nat) /\ Len(output[s]) \in Nat
         /\ reader[s] \in {"reading", "sending", "done"}
         /\ held[s] \in Chunks /\ held[s].from \in Nat /\ held[s].to \in Nat
         /\ channel \in Seq(Chunks) /\ Len(channel) \in Nat
         /\ CaptureLimit \in Nat /\ captured \in Nat /\ captured <= CaptureLimit
BY LenProperties, BoundsAssumption DEF CmdTypeOK, Chunks

(* With the invariant the result is what the command wrote.                *)
LEMMA OutputFollows == CmdInv => OutputIsComplete
<1> SUFFICES ASSUME CmdInv PROVE OutputIsComplete
  OBVIOUS
<1>1. PICK m \in [Streams -> Nat] : Accounted(m)
  BY DEF CmdInv
<1>2. CmdTypeOK /\ "stdout" \in Streams /\ "stderr" \in Streams
  BY DEF Streams, CmdInv
<1>3. \A s \in Streams : Len(output[s]) \in Nat /\ Len(output[s]) <= m[s] /\ m[s] \in Nat
  <2> SUFFICES ASSUME NEW s \in Streams PROVE Len(output[s]) \in Nat /\ Len(output[s]) <= m[s] /\ m[s] \in Nat
    OBVIOUS
  <2>1. Len(output[s]) <= Sent(s, m[s]) /\ Ahead(s, m[s]) /\ m[s] \in Nat
    BY <1>1 DEF Accounted, Collected
  <2>2. Sent(s, m[s]) <= m[s] /\ Sent(s, m[s]) \in Nat
    BY <1>2, <2>1, StreamTypes DEF Sent, Ahead
  <2> QED BY <1>2, <2>1, <2>2, StreamTypes
<1>4. captured = m["stdout"] + m["stderr"] /\ captured \in Nat /\ captured <= CaptureLimit /\ CaptureLimit \in Nat
  BY <1>1, <1>2, StreamTypes DEF Accounted
<1>5. OutputIsCaptured
  <2>1. \A s \in Streams : WellShown(output[s])
    BY <1>1 DEF Accounted, Collected, GoodText
  <2>2. Len(output["stdout"]) + Len(output["stderr"]) <= CaptureLimit
    <3> DEFINE a == Len(output["stdout"]) x == m["stdout"] b == Len(output["stderr"]) y == m["stderr"]
    <3>1. a \in Nat /\ a <= x /\ x \in Nat /\ b \in Nat /\ b <= y /\ y \in Nat /\ captured = x + y
      BY <1>2, <1>3, <1>4
    <3> HIDE DEF a, b, x, y
    <3>2. a + b <= CaptureLimit
      BY <1>4, <3>1
    <3> QED BY <3>2 DEF a, b
  <2> QED BY <2>1, <2>2 DEF OutputIsCaptured
<1>6. ASSUME main = "done", outcome.success
      PROVE  \/ \A s \in Streams : Len(output[s]) = written[s]
             \/ Len(output["stdout"]) + Len(output["stderr"]) = CaptureLimit
  <2>1. channel = <<>> /\ \A s \in Streams : reader[s] = "done" /\ taken[s] = written[s]
    BY <1>6 DEF CmdInv, EndIsReached, ReadersDone
  <2>2. \A s \in Streams : Len(output[s]) = m[s]
    <3> SUFFICES ASSUME NEW s \in Streams, Len(output[s]) < m[s] PROVE FALSE
      BY <1>3
    <3>1. m[s] \in (Len(output[s]) + 1) .. m[s] /\ Sent(s, m[s]) = m[s]
      BY <1>3, <2>1 DEF Sent
    <3>2. \E i \in 1 .. Len(channel) : TRUE
      BY <1>1, <3>1 DEF Accounted, Queued
    <3> QED BY <2>1, <3>2
  <2>3. CASE captured < CaptureLimit
    BY <1>1, <2>1, <2>2, <2>3 DEF Accounted, Ahead
  <2>4. CASE captured = CaptureLimit
    <3>1. Len(output["stdout"]) = m["stdout"] /\ Len(output["stderr"]) = m["stderr"]
      BY <1>2, <2>2
    <3> QED BY <1>4, <2>4, <3>1
  <2>5. captured < CaptureLimit \/ captured = CaptureLimit
    BY <1>4
  <2> QED BY <2>3, <2>4, <2>5
<1>7. SuccessIsComplete
  BY <1>6 DEF SuccessIsComplete, CmdInv, EndIsReached
<1> QED BY <1>5, <1>7 DEF OutputIsComplete

(* Nothing has been written, read or sent.                                 *)
LEMMA CmdInitInv == CmdInit => CmdInv
<1> SUFFICES ASSUME CmdInit PROVE CmdInv
  OBVIOUS
<1>1. CmdTypeOK
  <2>1. NoOutcome \in Outcomes
    BY DEF NoOutcome, Outcomes
  <2>2. held \in [Streams -> Chunks]
    BY DEF CmdInit, Chunk, Chunks
  <2>3. output \in [Streams -> Seq(Nat)] /\ channel \in Seq(Chunks)
    BY DEF CmdInit
  <2>4. captured \in Nat /\ captured <= CaptureLimit
    BY BoundsAssumption DEF CmdInit
  <2>5. written \in [Streams -> Nat] /\ taken \in [Streams -> Nat] /\ (\A s \in Streams : taken[s] <= written[s])
    BY DEF CmdInit
  <2> QED BY <2>1, <2>2, <2>3, <2>4, <2>5 DEF CmdInit, CmdTypeOK
<1>2. EndIsReached
  BY DEF CmdInit, EndIsReached
<1> DEFINE m == [s \in Streams |-> 0]
<1>3. Accounted(m)
  <2>1. \A s \in Streams : Sent(s, m[s]) = 0 /\ m[s] = 0
    BY DEF Sent, CmdInit
  <2>2. captured = m["stdout"] + m["stderr"]
    BY <2>1 DEF CmdInit, Streams
  <2>3. ASSUME NEW s \in Streams PROVE Collected(s, 0) /\ Queued(s, 0) /\ Ahead(s, 0)
    <3>1. output[s] = <<>> /\ taken[s] = 0 /\ reader[s] = "reading" /\ channel = <<>>
      BY DEF CmdInit
    <3>2. Len(output[s]) = 0 /\ DOMAIN output[s] = {} /\ Len(channel) = 0 /\ (1 .. 0) = {}
      BY <3>1
    <3>3. Collected(s, 0)
      BY <3>2, BoundsAssumption DEF Collected, GoodText, WellShown
    <3>4. Queued(s, 0)
      BY <3>2 DEF Queued
    <3>5. Ahead(s, 0)
      BY <3>1 DEF Ahead
    <3> QED BY <3>3, <3>4, <3>5
  <2> HIDE DEF m
  <2> QED BY <2>1, <2>2, <2>3 DEF Accounted
<1>4. m \in [Streams -> Nat]
  OBVIOUS
<1> HIDE DEF m
<1> QED BY <1>1, <1>2, <1>3, <1>4 DEF CmdInv

(* The text of a chunk continues the text of the chunks before it: of a    *)
(* character torn between them both bytes are replaced.                    *)
LEMMA TextContinues ==
  ASSUME NEW text \in Seq(Nat), GoodText(text), NEW c \in Chunks, c.from = Len(text), c.from < c.to
  PROVE  /\ GoodText(text \o Text(c)) /\ text \o Text(c) \in Seq(Nat) /\ Len(text \o Text(c)) = c.to
<1> DEFINE l == Len(text)
           k == c.to - l
           f == [i \in 1 .. k |-> IF Torn(c, l + i) THEN Replaced ELSE l + i]
           g == text \o f
<1>1. l \in Nat /\ c.to \in Nat /\ k \in Nat /\ k > 0 /\ l + k = c.to /\ DOMAIN text = 1 .. l
  BY LenProperties DEF Chunks
<1>2. Text(c) = f
  BY DEF Text
<1>3. f \in [1 .. k -> Nat]
  BY <1>1 DEF Replaced
<1>4. \A h \in [1 .. k -> Nat] : h \in Seq(Nat) /\ Len(h) = k
  <2> HIDE DEF k
  <2> QED BY <1>1
<1>5. f \in Seq(Nat) /\ Len(f) = k
  <2> HIDE DEF f, k
  <2> QED BY <1>3, <1>4
<1>6. \A n \in (l + 1) .. c.to : n - l \in 1 .. k /\ l + (n - l) = n /\ n \in Nat
  BY <1>1
<1>7. \A n \in (l + 1) .. c.to : f[n - l] = IF Torn(c, n) THEN Replaced ELSE n
  BY <1>6
<1>8. /\ g \in Seq(Nat) /\ Len(g) = l + k
      /\ \A n \in 1 .. (l + k) : g[n] = IF n <= l THEN text[n] ELSE f[n - l]
  <2> HIDE DEF f, k
  <2>1. g \in Seq(Nat) /\ Len(g) = Len(text) + Len(f)
        /\ \A n \in 1 .. (Len(text) + Len(f)) : g[n] = IF n <= Len(text) THEN text[n] ELSE f[n - Len(text)]
    BY <1>5, ConcatProperties
  <2> HIDE DEF g
  <2> QED BY <1>5, <2>1
<1> HIDE DEF f, g, k
<1>9. Len(g) = c.to /\ DOMAIN g = 1 .. c.to
  BY <1>1, <1>8, LenProperties
<1>10. \A n \in 1 .. l : n \in 1 .. c.to /\ g[n] = text[n]
  BY <1>1, <1>8
<1>11. \A n \in (l + 1) .. c.to : g[n] = IF Torn(c, n) THEN Replaced ELSE n
  <2>1. \A n \in (l + 1) .. c.to : n \in 1 .. (l + k) /\ ~(n <= l)
    BY <1>1
  <2>2. \A n \in (l + 1) .. c.to : g[n] = f[n - l]
    BY <1>8, <2>1
  <2> QED BY <1>7, <2>2
<1>12. \A n \in 1 .. c.to : n \in 1 .. l \/ n \in (l + 1) .. c.to
  BY <1>1
<1>13. Bytes(c) = (l + 1) .. c.to
  BY DEF Bytes
<1>14. Wide \subseteq Nat \ {0} /\ \A n \in Wide : n + 1 \notin Wide
  BY BoundsAssumption
<1>15. \A n \in 1 .. l : /\ text[n] = n \/ (text[n] = Replaced /\ {n, n - 1} \cap Wide # {})
                         /\ n \in Wide /\ n + 1 \in 1 .. l => (text[n] = n <=> text[n + 1] = n + 1)
  BY <1>1 DEF GoodText, WellShown
<1>16. l \in Wide => text[l] # l
  BY DEF GoodText
<1>17. ASSUME NEW n \in 1 .. c.to PROVE g[n] = n \/ (g[n] = Replaced /\ {n, n - 1} \cap Wide # {})
  <2>1. CASE n \in 1 .. l
    BY <1>10, <1>15, <2>1
  <2>2. CASE n \in (l + 1) .. c.to
    BY <1>11, <2>2 DEF Torn
  <2> QED BY <1>12, <2>1, <2>2
<1>18. ASSUME NEW n \in 1 .. c.to, n \in Wide, n + 1 \in 1 .. c.to PROVE g[n] = n <=> g[n + 1] = n + 1
  <2>1. CASE n + 1 \in 1 .. l
    <3>1. n \in 1 .. l
      BY <1>1, <2>1
    <3> QED BY <1>10, <1>15, <1>18, <2>1, <3>1
  <2>2. CASE n = l
    <3>1. n \in 1 .. l /\ n + 1 \in (l + 1) .. c.to /\ n + 1 - 1 = n /\ n \notin Bytes(c)
      BY <1>1, <1>13, <1>18, <2>2
    <3>2. Torn(c, n + 1)
      BY <1>18, <3>1 DEF Torn
    <3>3. g[n + 1] = 0 /\ g[n] # n
      BY <1>10, <1>11, <1>16, <1>18, <2>2, <3>1, <3>2 DEF Replaced
    <3> QED BY <1>1, <2>2, <3>3
  <2>3. CASE n \in (l + 1) .. c.to
    <3>1. n + 1 \in (l + 1) .. c.to /\ n \in Nat /\ n - 1 + 1 = n /\ n + 1 - 1 = n
      BY <1>1, <1>18, <2>3
    <3>2. n - 1 \notin Wide /\ n + 1 \notin Wide
      BY <1>14, <1>18, <3>1
    <3>3. ~Torn(c, n) /\ ~Torn(c, n + 1)
      BY <1>13, <2>3, <3>1, <3>2 DEF Torn
    <3> QED BY <1>11, <2>3, <3>1, <3>3
  <2>4. ASSUME n \in 1 .. l PROVE n + 1 \in 1 .. l \/ n = l
    <3>1. l \in Nat
      BY <1>1
    <3> HIDE DEF l
    <3> QED BY <2>4, <3>1
  <2> QED BY <1>12, <2>1, <2>2, <2>3, <2>4
<1>19. ASSUME c.to \in Wide PROVE g[c.to] # c.to
  <2>1. c.to \in (l + 1) .. c.to /\ c.to + 1 \notin Bytes(c)
    BY <1>1, <1>13
  <2>2. Torn(c, c.to)
    BY <1>19, <2>1 DEF Torn
  <2> QED BY <1>1, <1>11, <2>1, <2>2 DEF Replaced
<1>20. GoodText(g)
  BY <1>9, <1>17, <1>18, <1>19 DEF GoodText, WellShown
<1>21. g = text \o Text(c)
  BY <1>2 DEF g
<1> QED BY <1>1, <1>8, <1>9, <1>20, <1>21

(* A chunk received is the next one of its stream: its text goes to the    *)
(* end of the output and the channel keeps the rest.                       *)
LEMMA CollectMoves ==
  ASSUME CmdTypeOK, channel # <<>>, output' = Collect(output, Head(channel)), channel' = Tail(channel),
         NEW n, n \in [Streams -> Nat], \A s \in Streams : Collected(s, n[s]) /\ Queued(s, n[s])
  PROVE  /\ output' \in [Streams -> Seq(Nat)] /\ channel' \in Seq(Chunks)
         /\ \A s \in Streams : Collected(s, n[s])' /\ Queued(s, n[s])'
<1>0. PICK c, t : c = Head(channel) /\ t = c.stream
  OBVIOUS
<1>1. /\ channel \in Seq(Chunks) /\ c \in Chunks /\ channel' \in Seq(Chunks) /\ Len(channel) \in Nat /\ Len(channel) >= 1
      /\ Len(channel') = Len(channel) - 1 /\ c = channel[1]
      /\ \A i \in 1 .. Len(channel') : channel'[i] = channel[i + 1]
  BY <1>0, HeadTailProperties, EmptySeq, LenProperties DEF CmdTypeOK
<1>2. t \in Streams /\ c.from \in Nat /\ c.to \in Nat
  BY <1>0, <1>1 DEF Chunks
<1>3. /\ output \in [Streams -> Seq(Nat)]
      /\ \A s \in Streams : output[s] \in Seq(Nat) /\ Len(output[s]) \in Nat
  BY LenProperties DEF CmdTypeOK
<1>4. output' = [output EXCEPT ![t] = output[t] \o Text(c)]
  BY <1>0 DEF Collect
<1>5. \A i \in 1 .. Len(channel) : channel[i].stream \in Streams /\ channel[i].from \in Nat /\ channel[i].to \in Nat
  <2>1. \A i \in 1 .. Len(channel) : channel[i] \in Chunks
    BY <1>1, ElementOfSeq
  <2> QED BY <2>1 DEF Chunks
<1>6. \A s \in Streams : n[s] \in Nat
  OBVIOUS
<1> DEFINE len == Len(output[t])
<1>7. c.from = len /\ c.from < c.to /\ c.to <= n[t] /\ len \in Nat
  <2>1. len <= c.from /\ c.from < c.to /\ c.to <= n[t]
    BY <1>0, <1>1, <1>2 DEF Queued
  <2>2. len + 1 \in (len + 1) .. n[t]
    BY <1>2, <1>3, <1>6, <2>1
  <2>3. PICK i \in 1 .. Len(channel) : channel[i].stream = t /\ len + 1 \in Bytes(channel[i])
    BY <1>2, <2>2 DEF Queued
  <2>4. channel[i].from < len + 1
    BY <1>3, <1>5, <2>3 DEF Bytes
  <2>5. i = 1 \/ c.to <= channel[i].from
    <3>1. i # 1 => 1 < i /\ 1 \in 1 .. Len(channel)
      BY <1>1
    <3>2. channel[1].stream = t /\ channel[1].to = c.to
      BY <1>0, <1>1
    <3> QED BY <1>2, <2>3, <3>1, <3>2 DEF Queued
  <2> QED BY <1>1, <1>2, <1>3, <1>5, <2>1, <2>4, <2>5
<1>8. /\ GoodText(output[t] \o Text(c)) /\ output[t] \o Text(c) \in Seq(Nat) /\ Len(output[t] \o Text(c)) = c.to
  BY <1>1, <1>2, <1>3, <1>7, TextContinues DEF Collected
<1>9. output' \in [Streams -> Seq(Nat)]
  BY <1>2, <1>3, <1>4, <1>8
<1>10. output'[t] = output[t] \o Text(c) /\ \A s \in Streams \ {t} : output'[s] = output[s]
  BY <1>2, <1>3, <1>4
<1>11. Len(output'[t]) = c.to /\ Collected(t, n[t])'
  BY <1>7, <1>8, <1>10 DEF Collected
<1>12. \A i \in 1 .. Len(channel') : i + 1 \in 1 .. Len(channel) /\ channel'[i] = channel[i + 1]
  BY <1>1
<1>13. \A i, j \in 1 .. Len(channel') : i < j => i + 1 < j + 1
  OBVIOUS
<1>14. ASSUME NEW s \in Streams, NEW i \in 1 .. Len(channel'), NEW j \in 1 .. Len(channel'), i < j,
              channel'[i].stream = s, channel'[j].stream = s
       PROVE  channel'[i].to <= channel'[j].from
  BY <1>12, <1>13, <1>14 DEF Queued
<1>15. Queued(t, n[t])'
  <2>1. ASSUME NEW i \in 1 .. Len(channel'), channel'[i].stream = t
        PROVE  c.to <= channel'[i].from /\ channel'[i].from < channel'[i].to /\ channel'[i].to <= n[t]
    <3>1. i + 1 \in 1 .. Len(channel) /\ 1 \in 1 .. Len(channel) /\ 1 < i + 1 /\ channel'[i] = channel[i + 1]
      BY <1>1
    <3> QED BY <1>0, <1>1, <1>2, <2>1, <3>1 DEF Queued
  <2>2. ASSUME NEW k \in (c.to + 1) .. n[t]
        PROVE  \E i \in 1 .. Len(channel') : channel'[i].stream = t /\ k \in Bytes(channel'[i])
    <3>1. k \in (len + 1) .. n[t] /\ ~(k <= c.to)
      BY <1>2, <1>6, <1>7
    <3>2. PICK i \in 1 .. Len(channel) : channel[i].stream = t /\ k \in Bytes(channel[i])
      BY <1>2, <3>1 DEF Queued
    <3>3. i # 1
      BY <1>1, <3>1, <3>2 DEF Bytes
    <3>4. i - 1 \in 1 .. Len(channel') /\ channel'[i - 1] = channel[i]
      BY <1>1, <3>3
    <3> QED BY <3>2, <3>4
  <2> QED BY <1>2, <1>11, <1>14, <2>1, <2>2 DEF Queued
<1>16. ASSUME NEW s \in Streams, s # t PROVE Collected(s, n[s])' /\ Queued(s, n[s])'
  <2>1. output'[s] = output[s]
    BY <1>10, <1>16
  <2>2. Collected(s, n[s])'
    BY <2>1 DEF Collected
  <2>3. \A i \in 1 .. Len(channel) : channel[i].stream = s => i - 1 \in 1 .. Len(channel') /\ channel'[i - 1] = channel[i]
    BY <1>0, <1>1, <1>16
  <2>4. \A i \in 1 .. Len(channel') : channel'[i].stream = s =>
           Len(output[s]) <= channel'[i].from /\ channel'[i].from < channel'[i].to /\ channel'[i].to <= n[s]
    BY <1>12 DEF Queued
  <2>5. \A k \in (Len(output[s]) + 1) .. n[s] :
           \E i \in 1 .. Len(channel') : channel'[i].stream = s /\ k \in Bytes(channel'[i])
    <3> SUFFICES ASSUME NEW k \in (Len(output[s]) + 1) .. n[s]
                 PROVE  \E i \in 1 .. Len(channel') : channel'[i].stream = s /\ k \in Bytes(channel'[i])
      OBVIOUS
    <3>1. PICK i \in 1 .. Len(channel) : channel[i].stream = s /\ k \in Bytes(channel[i])
      BY DEF Queued
    <3> QED BY <2>3, <3>1
  <2> QED BY <1>14, <2>1, <2>2, <2>4, <2>5 DEF Queued
<1> QED BY <1>1, <1>9, <1>11, <1>15, <1>16

(* Steps that leave the channel and the output alone.                      *)
LEMMA QueueKept ==
  ASSUME UNCHANGED <<channel, output>>
  PROVE  \A s, n : (Collected(s, n) => Collected(s, n)') /\ (Queued(s, n) => Queued(s, n)')
BY DEF Collected, Queued

(* read_pipe: the chunk the reader holds goes to the end of the channel.   *)
LEMMA SendMoves ==
  ASSUME CmdInv, NEW t \in Streams, ReaderSends(t)
  PROVE  CmdInv'
<1>1. PICK m \in [Streams -> Nat] : Accounted(m)
  BY DEF CmdInv
<1>2. /\ reader[t] = "sending" /\ channel' = Append(channel, held[t])
      /\ reader' = [reader EXCEPT ![t] = "reading"]
      /\ UNCHANGED <<child, hung, descendant, written, taken, held, captured, output, main, token, outcome>>
  BY DEF ReaderSends, commandVars, mainVars
<1>3. CmdTypeOK
  BY DEF CmdInv
<1>0. PICK c, from : c = held[t] /\ from = c.from
  OBVIOUS
<1>4. c \in Chunks /\ c.stream = t /\ c.from = from /\ from \in Nat /\ from < m[t] /\ c.to = m[t] /\ m[t] \in Nat
  BY <1>0, <1>1, <1>2, <1>3, StreamTypes DEF Accounted, Ahead
<1>5. Sent(t, m[t]) = from /\ Sent(t, m[t])' = m[t] /\ \A s \in Streams \ {t} : Sent(s, m[s])' = Sent(s, m[s])
  BY <1>0, <1>2, <1>3 DEF Sent, CmdTypeOK
<1>6. /\ channel' \in Seq(Chunks) /\ Len(channel) \in Nat /\ Len(channel') = Len(channel) + 1
      /\ (\A i \in 1 .. Len(channel) : channel'[i] = channel[i]) /\ channel'[Len(channel) + 1] = c
  BY <1>0, <1>2, <1>3, <1>4, AppendProperties, StreamTypes
<1>7. CmdTypeOK'
  BY <1>2, <1>3, <1>6 DEF CmdTypeOK
<1>8. EndIsReached'
  <2>1. \A s \in Streams : reader'[s] = "done" => reader[s] = "done"
    BY <1>2, <1>3 DEF CmdTypeOK
  <2>2. main # "done"
    BY <1>2 DEF CmdInv, EndIsReached, ReadersDone
  <2> QED BY <1>2, <2>1, <2>2 DEF CmdInv, EndIsReached, PipeOpen
<1>9. ASSUME NEW s \in Streams PROVE Ahead(s, m[s])'
  <2>1. Ahead(s, m[s])
    BY <1>1 DEF Accounted
  <2> QED BY <1>2, <1>3, <2>1 DEF Ahead, CmdTypeOK
<1>10. \A i \in 1 .. Len(channel) : channel[i].from \in Nat /\ channel[i].to \in Nat
  <2>1. \A i \in 1 .. Len(channel) : channel[i] \in Chunks
    BY <1>3, ElementOfSeq DEF CmdTypeOK
  <2> QED BY <2>1 DEF Chunks
<1>11. \A i \in 1 .. Len(channel') : i \in 1 .. Len(channel) \/ i = Len(channel) + 1
  BY <1>6
<1>12. ASSUME NEW s \in Streams, s # t PROVE Collected(s, Sent(s, m[s]))' /\ Queued(s, Sent(s, m[s]))'
  <2>0. PICK n : n = Sent(s, m[s])
    OBVIOUS
  <2>1. Collected(s, n) /\ Queued(s, n) /\ Sent(s, m[s])' = n
    BY <1>1, <1>5, <1>12, <2>0 DEF Accounted
  <2>2. Collected(s, n)'
    BY <1>2, <2>1 DEF Collected
  <2>3. \A i \in 1 .. Len(channel') : channel'[i].stream = s => i \in 1 .. Len(channel) /\ channel'[i] = channel[i]
    BY <1>4, <1>6, <1>11, <1>12
  <2>4. \A i \in 1 .. Len(channel) : i \in 1 .. Len(channel') /\ channel'[i] = channel[i]
    BY <1>6
  <2>5. Queued(s, n)'
    BY <1>2, <2>1, <2>3, <2>4 DEF Queued
  <2> QED BY <2>1, <2>2, <2>5
<1>13. Collected(t, m[t])' /\ Queued(t, m[t])'
  <2>1. Collected(t, from) /\ Queued(t, from)
    BY <1>1, <1>5 DEF Accounted
  <2>2. output' = output /\ Len(output[t]) \in Nat /\ Len(output[t]) <= from
    BY <1>2, <1>3, <2>1, StreamTypes DEF Collected
  <2>3. Collected(t, m[t])'
    BY <1>4, <2>1, <2>2 DEF Collected
  <2>4. ASSUME NEW i \in 1 .. Len(channel'), channel'[i].stream = t
        PROVE  Len(output[t]) <= channel'[i].from /\ channel'[i].from < channel'[i].to /\ channel'[i].to <= m[t]
    <3>1. CASE i = Len(channel) + 1
      BY <1>4, <1>6, <2>2, <3>1
    <3>2. CASE i \in 1 .. Len(channel)
      <4>1. channel'[i] = channel[i]
        BY <1>6, <3>2
      <4>2. Len(output[t]) <= channel[i].from /\ channel[i].from < channel[i].to /\ channel[i].to <= from
        BY <2>1, <2>4, <3>2, <4>1 DEF Queued
      <4> QED BY <1>4, <1>10, <3>2, <4>1, <4>2
    <3> QED BY <1>11, <3>1, <3>2
  <2>5. ASSUME NEW i \in 1 .. Len(channel'), NEW j \in 1 .. Len(channel'), i < j,
               channel'[i].stream = t, channel'[j].stream = t
        PROVE  channel'[i].to <= channel'[j].from
    <3>1. i \in 1 .. Len(channel) /\ channel'[i] = channel[i]
      BY <1>6, <2>5
    <3>2. CASE j = Len(channel) + 1
      <4>1. channel[i].to <= from
        BY <2>1, <2>5, <3>1 DEF Queued
      <4> QED BY <1>4, <1>6, <3>1, <3>2, <4>1
    <3>3. CASE j \in 1 .. Len(channel)
      BY <1>6, <2>1, <2>5, <3>1, <3>3 DEF Queued
    <3> QED BY <1>11, <3>2, <3>3
  <2>6. ASSUME NEW k \in (Len(output[t]) + 1) .. m[t]
        PROVE  \E i \in 1 .. Len(channel') : channel'[i].stream = t /\ k \in Bytes(channel'[i])
    <3>1. CASE k > from
      <4>1. k \in Bytes(c)
        BY <1>4, <2>2, <3>1 DEF Bytes
      <4> QED BY <1>4, <1>6, <4>1
    <3>2. CASE k \in (Len(output[t]) + 1) .. from
      <4>1. PICK i \in 1 .. Len(channel) : channel[i].stream = t /\ k \in Bytes(channel[i])
        BY <2>1, <3>2 DEF Queued
      <4>2. i \in 1 .. Len(channel') /\ channel'[i] = channel[i]
        BY <1>6
      <4> QED BY <4>1, <4>2
    <3> QED BY <1>4, <2>2, <3>1, <3>2
  <2>7. Queued(t, m[t])'
    BY <2>2, <2>4, <2>5, <2>6 DEF Queued
  <2> QED BY <2>3, <2>7
<1>14. Accounted(m)'
  BY <1>1, <1>2, <1>5, <1>9, <1>12, <1>13 DEF Accounted
<1> QED BY <1>7, <1>8, <1>14 DEF CmdInv

(* read_pipe: reserve_capture keeps of the bytes read what the limit       *)
(* allows and drops the rest for good.                                     *)
LEMMA ReadMoves ==
  ASSUME CmdInv, NEW t \in Streams, NEW count \in 1 .. MaxBytes, ReaderReads(t, count)
  PROVE  CmdInv'
<1>1. PICK m \in [Streams -> Nat] : Accounted(m)
  BY DEF CmdInv
<1>0. PICK allowed : allowed = Allowed(count)
  OBVIOUS
<1>2. /\ reader[t] = "reading" /\ taken[t] + count <= written[t]
      /\ taken' = [taken EXCEPT ![t] = taken[t] + count]
      /\ captured' = captured + allowed
      /\ UNCHANGED <<child, hung, descendant, written, channel, output, main, token, outcome>>
  BY <1>0 DEF ReaderReads, commandVars, mainVars
<1>3. /\ allowed = 0 => UNCHANGED <<reader, held>>
      /\ allowed # 0 => /\ held' = [held EXCEPT ![t] = Chunk(t, taken[t], taken[t] + allowed)]
                        /\ reader' = [reader EXCEPT ![t] = "sending"]
  BY <1>0 DEF ReaderReads
<1>4. CmdTypeOK /\ taken[t] \in Nat /\ m[t] \in Nat /\ captured \in Nat /\ captured <= CaptureLimit /\ CaptureLimit \in Nat
      /\ count \in Nat /\ count >= 1
  BY StreamTypes, BoundsAssumption DEF CmdInv
<1>5. /\ allowed \in Nat /\ allowed <= count /\ captured + allowed <= CaptureLimit
      /\ captured + allowed < CaptureLimit => allowed = count
      /\ allowed = 0 <=> captured = CaptureLimit
  BY <1>0, <1>4 DEF Allowed
<1>6. /\ taken' \in [Streams -> Nat] /\ (\A s \in Streams : taken'[s] <= written[s])
      /\ taken'[t] = taken[t] + count /\ \A s \in Streams \ {t} : taken'[s] = taken[s]
  BY <1>2, <1>4 DEF CmdTypeOK
<1>7. CmdTypeOK' /\ (\A s \in Streams \ {t} : reader'[s] = reader[s] /\ held'[s] = held[s]) /\ reader'[t] # "done"
  <2>1. CASE allowed = 0
    BY <1>2, <1>3, <1>4, <1>5, <1>6, <2>1 DEF CmdTypeOK
  <2>2. CASE allowed # 0
    <3>1. Chunk(t, taken[t], taken[t] + allowed) \in Chunks
      BY <1>4, <1>5 DEF Chunk, Chunks
    <3>2. /\ held' \in [Streams -> Chunks] /\ reader' \in [Streams -> {"reading", "sending", "done"}]
          /\ (\A s \in Streams \ {t} : reader'[s] = reader[s] /\ held'[s] = held[s]) /\ reader'[t] = "sending"
      BY <1>3, <1>4, <2>2, <3>1 DEF CmdTypeOK
    <3> QED BY <1>2, <1>4, <1>5, <1>6, <3>2 DEF CmdTypeOK
  <2> QED BY <2>1, <2>2
<1>8. EndIsReached'
  <2>1. \A s \in Streams : reader'[s] = "done" => s # t /\ reader[s] = "done"
    BY <1>7
  <2>2. main # "done"
    BY <1>2 DEF CmdInv, EndIsReached, ReadersDone
  <2> QED BY <1>2, <1>6, <2>1, <2>2 DEF CmdInv, EndIsReached, PipeOpen
<1>9. PICK q \in [Streams -> Nat] : q[t] = m[t] + allowed /\ \A s \in Streams \ {t} : q[s] = m[s]
  <2> DEFINE r == [m EXCEPT ![t] = m[t] + allowed]
  <2>1. r \in [Streams -> Nat] /\ r[t] = m[t] + allowed /\ \A s \in Streams \ {t} : r[s] = m[s]
    BY <1>4, <1>5
  <2> QED BY <2>1
<1>10. captured < CaptureLimit => taken[t] = m[t]
  BY <1>1 DEF Accounted, Ahead
<1>11. ASSUME NEW s \in Streams PROVE Sent(s, q[s])' = Sent(s, m[s]) /\ Ahead(s, q[s])'
  <2>1. Ahead(s, m[s])
    BY <1>1 DEF Accounted
  <2>2. CASE s # t
    <3>1. captured' < CaptureLimit => captured < CaptureLimit
      BY <1>2, <1>4, <1>5
    <3> QED BY <1>6, <1>7, <1>9, <2>1, <2>2, <3>1 DEF Sent, Ahead
  <2>3. CASE s = t /\ allowed = 0
    <3>1. UNCHANGED <<reader, held>> /\ q[t] = m[t] /\ ~(captured' < CaptureLimit)
      BY <1>2, <1>3, <1>4, <1>5, <1>9, <2>3
    <3> QED BY <1>2, <2>3, <3>1 DEF Sent, Ahead
  <2>4. CASE s = t /\ allowed # 0
    <3>1. captured < CaptureLimit /\ taken[t] = m[t]
      BY <1>4, <1>5, <1>10, <2>4
    <3>2. reader'[t] = "sending" /\ held'[t] = Chunk(t, m[t], q[t])
      BY <1>3, <1>4, <1>9, <2>4, <3>1 DEF CmdTypeOK
    <3>3. m[t] < q[t]
      BY <1>4, <1>5, <1>9, <2>4
    <3>4. captured' < CaptureLimit => taken'[t] = q[t]
      BY <1>2, <1>5, <1>6, <1>9, <3>1
    <3> QED BY <1>2, <2>4, <3>2, <3>3, <3>4 DEF Sent, Ahead, Chunk
  <2> QED BY <2>2, <2>3, <2>4
<1>12. captured' = q["stdout"] + q["stderr"]
  <2>1. captured = m["stdout"] + m["stderr"] /\ m["stdout"] \in Nat /\ m["stderr"] \in Nat /\ t \in {"stdout", "stderr"}
    BY <1>1 DEF Accounted, Streams
  <2> DEFINE x == m["stdout"] y == m["stderr"] u == q["stdout"] v == q["stderr"]
  <2>2. (u = x + allowed /\ v = y) \/ (u = x /\ v = y + allowed)
    BY <1>9, <2>1 DEF Streams
  <2>3. x \in Nat /\ y \in Nat /\ captured = x + y
    BY <2>1
  <2> HIDE DEF x, y, u, v
  <2>4. captured' = u + v
    BY <1>2, <1>5, <2>2, <2>3
  <2> QED BY <2>4 DEF u, v
<1>13. Accounted(q)'
  <2>1. ASSUME NEW s \in Streams PROVE Collected(s, Sent(s, q[s]))' /\ Queued(s, Sent(s, q[s]))'
    <3>0. PICK n : n = Sent(s, m[s])
      OBVIOUS
    <3>1. Collected(s, n) /\ Queued(s, n) /\ Sent(s, q[s])' = n
      BY <1>1, <1>11, <3>0 DEF Accounted
    <3>2. Collected(s, n)' /\ Queued(s, n)'
      BY <1>2, <3>1, QueueKept
    <3> QED BY <3>1, <3>2 DEF Collected, Queued
  <2> QED BY <1>11, <1>12, <2>1 DEF Accounted
<1> QED BY <1>7, <1>8, <1>9, <1>13 DEF CmdInv

(* A chunk of the channel, or none, goes to the output; the rest of the    *)
(* step is about the child, the token, the clock and the outcome.          *)
Received == \/ UNCHANGED <<output, channel>>
            \/ channel # <<>> /\ output' = Collect(output, Head(channel)) /\ channel' = Tail(channel)

LEMMA ReceiveMoves ==
  ASSUME CmdInv, UNCHANGED <<taken, reader, held, captured>>, Received
  PROVE  /\ \E m \in [Streams -> Nat] : Accounted(m)'
         /\ output' \in [Streams -> Seq(Nat)] /\ channel' \in Seq(Chunks)
<1>1. PICK m \in [Streams -> Nat] : Accounted(m)
  BY DEF CmdInv
<1>2. CmdTypeOK
  BY DEF CmdInv
<1>3. \A s \in Streams : Sent(s, m[s]) \in Nat /\ Sent(s, m[s])' = Sent(s, m[s])
  BY <1>2, StreamTypes DEF Sent
<1>4. PICK n \in [Streams -> Nat] : \A s \in Streams : n[s] = Sent(s, m[s])
  <2>1. [s \in Streams |-> Sent(s, m[s])] \in [Streams -> Nat]
    BY <1>3
  <2> QED BY <2>1
<1>5. \A s \in Streams : Collected(s, n[s]) /\ Queued(s, n[s]) /\ Ahead(s, m[s])
  BY <1>1, <1>4 DEF Accounted
<1>6. /\ output' \in [Streams -> Seq(Nat)] /\ channel' \in Seq(Chunks)
      /\ \A s \in Streams : Collected(s, n[s])' /\ Queued(s, n[s])'
  <2>1. CASE UNCHANGED <<output, channel>>
    BY <1>2, <1>5, <2>1, QueueKept DEF CmdTypeOK
  <2>2. CASE channel # <<>> /\ output' = Collect(output, Head(channel)) /\ channel' = Tail(channel)
    BY <1>2, <1>4, <1>5, <2>2, CollectMoves
  <2> QED BY <2>1, <2>2 DEF Received
<1>7. ASSUME NEW s \in Streams PROVE Collected(s, Sent(s, m[s]))' /\ Queued(s, Sent(s, m[s]))' /\ Ahead(s, m[s])'
  <2>1. Sent(s, m[s])' = n[s]
    BY <1>3, <1>4
  <2>2. Ahead(s, m[s])'
    BY <1>5 DEF Ahead
  <2> QED BY <1>6, <2>1, <2>2 DEF Collected, Queued
<1>8. Accounted(m)'
  BY <1>1, <1>7 DEF Accounted
<1> QED BY <1>6, <1>8

(* Every step of the command, its readers and the tool keeps CmdInv.       *)
LEMMA CmdStepInv == CmdInv /\ [CmdNext]_cmdVars => CmdInv'
<1> SUFFICES ASSUME CmdInv, [CmdNext]_cmdVars PROVE CmdInv'
  OBVIOUS
<1> USE DEF commandVars, readerVars, mainVars
<1>0. ASSUME UNCHANGED <<taken, reader, held, captured>>, Received, token' \in BOOLEAN,
             written' \in [Streams -> Nat], \A s \in Streams : taken[s] <= written'[s],
             child' \in {"running", "zero", "failed", "killed"}, outcome' \in Outcomes, EndIsReached'
      PROVE  CmdInv'
  <2>1. /\ \E m \in [Streams -> Nat] : Accounted(m)'
        /\ output' \in [Streams -> Seq(Nat)] /\ channel' \in Seq(Chunks)
    BY <1>0, ReceiveMoves
  <2>2. CmdTypeOK'
    BY <1>0, <2>1 DEF CmdInv, CmdTypeOK
  <2> QED BY <1>0, <2>1, <2>2 DEF CmdInv
<1>1. /\ child \in {"running", "zero", "failed", "killed"} /\ outcome \in Outcomes /\ token \in BOOLEAN
      /\ written \in [Streams -> Nat] /\ (\A s \in Streams : taken[s] <= written[s])
      /\ \A s \in Streams : reader[s] = "done" => taken[s] = written[s] /\ ~PipeOpen(s)
  BY DEF CmdInv, CmdTypeOK, EndIsReached
<1> DEFINE NoneOpens == \A s \in Streams : PipeOpen(s)' => PipeOpen(s)
<1>2. ASSUME Terminate, UNCHANGED hung PROVE child' \in {"running", "zero", "failed", "killed"} /\ NoneOpens
  BY <1>1, <1>2 DEF Terminate, PipeOpen
<1>3. ASSUME Iterate PROVE CmdInv'
  <2>1. UNCHANGED <<written, taken, reader, held, captured, token, hung>> /\ Received /\ main = "loop"
    BY <1>3 DEF Iterate, Received
  <2>2. main' # "done" /\ child' \in {"running", "zero", "failed", "killed"} /\ NoneOpens
    <3>1. CASE token \/ expired
      BY <1>2, <1>3, <2>1, <3>1 DEF Iterate
    <3>2. CASE ~(token \/ expired)
      BY <1>1, <1>3, <2>1, <3>2 DEF Iterate, PipeOpen
    <3> QED BY <3>1, <3>2
  <2>3. outcome' \in Outcomes
    <3>1. token \/ expired => outcome' = [outcome EXCEPT !.cancelled = token, !.timedOut = ~token]
      BY <1>3 DEF Iterate
    <3>2. ~(token \/ expired) => outcome' = outcome
      BY <1>3 DEF Iterate
    <3>3. CASE token \/ expired
      <4>1. [outcome EXCEPT !.cancelled = token, !.timedOut = ~token] \in Outcomes
        BY <1>1 DEF Outcomes, CmdInv, CmdTypeOK
      <4> QED BY <3>1, <3>3, <4>1
    <3> QED BY <1>1, <3>2, <3>3
  <2>4. EndIsReached'
    BY <1>1, <2>1, <2>2 DEF EndIsReached
  <2>5. token' \in BOOLEAN
    BY <1>1, <2>1
  <2> QED BY <1>0, <1>1, <2>1, <2>2, <2>3, <2>4, <2>5
<1>4. ASSUME ConsumerFails PROVE CmdInv'
  <2>1. UNCHANGED <<written, taken, reader, held, captured, token, hung>> /\ Received /\ main' = "wait" /\ Terminate
    BY <1>4 DEF ConsumerFails, Received
  <2>2. outcome' \in Outcomes
    BY <1>1, <1>4 DEF ConsumerFails, Outcomes
  <2>3. child' \in {"running", "zero", "failed", "killed"} /\ NoneOpens
    BY <1>2, <2>1
  <2>4. EndIsReached'
    BY <1>1, <2>1, <2>3 DEF EndIsReached
  <2>5. token' \in BOOLEAN
    BY <1>1, <2>1
  <2> QED BY <1>0, <1>1, <2>1, <2>2, <2>3, <2>4, <2>5
<1>5. ASSUME Disconnected \/ WaitChild PROVE CmdInv'
  <2>1. UNCHANGED <<commandVars, readerVars, channel, output, token, outcome>> /\ main' # "done"
    BY <1>5 DEF Disconnected, WaitChild
  <2>2. EndIsReached'
    BY <1>1, <2>1 DEF EndIsReached, PipeOpen
  <2> QED BY <1>0, <1>1, <2>1, <2>2 DEF Received
<1>6. ASSUME DrainChunk PROVE CmdInv'
  <2>1. /\ UNCHANGED <<commandVars, readerVars, main, token, outcome>> /\ main = "join"
        /\ channel # <<>> /\ output' = Collect(output, Head(channel)) /\ channel' = Tail(channel)
    BY <1>6 DEF DrainChunk
  <2>2. EndIsReached'
    BY <1>1, <2>1 DEF EndIsReached, PipeOpen
  <2> QED BY <1>0, <1>1, <2>1, <2>2 DEF Received
<1>7. ASSUME JoinAndFinish PROVE CmdInv'
  <2>1. /\ UNCHANGED <<commandVars, readerVars, channel, output, token>>
        /\ ReadersDone /\ channel = <<>> /\ main' = "done"
        /\ outcome' = [outcome EXCEPT !.success = Success(outcome)]
    BY <1>7 DEF JoinAndFinish
  <2>2. Success(outcome) \in BOOLEAN
    BY DEF Success
  <2>3. /\ outcome' \in Outcomes /\ outcome'.success = Success(outcome) /\ outcome'.timedOut = outcome.timedOut
        /\ outcome'.cancelled = outcome.cancelled /\ outcome'.consumerFailed = outcome.consumerFailed
    BY <1>1, <2>1, <2>2 DEF Outcomes
  <2>4. EndIsReached'
    BY <1>1, <2>1, <2>3 DEF EndIsReached, PipeOpen, ReadersDone, Success
  <2> QED BY <1>0, <1>1, <2>1, <2>3, <2>4 DEF Received
<1>8. ASSUME CancelCommand \/ TimeOut \/ UNCHANGED cmdVars PROVE CmdInv'
  <2>1. UNCHANGED <<commandVars, readerVars, channel, output, main, outcome>> /\ token' \in BOOLEAN
    BY <1>1, <1>8 DEF CancelCommand, TimeOut, cmdVars
  <2>2. EndIsReached'
    BY <2>1 DEF CmdInv, EndIsReached, PipeOpen, ReadersDone
  <2> QED BY <1>0, <1>1, <2>1, <2>2 DEF Received
<1>9. ASSUME \/ DescendantExits
             \/ \E s \in Streams : CommandCloses(s)
             \/ \E code \in {"zero", "failed"} : CommandExits(code)
      PROVE  CmdInv'
  <2>1. /\ UNCHANGED <<written, readerVars, channel, mainVars, token>>
        /\ child' \in {"running", "zero", "failed", "killed"} /\ (child = child' \/ child = "running")
    BY <1>1, <1>9 DEF DescendantExits, CommandCloses, CommandExits
  <2>2. NoneOpens
    <3>1. CASE DescendantExits
      BY <3>1 DEF DescendantExits, PipeOpen
    <3>2. CASE \E s \in Streams : CommandCloses(s)
      <4>1. PICK s \in Streams : ~hung[s] /\ hung' = [hung EXCEPT ![s] = TRUE] /\ UNCHANGED <<child, descendant>>
        BY <3>2 DEF CommandCloses
      <4>2. \A r \in Streams : PipeOpen(r)' => PipeOpen(r)
        <5> SUFFICES ASSUME NEW r \in Streams, child = "running", ~hung'[r] PROVE ~hung[r]
          BY <4>1 DEF PipeOpen
        <5>1. CASE r = s
          BY <4>1, <5>1
        <5>2. CASE r # s
          BY <4>1, <5>2
        <5> QED BY <5>1, <5>2
      <4> QED BY <4>2
    <3>3. CASE \E code \in {"zero", "failed"} : CommandExits(code)
      BY <3>3 DEF CommandExits, PipeOpen
    <3> QED BY <1>9, <3>1, <3>2, <3>3
  <2>3. EndIsReached'
    BY <1>1, <2>1, <2>2 DEF CmdInv, EndIsReached, ReadersDone
  <2> QED BY <1>0, <1>1, <2>1, <2>3 DEF Received
<1>10. ASSUME NEW t \in Streams, ReaderEnds(t) PROVE CmdInv'
  <2>1. /\ reader[t] = "reading" /\ taken[t] = written[t] /\ ~PipeOpen(t) /\ reader' = [reader EXCEPT ![t] = "done"]
        /\ UNCHANGED <<commandVars, taken, held, captured, channel, output, main, token, outcome>>
    BY <1>10 DEF ReaderEnds
  <2>2. CmdTypeOK'
    BY <2>1 DEF CmdInv, CmdTypeOK
  <2>3. main # "done"
    BY <2>1 DEF CmdInv, EndIsReached, ReadersDone
  <2>4. EndIsReached'
    BY <1>1, <2>1, <2>2, <2>3 DEF CmdInv, CmdTypeOK, EndIsReached, PipeOpen
  <2>5. PICK m \in [Streams -> Nat] : Accounted(m)
    BY DEF CmdInv
  <2>6. \A s \in Streams : (reader'[s] = "sending" <=> reader[s] = "sending")
    BY <2>1 DEF CmdInv, CmdTypeOK
  <2>7. ASSUME NEW s \in Streams PROVE Collected(s, Sent(s, m[s]))' /\ Queued(s, Sent(s, m[s]))' /\ Ahead(s, m[s])'
    <3>0. PICK n : n = Sent(s, m[s])
      OBVIOUS
    <3>1. Collected(s, n) /\ Queued(s, n) /\ Ahead(s, m[s])
      BY <2>5, <3>0 DEF Accounted
    <3>2. Sent(s, m[s])' = n /\ Ahead(s, m[s])'
      BY <2>1, <2>6, <3>0, <3>1 DEF Sent, Ahead
    <3>3. Collected(s, n)' /\ Queued(s, n)'
      BY <2>1, <3>1, QueueKept
    <3> QED BY <3>2, <3>3 DEF Collected, Queued
  <2>8. Accounted(m)'
    BY <2>1, <2>5, <2>7 DEF Accounted
  <2> QED BY <2>2, <2>4, <2>8 DEF CmdInv
<1>11. ASSUME NEW t \in Streams, Write(t) PROVE CmdInv'
  <2>1. /\ PipeOpen(t) /\ written' = [written EXCEPT ![t] = written[t] + 1]
        /\ UNCHANGED <<child, hung, descendant, readerVars, channel, mainVars, token>>
    BY <1>11 DEF Write
  <2>2. /\ written' \in [Streams -> Nat] /\ (\A s \in Streams : taken[s] <= written'[s])
        /\ \A s \in Streams \ {t} : written'[s] = written[s]
    BY <2>1, StreamTypes DEF CmdInv, CmdTypeOK
  <2>3. EndIsReached'
    BY <1>1, <2>1, <2>2 DEF CmdInv, EndIsReached, PipeOpen, ReadersDone
  <2> QED BY <1>0, <1>1, <2>1, <2>2, <2>3 DEF Received
<1> QED
  BY <1>3, <1>4, <1>5, <1>6, <1>7, <1>8, <1>9, <1>10, <1>11, SendMoves, ReadMoves DEF CmdNext, Execute, ReadPipe

(* Whatever the two readers, the tool, the command and its descendant do,  *)
(* however the reads cut what is written, and whatever the sizes of the    *)
(* channel and the capture limit: the output collected is a prefix of what *)
(* the command wrote to each stream, but for characters torn by a read or  *)
(* the limit, within the limit, and a result that says success has all of  *)
(* it.                                                                     *)
THEOREM OutputComplete == CmdSpec => []OutputIsComplete
<1> QED BY CmdInitInv, CmdStepInv, OutputFollows, PTL DEF CmdSpec

-----------------------------------------------------------------------------
(* The log of a background process: ProcessLogs.                           *)

(* Sums over the first N numbers.                                          *)
Sums(f, v, N) == f \in [0 .. N -> Nat] /\ f[0] = 0 /\ \A n \in 1 .. N : f[n] = f[n - 1] + v[n]

LEMMA SumExists ==
  ASSUME NEW N \in Nat, NEW v, \A n \in 1 .. N : v[n] \in Nat
  PROVE  \E f : Sums(f, v, N)
  <1> DEFINE Bad == {k \in 0 .. N : ~\E f : Sums(f, v, k)}
  <1>1. CASE Bad = {} BY <1>1
  <1>2. CASE Bad # {}
    <2>0. Bad \in SUBSET Nat OBVIOUS
    <2>1. PICK k \in Bad : \A j \in Bad : k <= j
      <3> HIDE DEF Bad
      <3> QED BY <1>2, <2>0, FirstOf
    <2>2. k # 0
      <3>1. Sums([i \in 0 .. 0 |-> 0], v, 0) BY DEF Sums
      <3> QED BY <2>1, <3>1
    <2>3. k \in Nat /\ k - 1 \in 0 .. N /\ k - 1 \notin Bad BY <2>1, <2>2
    <2>4. PICK f : Sums(f, v, k - 1) BY <2>3
    <2> DEFINE g == [i \in 0 .. k |-> IF i < k THEN f[i] ELSE f[k - 1] + v[k]]
    <2>5. Sums(g, v, k)
      <3>1. k - 1 \in Nat /\ f \in [0 .. k - 1 -> Nat] /\ v[k] \in Nat BY <2>1, <2>2, <2>3, <2>4 DEF Sums
      <3>2. g \in [0 .. k -> Nat] BY <2>3, <3>1
      <3>3. g[0] = 0 BY <2>2, <2>3, <2>4 DEF Sums
      <3>4. ASSUME NEW n \in 1 .. k PROVE g[n] = g[n - 1] + v[n]
        <4>1. CASE n < k
          <5>1. n \in 1 .. k - 1 /\ n - 1 < k /\ n - 1 \in 0 .. k BY <2>3, <4>1
          <5>2. f[n] = f[n - 1] + v[n] BY <2>4, <5>1 DEF Sums
          <5> QED BY <4>1, <5>1, <5>2
        <4>2. CASE n = k
          <5>1. n - 1 < k /\ n - 1 \in 0 .. k /\ n \in 0 .. k BY <2>3, <4>2
          <5> QED BY <2>3, <4>2, <5>1
        <4> QED BY <2>3, <4>1, <4>2
      <3> HIDE DEF g
      <3> QED BY <3>2, <3>3, <3>4 DEF Sums
    <2> HIDE DEF g
    <2> QED BY <2>1, <2>5
  <1> QED BY <1>1, <1>2


LEMMA UptoIs ==
  ASSUME NEW v \in Seq(Nat)
  PROVE  Sums(Upto(v), v, Len(v))
  <1> DEFINE N == Len(v)
             Eq(f) == f = [n \in 0 .. N |-> IF n = 0 THEN 0 ELSE f[n - 1] + v[n]]
             s == CHOOSE f : Eq(f)
  <1>1. N \in Nat /\ \A n \in 1 .. N : v[n] \in Nat OBVIOUS
  <1>2. Upto(v) = s BY DEF Upto
  <1> HIDE DEF N
  <1>3. PICK f : Sums(f, v, N) BY <1>1, SumExists
  <1>4. Eq(f)
    <2>1. f = [n \in 0 .. N |-> f[n]] BY <1>3 DEF Sums
    <2>2. \A n \in 0 .. N : f[n] = IF n = 0 THEN 0 ELSE f[n - 1] + v[n] BY <1>1, <1>3 DEF Sums
    <2> QED BY <2>1, <2>2
  <1>5. Eq(s) BY <1>4, Zenon
  <1>6. s = [n \in 0 .. N |-> IF n = 0 THEN 0 ELSE s[n - 1] + v[n]] BY <1>5
  <1> HIDE DEF s
  <1>7. \A n \in 0 .. N : s[n] = IF n = 0 THEN 0 ELSE s[n - 1] + v[n] BY <1>6
  <1>8. \A n \in 0 .. N : s[n] \in Nat
    <2> DEFINE Bad == {n \in 0 .. N : s[n] \notin Nat}
    <2>1. CASE Bad = {} BY <2>1
    <2>2. CASE Bad # {}
      <3>0. Bad \in SUBSET Nat BY <1>1
      <3>1. PICK k \in Bad : \A j \in Bad : k <= j
        <4> HIDE DEF Bad
        <4> QED BY <2>2, <3>0, FirstOf
      <3>2. k # 0 BY <1>7, <3>1
      <3>3. k \in 1 .. N /\ k - 1 \in 0 .. N /\ k - 1 \notin Bad BY <1>1, <3>1, <3>2
      <3>4. s[k - 1] \in Nat /\ v[k] \in Nat BY <1>1, <3>3
      <3>5. s[k] = s[k - 1] + v[k] BY <1>7, <3>1, <3>2
      <3>6. s[k] \in Nat BY <3>4, <3>5
      <3> QED BY <3>1, <3>6
    <2> QED BY <2>1, <2>2
  <1>9. Sums(s, v, N)
    <2>1. s \in [0 .. N -> Nat] BY <1>6, <1>8
    <2>2. s[0] = 0 BY <1>1, <1>7
    <2>3. \A n \in 1 .. N : s[n] = s[n - 1] + v[n]
      <3> SUFFICES ASSUME NEW n \in 1 .. N PROVE s[n] = s[n - 1] + v[n] OBVIOUS
      <3>1. n \in 0 .. N /\ n # 0 BY <1>1
      <3> QED BY <1>7, <3>1
    <2> QED BY <2>1, <2>2, <2>3 DEF Sums
  <1> QED BY <1>2, <1>9 DEF N

(* Sums do not fall.                                                       *)
LEMMA SumsGrow ==
  ASSUME NEW v \in Seq(Nat), NEW m \in 0 .. Len(v), NEW n \in 0 .. Len(v), m <= n
  PROVE  Upto(v)[m] <= Upto(v)[n] /\ Upto(v)[m] \in Nat /\ Upto(v)[n] \in Nat
  <1> DEFINE f == Upto(v)
             Bad == {k \in m .. Len(v) : ~(f[m] <= f[k])}
  <1>1. Sums(f, v, Len(v)) BY UptoIs
  <1> HIDE DEF f
  <1>2. f \in [0 .. Len(v) -> Nat] /\ Len(v) \in Nat BY <1>1 DEF Sums
  <1>3. CASE Bad = {}
    <2>1. n \in m .. Len(v) OBVIOUS
    <2> QED BY <1>2, <1>3, <2>1 DEF f
  <1>4. CASE Bad # {}
    <2>0. Bad \in SUBSET Nat OBVIOUS
    <2>1. PICK k \in Bad : \A j \in Bad : k <= j
      <3> HIDE DEF Bad
      <3> QED BY <1>4, <2>0, FirstOf
    <2>2. k # m BY <1>2, <2>1
    <2>3. k \in 1 .. Len(v) /\ k - 1 \in m .. Len(v) /\ k - 1 \notin Bad BY <1>2, <2>1, <2>2
    <2>4. f[k] = f[k - 1] + v[k] /\ v[k] \in Nat BY <1>1, <2>3 DEF Sums
    <2>5. f[m] <= f[k - 1] /\ f[m] \in Nat /\ f[k - 1] \in Nat BY <1>2, <2>3
    <2>6. f[m] <= f[k] BY <2>4, <2>5
    <2> QED BY <2>1, <2>6
  <1> QED BY <1>3, <1>4

LogRecord == [cursor : Nat, bytes : Nat, cut : BOOLEAN]
LEMMA BytesAre ==
  ASSUME NEW records \in Seq(LogRecord)
  PROVE  /\ BytesOf(records) \in Seq(Nat) /\ Len(BytesOf(records)) = Len(records)
         /\ \A i \in 1 .. Len(records) : BytesOf(records)[i] = records[i].bytes
         /\ \A after \in Nat : /\ Rows(records, after) \in Seq(Nat) /\ Len(Rows(records, after)) = Len(records)
                               /\ \A i \in 1 .. Len(records) :
                                    Rows(records, after)[i] = IF records[i].cursor > after THEN records[i].bytes + Prefix ELSE 0
  <1>1. Len(records) \in Nat /\ DOMAIN records = 1 .. Len(records)
        /\ \A i \in 1 .. Len(records) : records[i] \in LogRecord
    OBVIOUS
  <1>2. \A i \in 1 .. Len(records) : records[i].bytes \in Nat /\ records[i].cursor \in Nat BY <1>1 DEF LogRecord
  <1>3. BytesOf(records) = [i \in 1 .. Len(records) |-> records[i].bytes] BY <1>1 DEF BytesOf
  <1>4. BytesOf(records) \in [1 .. Len(records) -> Nat] BY <1>2, <1>3
  <1>5. ASSUME NEW after \in Nat
        PROVE  /\ Rows(records, after) \in Seq(Nat) /\ Len(Rows(records, after)) = Len(records)
               /\ \A i \in 1 .. Len(records) :
                    Rows(records, after)[i] = IF records[i].cursor > after THEN records[i].bytes + Prefix ELSE 0
    <2>1. Rows(records, after) = [i \in 1 .. Len(records) |-> IF records[i].cursor > after THEN records[i].bytes + Prefix ELSE 0]
      BY <1>1 DEF Rows
    <2>2. Rows(records, after) \in [1 .. Len(records) -> Nat] BY <1>2, <2>1 DEF Prefix
    <2> QED BY <1>1, <2>1, <2>2
  <1>6. /\ BytesOf(records) \in Seq(Nat) /\ Len(BytesOf(records)) = Len(records)
        /\ \A i \in 1 .. Len(records) : BytesOf(records)[i] = records[i].bytes
    BY <1>1, <1>3, <1>4
  <1> QED BY <1>5, <1>6

(* Without the oldest and with one more.                                   *)
LEMMA TotalAfter ==
  ASSUME NEW records \in Seq(LogRecord), NEW n \in 0 .. Len(records), NEW r \in LogRecord
  PROVE  LET rest == Append(SubSeq(records, n + 1, Len(records)), r)
         IN Total(rest) + Upto(BytesOf(records))[n] = Total(records) + r.bytes
  <1> DEFINE N == Len(records)
             rest == Append(SubSeq(records, n + 1, N), r)
             v == BytesOf(records)
             w == BytesOf(rest)
             f == Upto(v)
             g == Upto(w)
             Bad == {k \in 0 .. N - n : g[k] + f[n] # f[n + k]}
  <1>1. N \in Nat /\ n \in Nat /\ n <= N OBVIOUS
  <1>2. rest \in Seq(LogRecord) /\ Len(rest) = N - n + 1 /\ (\A i \in 1 .. N - n : rest[i] = records[n + i]) /\ rest[N - n + 1] = r
    OBVIOUS
  <1>3. v \in Seq(Nat) /\ Len(v) = N /\ \A i \in 1 .. N : v[i] = records[i].bytes BY BytesAre
  <1>4. w \in Seq(Nat) /\ Len(w) = N - n + 1 /\ \A i \in 1 .. N - n + 1 : w[i] = rest[i].bytes
    <2> HIDE DEF rest
    <2> QED BY <1>2, BytesAre
  <1> HIDE DEF rest, v, w, N
  <1>5. Sums(f, v, N) /\ Sums(g, w, N - n + 1) BY <1>3, <1>4, UptoIs
  <1>6. Total(records) = f[N] /\ Total(rest) = g[N - n + 1] BY <1>2 DEF Total, v, w, N
  <1> HIDE DEF f, g
  <1>7. g[N - n] + f[n] = f[N]
    <2>1. CASE Bad = {}
      <3>1. N - n \in 0 .. N - n /\ n + (N - n) = N BY <1>1
      <3> QED BY <2>1, <3>1
    <2>2. CASE Bad # {}
      <3>0. Bad \in SUBSET Nat OBVIOUS
      <3>1. PICK k \in Bad : \A j \in Bad : k <= j
        <4> HIDE DEF Bad
        <4> QED BY <2>2, <3>0, FirstOf
      <3>2. k # 0 BY <1>1, <1>5, <3>1 DEF Sums
      <3>3. k \in 1 .. N - n /\ k - 1 \in 0 .. N - n /\ k - 1 \notin Bad BY <1>1, <3>1, <3>2
      <3>4. g[k - 1] + f[n] = f[n + (k - 1)] BY <3>3
      <3>5. g[k] = g[k - 1] + w[k] BY <1>1, <1>5, <3>3 DEF Sums
      <3>6. f[n + k] = f[(n + k) - 1] + v[n + k]
        <4>1. n + k \in 1 .. N BY <1>1, <3>3
        <4> QED BY <1>5, <4>1 DEF Sums
      <3>7. w[k] = v[n + k] /\ w[k] \in Nat
        <4>1. k \in 1 .. N - n + 1 /\ n + k \in 1 .. N BY <1>1, <3>3
        <4>2. w[k] \in Nat BY <1>4, <4>1
        <4>3. w[k] = rest[k].bytes /\ rest[k] = records[n + k] BY <1>2, <1>4, <3>3, <4>1
        <4>4. v[n + k] = records[n + k].bytes BY <1>3, <4>1
        <4> QED BY <4>2, <4>3, <4>4
      <3>8. (n + k) - 1 = n + (k - 1) BY <1>1, <3>3
      <3>9. g[k - 1] \in Nat /\ f[n] \in Nat /\ f[n + (k - 1)] \in Nat
        <4>1. k - 1 \in 0 .. N - n + 1 /\ n \in 0 .. N /\ n + (k - 1) \in 0 .. N BY <1>1, <3>3
        <4> QED BY <1>5, <4>1 DEF Sums
      <3>10. g[k] + f[n] = f[n + k] BY <3>4, <3>5, <3>6, <3>7, <3>8, <3>9
      <3> QED BY <3>1, <3>10
    <2> QED BY <2>1, <2>2
  <1>8. g[N - n + 1] = g[N - n] + r.bytes
    <2>1. N - n + 1 \in 1 .. N - n + 1 /\ (N - n + 1) - 1 = N - n BY <1>1
    <2>2. g[N - n + 1] = g[(N - n + 1) - 1] + w[N - n + 1] BY <1>5, <2>1 DEF Sums
    <2>3. w[N - n + 1] = r.bytes BY <1>2, <1>4, <2>1
    <2> QED BY <2>1, <2>2, <2>3
  <1>9. g[N - n] \in Nat /\ f[n] \in Nat /\ f[N] \in Nat /\ r.bytes \in Nat
    <2>1. N - n \in 0 .. N - n + 1 /\ n \in 0 .. N /\ N \in 0 .. N BY <1>1
    <2> QED BY <1>5, <2>1 DEF Sums, LogRecord
  <1>10. Total(rest) + f[n] = Total(records) + r.bytes BY <1>6, <1>7, <1>8, <1>9
  <1> QED BY <1>10 DEF rest, f, v, N

LogTypeOK ==
  /\ log \in [records : Seq(LogRecord), bytes : Nat, next : Nat, truncated : BOOLEAN]
  /\ poller \in [cursor : Nat, whole : SUBSET Nat, warned : BOOLEAN]
  /\ poller.cursor < log.next

(* The cursors of the records run up to the next one; only the first       *)
(* record can have lost its beginning, and what is gone was noted.         *)
Numbered(l) ==
  LET N == Len(l.records)
  IN /\ N < l.next /\ (N = 0 => l.next = 1)
     /\ \A i \in 1 .. N : l.records[i].cursor + N + 1 = l.next + i /\ (l.records[i].cut => i = 1 /\ l.truncated)
     /\ ~l.truncated => l.next = N + 1

LogInv == LogTypeOK /\ Numbered(log) /\ LogBounded /\ NoSilentLogLoss

LEMMA RoomIs ==
  ASSUME NEW l, Len(l.records) \in Nat, NEW size
  PROVE  /\ MakeRoom(l, size) \in 0 .. Len(l.records)
         /\ size > MaxLogBytes => MakeRoom(l, size) = Len(l.records)
         /\ ~(size > MaxLogBytes) => Fits(l, MakeRoom(l, size), size)
  <1> DEFINE N == Len(l.records)
             S == {n \in 0 .. N : Fits(l, n, size)}
             Is(n) == Fits(l, n, size) /\ \A k \in 0 .. (n - 1) : ~Fits(l, k, size)
             m == CHOOSE n \in 0 .. N : Is(n)
  <1>1. N \in S BY DEF Fits
  <1>2. S \in SUBSET Nat OBVIOUS
  <1>3. PICK n \in S : \A k \in S : n <= k
    <2> HIDE DEF S
    <2> QED BY <1>1, <1>2, FirstOf
  <1>4. n \in 0 .. N /\ Is(n)
    <2>1. n \in 0 .. N /\ Fits(l, n, size) OBVIOUS
    <2>2. ASSUME NEW k \in 0 .. (n - 1) PROVE ~Fits(l, k, size)
      <3>1. k \in 0 .. N /\ ~(n <= k) OBVIOUS
      <3> QED BY <1>3, <3>1
    <2> QED BY <2>1, <2>2
  <1> HIDE DEF Is
  <1>5. m \in 0 .. N /\ Is(m) BY <1>4
  <1> HIDE DEF m
  <1>6. Fits(l, m, size) BY <1>5 DEF Is
  <1>7. MakeRoom(l, size) = IF size > MaxLogBytes THEN N ELSE m BY DEF MakeRoom, m, Is
  <1> HIDE DEF N
  <1>8. N \in 0 .. N BY DEF N
  <1> QED BY <1>5, <1>6, <1>7, <1>8 DEF N

LEMMA RestIs ==
  ASSUME NEW records \in Seq(LogRecord), NEW n \in 0 .. Len(records), NEW r \in LogRecord
  PROVE  LET rest == Append(SubSeq(records, n + 1, Len(records)), r)
         IN /\ rest \in Seq(LogRecord) /\ Len(rest) = (Len(records) - n) + 1
            /\ \A i \in 1 .. Len(records) - n : rest[i] = records[n + i]
            /\ rest[(Len(records) - n) + 1] = r
  OBVIOUS

LEMMA PushKeeps ==
  ASSUME LogInv, NEW size \in 1 .. MaxChunkBytes, log' = Pushed(log, size), UNCHANGED poller
  PROVE  LogInv'
  <1> DEFINE records == log.records
             N == Len(records)
             n == MakeRoom(log, size)
             kept == IF size > MaxLogBytes THEN MaxLogBytes ELSE size
             r == [cursor |-> log.next, bytes |-> kept, cut |-> kept < size]
             rest == Append(SubSeq(records, n + 1, N), r)
             gone == Upto(BytesOf(records))[n]
  <1>1. /\ log' = [records |-> rest, bytes |-> (log.bytes - gone) + kept, next |-> log.next + 1,
                   truncated |-> log.truncated \/ n > 0 \/ size > MaxLogBytes]
    BY DEF Pushed
  <1>2. records \in Seq(LogRecord) /\ N \in Nat /\ log.bytes \in Nat /\ log.next \in Nat /\ log.truncated \in BOOLEAN
    BY DEF LogInv, LogTypeOK
  <1>3. MaxLogBytes \in Nat /\ MaxLogRecords \in Nat /\ MaxLogRecords > 0 /\ size \in Nat BY LogAssumption
  <1>4. n \in 0 .. N /\ (size > MaxLogBytes => n = N) /\ (size <= MaxLogBytes => Fits(log, n, size))
    BY <1>2, <1>3, RoomIs
  <1>5. kept \in Nat /\ kept <= MaxLogBytes /\ kept <= size /\ (kept < size <=> size > MaxLogBytes) BY <1>3
  <1>6. r \in LogRecord BY <1>2, <1>5 DEF LogRecord
  <1>7. BytesOf(records) \in Seq(Nat) /\ Len(BytesOf(records)) = N BY <1>2, BytesAre
  <1>8. gone <= Total(records) /\ gone \in Nat /\ Total(records) \in Nat /\ (n = N => gone = Total(records))
    <2>1. n \in 0 .. Len(BytesOf(records)) /\ N \in 0 .. Len(BytesOf(records)) /\ n <= N BY <1>2, <1>4, <1>7
    <2> HIDE DEF n
    <2> QED BY <1>7, <2>1, SumsGrow DEF Total
  <1>9. Fits(log, n, size) => n = N \/ (log.bytes + size <= MaxLogBytes + gone /\ N < MaxLogRecords + n)
    BY DEF Fits
  <1>10. /\ rest \in Seq(LogRecord) /\ Len(rest) = (N - n) + 1
         /\ \A i \in 1 .. N - n : rest[i] = records[n + i]
         /\ rest[(N - n) + 1] = r
    <2> HIDE DEF n, r, records
    <2> QED BY <1>2, <1>4, <1>6, RestIs
  <1>11. r.cursor = log.next /\ r.bytes = kept /\ r.cut = (kept < size) OBVIOUS
  <1>12. Total(rest) + gone = Total(records) + kept
    <2> HIDE DEF n, r, records, kept
    <2> QED BY <1>2, <1>4, <1>6, <1>11, TotalAfter
  <1>13. log.bytes = Total(records) BY DEF LogInv, LogBounded
  <1> HIDE DEF records, n, r, kept, gone, rest, N
  <1>14. /\ log'.records = rest /\ log'.bytes = (log.bytes - gone) + kept /\ log'.next = log.next + 1
         /\ log'.truncated = (log.truncated \/ n > 0 \/ size > MaxLogBytes)
    BY <1>1
  <1>15. log'.bytes = Total(rest) /\ log'.bytes \in Nat /\ log'.bytes <= MaxLogBytes /\ Len(rest) <= MaxLogRecords
    <2>1. n = N \/ (log.bytes + size <= MaxLogBytes + gone /\ N < MaxLogRecords + n) BY <1>3, <1>4, <1>9
    <2>2. log'.bytes + gone = Total(records) + kept BY <1>2, <1>5, <1>8, <1>13, <1>14
    <2>3. Total(rest) = (Total(records) + kept) - gone
      <3>1. Total(rest) \in Nat
        <4>1. BytesOf(rest) \in Seq(Nat) /\ Len(BytesOf(rest)) = Len(rest) BY <1>10, BytesAre
        <4>2. Len(rest) \in 0 .. Len(BytesOf(rest)) BY <1>2, <1>4, <1>10, <4>1
        <4> QED BY <4>1, <4>2, SumsGrow DEF Total
      <3> QED BY <1>5, <1>8, <1>12, <3>1
    <2>4. log'.bytes = Total(rest) /\ log'.bytes \in Nat BY <1>5, <1>8, <1>13, <1>14, <2>3
    <2>5. log'.bytes <= MaxLogBytes
      <3>1. CASE n = N BY <1>3, <1>5, <1>8, <1>13, <1>14, <3>1
      <3>2. CASE n # N BY <1>2, <1>3, <1>5, <1>8, <1>14, <2>1, <3>2
      <3> QED BY <3>1, <3>2
    <2>6. Len(rest) <= MaxLogRecords BY <1>2, <1>3, <1>4, <1>10, <2>1
    <2> QED BY <2>4, <2>5, <2>6
  <1>16. LogTypeOK'
    <2>1. log' \in [records : Seq(LogRecord), bytes : Nat, next : Nat, truncated : BOOLEAN]
      BY <1>1, <1>2, <1>10, <1>14, <1>15
    <2>2. poller' = poller /\ poller.cursor < log.next /\ poller.cursor \in Nat BY DEF LogInv, LogTypeOK
    <2>3. poller'.cursor < log'.next BY <1>2, <1>14, <2>2
    <2> QED BY <2>1, <2>2, <2>3 DEF LogInv, LogTypeOK
  <1>17. Numbered(log')
    <2>1. /\ N < log.next /\ (N = 0 => log.next = 1)
          /\ \A i \in 1 .. N : records[i].cursor + N + 1 = log.next + i /\ (records[i].cut => i = 1 /\ log.truncated)
          /\ ~log.truncated => log.next = N + 1
      BY DEF LogInv, Numbered, records, N
    <2>0. (log.truncated => log'.truncated) /\ (n > 0 => log'.truncated) /\ (size > MaxLogBytes => log'.truncated) BY <1>14
    <2>2. Len(rest) < log'.next /\ Len(rest) # 0 /\ (~log'.truncated => log'.next = Len(rest) + 1)
      <3>1. Len(rest) = (N - n) + 1 /\ log'.next = log.next + 1 BY <1>10, <1>14
      <3>2. ~log'.truncated => n = 0 /\ log.next = N + 1 BY <1>2, <1>4, <2>0, <2>1
      <3> QED BY <1>2, <1>4, <2>1, <3>1, <3>2
    <2>3. ASSUME NEW i \in 1 .. Len(rest)
          PROVE  rest[i].cursor + Len(rest) + 1 = log'.next + i /\ (rest[i].cut => i = 1 /\ log'.truncated)
      <3>1. CASE i = (N - n) + 1
        <4>1. rest[i].cursor = log.next /\ rest[i].cut = (kept < size) BY <1>10, <1>11, <3>1
        <4>2. kept < size => n = N /\ log'.truncated BY <1>4, <1>5, <2>0
        <4>3. Len(rest) = (N - n) + 1 /\ log'.next = log.next + 1 BY <1>10, <1>14
        <4>4. rest[i].cursor + Len(rest) + 1 = log'.next + i BY <1>2, <1>4, <3>1, <4>1, <4>3
        <4>5. rest[i].cut => i = 1 /\ log'.truncated
          <5>1. rest[i].cut => n = N /\ log'.truncated BY <4>1, <4>2
          <5>2. n = N => i = 1 BY <1>2, <3>1
          <5> QED BY <5>1, <5>2
        <4> QED BY <4>4, <4>5
      <3>2. CASE i # (N - n) + 1
        <4>1. i \in 1 .. N - n /\ n + i \in 1 .. N BY <1>2, <1>4, <1>10, <3>2
        <4>2. rest[i] = records[n + i] BY <1>10, <4>1
        <4>3. /\ records[n + i].cursor + N + 1 = log.next + (n + i)
              /\ records[n + i].cut => n + i = 1 /\ log.truncated
          BY <2>1, <4>1
        <4>4. records[n + i].cursor \in Nat
          <5>1. records[n + i] \in LogRecord BY <1>2, <4>1 DEF N
          <5> QED BY <5>1 DEF LogRecord
        <4>5. Len(rest) = (N - n) + 1 /\ log'.next = log.next + 1 BY <1>10, <1>14
        <4>6. rest[i].cursor + Len(rest) + 1 = log'.next + i
          <5>1. rest[i].cursor = records[n + i].cursor /\ rest[i].cursor \in Nat BY <4>2, <4>4
          <5>2. rest[i].cursor + N + 1 = log.next + (n + i) BY <4>3, <5>1
          <5>3. n \in Nat /\ i \in Nat BY <1>4, <4>1
          <5>4. rest[i].cursor + ((N - n) + 1) + 1 = (log.next + 1) + i
            <6> HIDE DEF LogInv
            <6> DEFINE a == rest[i].cursor
                       b == log.next
            <6>1. a \in Nat /\ b \in Nat /\ N \in Nat /\ a + N + 1 = b + (n + i) BY <1>2, <5>1, <5>2
            <6> HIDE DEF a, b
            <6>2. a + ((N - n) + 1) + 1 = (b + 1) + i BY <5>3, <6>1
            <6> QED BY <6>2 DEF a, b
          <5> QED BY <4>5, <5>4
        <4>7. rest[i].cut => i = 1 /\ log'.truncated
          <5>1. rest[i].cut => n + i = 1 /\ log.truncated BY <4>2, <4>3
          <5>2. n + i = 1 => i = 1 BY <1>4, <4>1
          <5> QED BY <2>0, <5>1, <5>2
        <4> QED BY <4>6, <4>7
      <3> QED BY <3>1, <3>2
    <2> QED BY <1>14, <2>2, <2>3 DEF Numbered
  <1>18. LogBounded' BY <1>14, <1>15 DEF LogBounded
  <1>19. NoSilentLogLoss' BY DEF LogInv, NoSilentLogLoss
  <1> QED BY <1>16, <1>17, <1>18, <1>19 DEF LogInv

LEMMA ReadKeeps ==
  ASSUME LogInv, NEW max \in Nat, ReadOutput(max)
  PROVE  LogInv'
  <1> DEFINE records == log.records
             N == Len(records)
             after == poller.cursor
             rows == Upto(Rows(records, after))
             dropped == log.truncated /\ records # <<>> /\ after < records[1].cursor
             over == {n \in DOMAIN records : rows[n] > max}
             shown == IF over = {} THEN N ELSE Min(over) - 1
             part == over # {} /\ rows[shown] < max
             last == IF part THEN shown + 1 ELSE shown
             whole == {records[i].cursor : i \in {j \in 1 .. shown : records[j].cursor > after /\ ~records[j].cut}}
  <1>1. /\ poller' = [cursor |-> CursorAt(records, last, after), whole |-> poller.whole \cup whole,
                      warned |-> poller.warned \/ (dropped \/ over # {})]
        /\ log' = log
    BY DEF ReadOutput, ReadLog
  <1>2. /\ records \in Seq(LogRecord) /\ N \in Nat /\ DOMAIN records = 1 .. N /\ log.next \in Nat /\ log.truncated \in BOOLEAN
        /\ after \in Nat /\ after < log.next /\ poller.whole \in SUBSET Nat /\ poller.warned \in BOOLEAN
    BY DEF LogInv, LogTypeOK
  <1>3. \A i \in 1 .. N : records[i] \in LogRecord /\ records[i].cursor \in Nat /\ records[i].cut \in BOOLEAN
    <2> SUFFICES ASSUME NEW i \in 1 .. N PROVE records[i] \in LogRecord /\ records[i].cursor \in Nat /\ records[i].cut \in BOOLEAN
      OBVIOUS
    <2>1. records[i] \in LogRecord BY <1>2
    <2> QED BY <2>1 DEF LogRecord
  <1>4. /\ N < log.next /\ (N = 0 => log.next = 1)
        /\ \A i \in 1 .. N : records[i].cursor + N + 1 = log.next + i /\ (records[i].cut => i = 1 /\ log.truncated)
        /\ ~log.truncated => log.next = N + 1
    BY DEF LogInv, Numbered
  <1>5. over \subseteq 1 .. N BY <1>2
  <1> HIDE DEF records, N, rows, over
  <1>6. over # {} => Min(over) \in over
    <2> SUFFICES ASSUME over # {} PROVE Min(over) \in over OBVIOUS
    <2>1. over \in SUBSET Nat BY <1>2, <1>5
    <2>2. \E x \in over : \A y \in over : x <= y BY <2>1, FirstOf
    <2> QED BY <2>2 DEF Min
  <1>7. shown \in 0 .. N /\ last \in 0 .. N /\ (over = {} => shown = N /\ last = N)
    <2>1. CASE over = {} BY <1>2, <2>1
    <2>2. CASE over # {}
      <3>1. Min(over) \in 1 .. N BY <1>5, <1>6, <2>2
      <3>2. shown = Min(over) - 1 BY <2>2
      <3> HIDE DEF shown
      <3>3. shown \in 0 .. N /\ shown + 1 \in 0 .. N BY <1>2, <3>1, <3>2
      <3>4. last = shown \/ last = shown + 1 OBVIOUS
      <3> QED BY <2>2, <3>3, <3>4
    <2> QED BY <2>1, <2>2
  <1>8. dropped \in BOOLEAN BY <1>2
  <1> HIDE DEF shown, last, part, dropped
  <1>9. whole \subseteq Nat
    <2>1. \A i \in 1 .. shown : records[i].cursor \in Nat BY <1>2, <1>3, <1>7
    <2> QED BY <2>1
  <1>10. /\ poller'.cursor = CursorAt(records, last, after) /\ poller'.whole = poller.whole \cup whole
         /\ poller'.warned = (poller.warned \/ (dropped \/ over # {}))
    BY <1>1
  <1> HIDE DEF whole, after
  <1>11. poller'.cursor \in Nat /\ poller'.cursor < log.next
    <2>1. CASE last > 0 /\ records[last].cursor > after
      <3>1. last \in 1 .. N BY <1>7, <2>1
      <3>2. poller'.cursor = records[last].cursor BY <1>10, <2>1 DEF CursorAt
      <3>3. records[last].cursor \in Nat /\ records[last].cursor + N + 1 = log.next + last BY <1>3, <1>4, <3>1
      <3> QED BY <1>2, <3>1, <3>2, <3>3
    <2>2. CASE ~(last > 0 /\ records[last].cursor > after)
      <3>1. poller'.cursor = after BY <1>10, <2>2 DEF CursorAt
      <3> QED BY <1>2, <3>1
    <2> QED BY <2>1, <2>2
  <1>12. LogTypeOK'
    <2>1. poller' \in [cursor : Nat, whole : SUBSET Nat, warned : BOOLEAN]
      <3>1. poller'.warned \in BOOLEAN BY <1>2, <1>8, <1>10
      <3>2. poller'.whole \in SUBSET Nat BY <1>2, <1>9, <1>10
      <3> QED BY <1>1, <1>11, <3>1, <3>2
    <2> QED BY <1>1, <1>11, <2>1 DEF LogInv, LogTypeOK
  <1>13. NoSilentLogLoss'
    <2> SUFFICES ASSUME ~poller'.warned, NEW c \in 1 .. poller'.cursor PROVE c \in poller'.whole
      BY DEF NoSilentLogLoss
    <2>1. ~poller.warned /\ ~dropped /\ over = {} BY <1>10
    <2>2. 1 .. after \subseteq poller.whole BY <2>1 DEF LogInv, NoSilentLogLoss, after
    <2>3. CASE c <= after BY <1>2, <1>10, <2>2, <2>3
    <2>4. CASE c > after
      <3>1. shown = N /\ last = N BY <1>7, <2>1
      <3>2. N # 0 BY <1>2, <1>4, <1>11, <2>4
      <3> DEFINE i == (c + N + 1) - log.next
      <3>3. records[1].cursor + N = log.next /\ records[1].cursor \in Nat
        <4>1. 1 \in 1 .. N BY <1>2, <3>2
        <4>2. records[1].cursor \in Nat /\ records[1].cursor + N + 1 = log.next + 1 BY <1>3, <1>4, <4>1
        <4> DEFINE first == records[1].cursor
                   next == log.next
        <4>3. first \in Nat /\ next \in Nat /\ first + N + 1 = next + 1 BY <1>2, <4>2
        <4> HIDE DEF first, next
        <4>4. first + N = next BY <1>2, <4>3
        <4> QED BY <4>3, <4>4 DEF first, next
      <3>4. log.truncated => records[1].cursor <= after
        <4>1. records # <<>> BY <1>2, <3>2 DEF N
        <4> QED BY <1>2, <2>1, <3>3, <4>1 DEF dropped
      <3>5. ~log.truncated => records[1].cursor = 1 BY <1>2, <1>4, <3>3
      <3>6. i \in 1 .. N /\ (log.truncated => i # 1)
        <4>1. c \in Nat /\ c < log.next BY <1>2, <1>11
        <4>2. records[1].cursor <= c /\ (log.truncated => records[1].cursor < c) BY <1>2, <2>4, <3>3, <3>4, <3>5, <4>1
        <4> DEFINE first == records[1].cursor
                   next == log.next
        <4>3. i = (c + 1) - first
          <5>1. first \in Nat /\ next \in Nat /\ first + N = next /\ N \in Nat /\ c \in Nat /\ i = (c + N + 1) - next
            BY <1>2, <3>3, <4>1
          <5> HIDE DEF i, N, first, next
          <5> QED BY <5>1
        <4> QED BY <1>2, <3>3, <4>1, <4>2, <4>3
      <3> HIDE DEF i
      <3>7. records[i].cursor = c
        <4>1. records[i].cursor + N + 1 = log.next + i /\ records[i].cursor \in Nat BY <1>3, <1>4, <3>6
        <4> QED BY <1>2, <1>11, <4>1 DEF i
      <3>8. ~records[i].cut BY <1>4, <3>6
      <3>9. i \in {j \in 1 .. shown : records[j].cursor > after /\ ~records[j].cut} BY <2>4, <3>1, <3>6, <3>7, <3>8
      <3>10. records[i].cursor \in whole BY <3>9 DEF whole
      <3> QED BY <1>10, <3>7, <3>10
    <2> QED BY <1>2, <1>11, <2>3, <2>4
  <1>14. Numbered(log') /\ LogBounded' BY <1>1 DEF LogInv, Numbered, LogBounded
  <1> QED BY <1>12, <1>13, <1>14 DEF LogInv

LEMMA LogStarts == LogInit => LogInv
  <1> SUFFICES ASSUME LogInit PROVE LogInv OBVIOUS
  <1>1. log = [records |-> <<>>, bytes |-> 0, next |-> 1, truncated |-> FALSE]
        /\ poller = [cursor |-> 0, whole |-> {}, warned |-> FALSE]
    BY DEF LogInit
  <1>2. log.records = <<>> /\ log.bytes = 0 /\ log.next = 1 /\ log.truncated = FALSE /\ poller.cursor = 0 BY <1>1
  <1>3. LogTypeOK BY <1>1, <1>2 DEF LogTypeOK
  <1>4. Numbered(log) BY <1>2 DEF Numbered
  <1>5. LogBounded
    <2>1. <<>> \in Seq(LogRecord) /\ Len(<<>>) = 0 OBVIOUS
    <2>2. BytesOf(<<>>) \in Seq(Nat) /\ Len(BytesOf(<<>>)) = 0 BY <2>1, BytesAre
    <2>3. Total(<<>>) = 0 BY <2>1, <2>2, UptoIs DEF Total, Sums
    <2> QED BY <1>2, <2>1, <2>3, LogAssumption DEF LogBounded
  <1>6. NoSilentLogLoss BY <1>2 DEF NoSilentLogLoss
  <1> QED BY <1>3, <1>4, <1>5, <1>6 DEF LogInv

(* The log of a background process keeps both its limits and counts the    *)
(* bytes it holds; and a client that polls it with the cursor it was given *)
(* has every chunk in full or was told that something is missing, for any  *)
(* chunks, limits and sizes of the reads.                                  *)
THEOREM LogHonest == LogSpec => []LogIsHonest
  <1>1. LogInit => LogInv BY LogStarts
  <1>2. LogInv /\ [LogNext]_logVars => LogInv'
    <2> SUFFICES ASSUME LogInv, [LogNext]_logVars PROVE LogInv' OBVIOUS
    <2>1. CASE \E size \in 1 .. MaxChunkBytes : ReadBackgroundPipe(size)
      BY <2>1, PushKeeps DEF ReadBackgroundPipe
    <2>2. CASE \E max \in 1 .. (MaxLogBytes + MaxLogRecords) : ReadOutput(max)
      <3>1. PICK max \in 1 .. (MaxLogBytes + MaxLogRecords) : ReadOutput(max) BY <2>2
      <3>2. max \in Nat BY LogAssumption
      <3> QED BY <3>1, <3>2, ReadKeeps
    <2>3. CASE UNCHANGED logVars
      BY <2>3 DEF logVars, LogInv, LogTypeOK, Numbered, LogBounded, NoSilentLogLoss
    <2> QED BY <2>1, <2>2, <2>3 DEF LogNext
  <1>3. LogInv => LogIsHonest BY DEF LogInv, LogIsHonest
  <1> QED BY <1>1, <1>2, <1>3, PTL DEF LogSpec
=============================================================================
