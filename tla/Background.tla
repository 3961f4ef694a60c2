----------------------------- MODULE Background -----------------------------
(***************************************************************************)
(* The manager of background processes: start, stop, the monitor thread of *)
(* each process, the status it reports, and the end of the manager.  A     *)
(* stop, a cancelled run, a time-out and the end of the manager all kill;  *)
(* the monitor alone, or the end of the manager, records how it ended.     *)
(***************************************************************************)
EXTENDS Naturals, FiniteSets

CONSTANTS MaxStarts,    \* processes started over time
          MaxActive,    \* MAX_BACKGROUND_PROCESSES
          MaxRecords    \* MAX_BACKGROUND_RECORDS

ASSUME RecordsExceedActive == MaxStarts \in Nat /\ MaxActive \in Nat /\ MaxRecords \in Nat /\ MaxActive < MaxRecords

VARIABLES bgChild,     \* handle -> "none", "alive", "zero", "failed" or "killed"
          status,     \* handle -> "none" (no record), "running", "exited", "failed" or "stopped"
          asked,       \* handle -> stop_requested
          interrupt,   \* handle -> its run is cancelled or its time is over
          monitor,     \* handle -> "none", "watch", "killing", "record" (status known) or "gone"
          stopper,     \* handle -> a stop call: "none", "checked", "asked" or "returned"
          manager,     \* "up", "dropping" or "down"
          visit,       \* handle -> where drop is with it: "none", "running" (so it was read), "asked", "killed" or "done"
          reported     \* handle -> a final status was given to the status sink

bgVars == <<bgChild, status, asked, interrupt, monitor, stopper, manager, visit, reported>>

\* Handles are numbered in the order of their start.
Handles == 1..MaxStarts
FinalStatuses == {"exited", "failed", "stopped"}
Records == {h \in Handles : status[h] # "none"}
Running(h) == status[h] = "running"

BgInit ==
    /\ bgChild = [h \in Handles |-> "none"] /\ status = [h \in Handles |-> "none"]
    /\ asked = [h \in Handles |-> FALSE] /\ interrupt = [h \in Handles |-> FALSE]
    /\ monitor = [h \in Handles |-> "none"] /\ stopper = [h \in Handles |-> "none"]
    /\ manager = "up" /\ visit = [h \in Handles |-> "none"] /\ reported = [h \in Handles |-> FALSE]

(***************************************************************************)
(* start.  The lock on the table is held from the count to the insertion.  *)
(***************************************************************************)
ActiveBelowLimit == Cardinality({h \in Handles : Running(h)}) < MaxActive

\* The oldest finished record makes room for the new one.
Evicted ==
    IF Cardinality(Records) < MaxRecords THEN {}
    ELSE LET finished == {h \in Records : ~Running(h)}
         IN {h \in finished : \A k \in finished : h <= k}

\* threads is FALSE when a reader or monitor thread cannot be created: the child
\* is killed, an error returned, the record kept as it is.
Start(h, threads) ==
    /\ manager = "up" /\ bgChild[h] = "none" /\ (\A k \in 1..(h - 1) : bgChild[k] # "none") /\ ActiveBelowLimit
    /\ bgChild' = [bgChild EXCEPT ![h] = IF threads THEN "alive" ELSE "killed"]
    /\ status' = [k \in Handles |-> IF k = h THEN "running" ELSE IF k \in Evicted THEN "none" ELSE status[k]]
    /\ monitor' = [monitor EXCEPT ![h] = IF threads THEN "watch" ELSE "none"]
    /\ UNCHANGED <<asked, interrupt, stopper, manager, visit, reported>>

ProcessExits(h, code) ==
    /\ bgChild[h] = "alive"
    /\ bgChild' = [bgChild EXCEPT ![h] = code]
    /\ UNCHANGED <<status, asked, interrupt, monitor, stopper, manager, visit, reported>>

\* terminate_process_tree
Killed(h) == IF bgChild[h] = "alive" THEN "killed" ELSE bgChild[h]

(***************************************************************************)
(* The monitor thread.  It outlives the record and the manager.            *)
(***************************************************************************)
\* The token and the clock are read first, the child is looked at last.
MonitorChecks(h) ==
    /\ monitor[h] = "watch"
    /\ \/ /\ interrupt[h]
          /\ asked' = [asked EXCEPT ![h] = TRUE] /\ monitor' = [monitor EXCEPT ![h] = "killing"]
       \/ /\ ~interrupt[h] /\ bgChild[h] # "alive"
          /\ monitor' = [monitor EXCEPT ![h] = "record"] /\ UNCHANGED asked
    /\ UNCHANGED <<bgChild, status, interrupt, stopper, manager, visit, reported>>

MonitorKills(h) ==
    /\ monitor[h] = "killing"
    /\ bgChild' = [bgChild EXCEPT ![h] = Killed(h)]
    /\ monitor' = [monitor EXCEPT ![h] = "record"]
    /\ UNCHANGED <<status, asked, interrupt, stopper, manager, visit, reported>>

FinalStatus(h) == IF asked[h] THEN "stopped" ELSE IF bgChild[h] = "zero" THEN "exited" ELSE "failed"

\* An evicted record is no longer in the table; its process object is.
Recorded(h, s) == IF status[h] = "none" THEN "none" ELSE s

\* Mutant: the sink not told.
MonitorRecordsSilently(h) ==
    /\ monitor[h] = "record"
    /\ status' = [status EXCEPT ![h] = Recorded(h, FinalStatus(h))]
    /\ monitor' = [monitor EXCEPT ![h] = "gone"]
    /\ UNCHANGED <<bgChild, asked, interrupt, stopper, manager, visit, reported>>
MonitorRecords(h) ==
    /\ monitor[h] = "record"
    /\ status' = [status EXCEPT ![h] = Recorded(h, FinalStatus(h))]
    /\ reported' = [reported EXCEPT ![h] = TRUE]
    /\ monitor' = [monitor EXCEPT ![h] = "gone"]
    /\ UNCHANGED <<bgChild, asked, interrupt, stopper, manager, visit>>

Interrupt(h) ==
    /\ monitor[h] = "watch" /\ ~interrupt[h]
    /\ interrupt' = [interrupt EXCEPT ![h] = TRUE]
    /\ UNCHANGED <<bgChild, status, asked, monitor, stopper, manager, visit, reported>>

(***************************************************************************)
(* stop.  It then waits two seconds and returns what there is.              *)
(***************************************************************************)
StopChecks(h) ==
    /\ manager = "up" /\ stopper[h] = "none" /\ status[h] # "none"
    /\ stopper' = [stopper EXCEPT ![h] = IF Running(h) THEN "checked" ELSE "returned"]
    /\ UNCHANGED <<bgChild, status, asked, interrupt, monitor, manager, visit, reported>>

\* Mutant: the process killed before the request is noted.
StopKillsFirst(h) ==
    /\ \/ /\ stopper[h] = "checked" /\ stopper' = [stopper EXCEPT ![h] = "asked"]
          /\ bgChild' = [bgChild EXCEPT ![h] = Killed(h)] /\ UNCHANGED asked
       \/ /\ stopper[h] = "asked" /\ stopper' = [stopper EXCEPT ![h] = "returned"]
          /\ asked' = [asked EXCEPT ![h] = TRUE] /\ UNCHANGED bgChild
    /\ UNCHANGED <<status, interrupt, monitor, manager, visit, reported>>

StopKills(h) ==
    /\ \/ /\ stopper[h] = "checked" /\ stopper' = [stopper EXCEPT ![h] = "asked"]
          /\ asked' = [asked EXCEPT ![h] = TRUE] /\ UNCHANGED bgChild
       \/ /\ stopper[h] = "asked" /\ stopper' = [stopper EXCEPT ![h] = "returned"]
          /\ bgChild' = [bgChild EXCEPT ![h] = Killed(h)] /\ UNCHANGED asked
    /\ UNCHANGED <<status, interrupt, monitor, manager, visit, reported>>

(***************************************************************************)
(* Dropping the manager, when no call is using it any more: one record     *)
(* after the other, the monitors still running.                            *)
(***************************************************************************)
DropManager ==
    /\ manager = "up" /\ \A h \in Handles : stopper[h] \in {"none", "returned"}
    /\ manager' = "dropping"
    /\ UNCHANGED <<bgChild, status, asked, interrupt, monitor, stopper, visit, reported>>

DropLooks(h) ==
    /\ manager = "dropping" /\ status[h] # "none" /\ visit[h] = "none" /\ \A k \in Handles : visit[k] \in {"none", "done"}
    /\ visit' = [visit EXCEPT ![h] = IF Running(h) THEN "running" ELSE "done"]
    /\ UNCHANGED <<bgChild, status, asked, interrupt, monitor, stopper, manager, reported>>

DropStops(h) ==
    /\ \/ /\ visit[h] = "running" /\ visit' = [visit EXCEPT ![h] = "asked"]
          /\ asked' = [asked EXCEPT ![h] = TRUE] /\ UNCHANGED bgChild
       \/ /\ visit[h] = "asked" /\ visit' = [visit EXCEPT ![h] = "killed"]
          /\ bgChild' = [bgChild EXCEPT ![h] = Killed(h)] /\ UNCHANGED asked
    /\ UNCHANGED <<status, interrupt, monitor, stopper, manager, reported>>

\* The lock on the child is held from the wait on, so the monitor cannot look in
\* between; it may have looked before, and have recorded.
DropRecords(h) ==
    /\ visit[h] = "killed" /\ visit' = [visit EXCEPT ![h] = "done"]
    /\ status' = [status EXCEPT ![h] = "stopped"]
    /\ reported' = [reported EXCEPT ![h] = TRUE]
    /\ UNCHANGED <<bgChild, asked, interrupt, monitor, stopper, manager>>

DropEnds ==
    /\ manager = "dropping" /\ \A h \in Records : visit[h] = "done"
    /\ manager' = "down"
    /\ UNCHANGED <<bgChild, status, asked, interrupt, monitor, stopper, visit, reported>>

Drop(h) == DropLooks(h) \/ DropStops(h) \/ DropRecords(h)
Monitor(h) == MonitorChecks(h) \/ MonitorKills(h) \/ MonitorRecords(h)
BgNext == \/ \E h \in Handles : \/ \E threads \in BOOLEAN : Start(h, threads)
                                \/ \E code \in {"zero", "failed"} : ProcessExits(h, code)
                                \/ Monitor(h) \/ Interrupt(h) \/ StopChecks(h) \/ StopKills(h) \/ Drop(h)
          \/ DropManager \/ DropEnds
BgSpec == BgInit /\ [][BgNext]_bgVars

\* Threads run; a process may live for ever and nobody has to stop it.
BgFairness == /\ \A h \in Handles : WF_bgVars(Monitor(h)) /\ WF_bgVars(StopKills(h)) /\ WF_bgVars(Drop(h))
              /\ WF_bgVars(DropEnds)

(***************************************************************************)
(* Properties.                                                             *)
(***************************************************************************)
\* However starts, ends and evictions interleave, no more processes are alive
\* than the limit allows, and the table keeps to its own limit: a running
\* process is never evicted to make room.
ProcessesBounded ==
    /\ Cardinality({h \in Handles : bgChild[h] = "alive"}) <= MaxActive
    /\ Cardinality(Records) <= MaxRecords
    /\ \A h \in Handles : bgChild[h] = "alive" => status[h] = "running"

\* A process the manager killed is reported as stopped, never as a failure of
\* its own (stop_requested is stored before the kill and read after the exit).
KilledIsStopped ==
    \A h \in Handles : bgChild[h] = "killed" => status[h] \notin {"exited", "failed"}

\* A final status is final, although stop, the monitor and drop interleave, with
\* one exception: drop read "running", the process then ended by itself and the
\* monitor recorded that, and drop records and reports "stopped" over it.
OverwrittenByDrop(h) == visit[h] = "killed" /\ status'[h] = "stopped"
StatusIsFinal ==
    [][\A h \in Handles : status[h] \in FinalStatuses => status'[h] \in {status[h], "none"} \/ OverwrittenByDrop(h)]_bgVars

\* Nothing outlives the manager: "dropping the manager terminates live trees".
NothingOutlivesManager == manager = "down" => \A h \in Handles : bgChild[h] # "alive"

\* The end of a watched process becomes known, and so does a request to stop.
EndIsReported ==
    \A h \in Handles : (monitor[h] # "none" /\ (bgChild[h] \in {"zero", "failed", "killed"} \/ interrupt[h] \/ stopper[h] = "checked"))
                          ~> (monitor[h] = "gone" /\ reported[h])

\* The table of background processes keeps its limits, its statuses say how a
\* process ended and change again only as said above, and no process outlives it
\* (start, stop, the monitor, drop).
TableIsSound == [](ProcessesBounded /\ KilledIsStopped /\ NothingOutlivesManager) /\ StatusIsFinal
=============================================================================
