---------------------------- MODULE StorageProofs ----------------------------
(***************************************************************************)
(* Proofs about what is kept on disk: the session log, for any number of   *)
(* events, crashes and failed writes, and the checkpoints and their undo,  *)
(* for any files, any undos at once and any number of runs and writes.     *)
(***************************************************************************)
EXTENDS SessionLog, Checkpoints, SequenceTheorems, WellFoundedInduction, TLAPS

-----------------------------------------------------------------------------
(***************************************************************************)
(* THE SESSION LOG.                                                        *)
(***************************************************************************)
(* The records of the file, by line and place in the line.                 *)
Places == {p \in (DOMAIN file) \X Nat : p[2] \in DOMAIN file[p[1]]}
EventOf(p) == file[p[1]][p[2]].event
(* No event of a run in the file is as new as x.                           *)
FileBelow(x) == \A p \in Places : EventOf(p).origin = "run" => EventOf(p).id < x

(* The holder of append_lock and the event it writes.                      *)
LockShape ==
  /\ stage = "idle" <=> holder = "none"
  /\ holder # "none" =>
       /\ file # <<>> /\ Len(writing) = 1
       /\ writing[1].origin = holder /\ writing[1].id <= created
       /\ writing[1].kind = "started" => acked = <<>>
  /\ file = <<>> => acked = <<>>

(* Only the last line may be blank, and only the last written line damaged.*)
(* While a record is awaited, nothing is damaged; between a record and its *)
(* newline, the last line ends with the record.                            *)
Whole(i) == Parses(file[i])
FileShape ==
  /\ \A i \in DOMAIN file : i < Len(file) => file[i] # <<>>
  /\ \A i \in DOMAIN file : i + 1 < Len(file) => Whole(i)
  /\ \A i \in DOMAIN file : i + 1 = Len(file) /\ file[Len(file)] # <<>> => Whole(i)
  /\ stage = "record" => \A i \in DOMAIN file : file[i] # <<>> => Whole(i)
  /\ stage = "newline" =>
       /\ file[Len(file)] # <<>>
       /\ file[Len(file)][Len(file[Len(file)])].event = writing[1]

(* An event whose append returned is in the file.                          *)
InFile(e) == \E p \in Places : EventOf(p) = e
AckedAreWritten == \A e \in Events : (\E i \in DOMAIN acked : acked[i] = e) => InFile(e)

(* What flush has taken and what is collected is newer than the event in   *)
(* writing, and both are newer than what the file has of a run.            *)
InWriting(e) == holder = "run" /\ writing[1] = e
InQueue(e) == \E i \in DOMAIN queue : queue[i] = e
InCollector(e) == \E i \in DOMAIN collector : collector[i] = e
Fresh(e) == e.origin = "run" /\ e.kind # "started" /\ e.id <= created /\ FileBelow(e.id)
Ascending(s) == \A i, j \in DOMAIN s : i < j => s[i].id < s[j].id
OrderKept ==
  /\ \A p, q \in Places : p[1] < q[1] /\ EventOf(p).origin = "run" /\ EventOf(q).origin = "run"
        => EventOf(p).id < EventOf(q).id
  /\ FileBelow(created + 1)
  /\ stage = "record" => \A e \in Events : InWriting(e) => FileBelow(e.id)
  /\ Ascending(queue) /\ Ascending(collector)
  /\ \A e \in Events : InQueue(e) \/ InCollector(e) => Fresh(e)
  /\ \A e, d \in Events : /\ InWriting(e) /\ (InQueue(d) \/ InCollector(d)) => e.id < d.id
                          /\ InQueue(e) /\ InCollector(d) => e.id < d.id
  /\ run \in {"none", "opening"} => queue = <<>> /\ collector = <<>>

LogInv == LogTypeOK /\ LockShape /\ FileShape /\ AckedAreWritten /\ OrderKept

-----------------------------------------------------------------------------
(* Typing lemmas.                                                          *)
Holds(w, s) == (holder = w) /\ (stage = s)

LEMMA AppendTyped ==
  ASSUME NEW S, NEW s \in Seq(S), NEW x \in S
  PROVE  /\ Append(s, x) \in Seq(S) /\ Len(Append(s, x)) = Len(s) + 1
         /\ Append(s, x)[Len(s) + 1] = x
         /\ \A i \in 1 .. Len(s) : Append(s, x)[i] = s[i]
  BY AppendProperties

LEMMA EventTyped ==
  ASSUME LogTypeOK, created < MaxEvents, NEW kind \in Kinds, NEW o \in Origins
  PROVE  /\ NewEvent(kind, o) \in Events /\ created + 1 \in 0 .. MaxEvents
         /\ NewEvent(kind, o).id = created + 1 /\ NewEvent(kind, o).kind = kind
         /\ NewEvent(kind, o).origin = o
  <1>1. created + 1 \in 0 .. MaxEvents /\ created + 1 \in 1 .. MaxEvents BY LogAssumption DEF LogTypeOK
  <1>2. NewEvent(kind, o) = [id |-> created + 1, kind |-> kind, origin |-> o] BY DEF NewEvent
  <1> QED BY <1>1, <1>2 DEF Events

LEMMA RecordTyped ==
  ASSUME NEW e \in Events, NEW b \in BOOLEAN
  PROVE  [event |-> e, whole |-> b] \in Records
  BY DEF Records

LEMMA One ==
  ASSUME NEW S, NEW x \in S
  PROVE  <<x>> \in Seq(S) /\ Len(<<x>>) = 1 /\ <<x>>[1] = x /\ <<x>> # <<>>
  OBVIOUS

LEMMA EmptyTyped == ASSUME NEW S PROVE <<>> \in Seq(S) /\ Len(<<>>) = 0
  BY EmptySeq

(* What the lock's holder writes.                                          *)
LEMMA WritingTyped ==
  ASSUME LogTypeOK, LockShape, holder # "none"
  PROVE  writing = <<writing[1]>> /\ writing[1] \in Events /\ file # <<>> /\ Len(file) \in DOMAIN file
  <1>1. Len(writing) = 1 /\ writing \in Seq(Events) /\ file # <<>> BY DEF LogTypeOK, LockShape
  <1>2. file \in Seq(Seq(Records)) BY DEF LogTypeOK
  <1> HIDE DEF Records
  <1>3. Len(file) \in DOMAIN file BY <1>1, <1>2, EmptySeq
  <1> HIDE DEF Events
  <1>4. writing = <<writing[1]>> /\ writing[1] \in Events BY <1>1
  <1> QED BY <1>1, <1>3, <1>4

(* The last line gets a record.                                            *)
LEMMA LineAdded ==
  ASSUME LogTypeOK, file # <<>>, NEW r \in Records, AddToLastLine(r)
  PROVE  /\ file' \in Seq(Seq(Records)) /\ Len(file') = Len(file) /\ file' # <<>>
         /\ DOMAIN file' = DOMAIN file
         /\ \A i \in DOMAIN file : i # Len(file) => file'[i] = file[i]
         /\ file'[Len(file)] = Append(file[Len(file)], r)
         /\ file'[Len(file)] # <<>>
         /\ Len(file'[Len(file)]) = Len(file[Len(file)]) + 1
         /\ file'[Len(file)][Len(file[Len(file)]) + 1] = r
         /\ \A i \in 1 .. Len(file[Len(file)]) : file'[Len(file)][i] = file[Len(file)][i]
         /\ file[Len(file)] \in Seq(Records)
  <1> DEFINE L == Len(file)
  <1>1. file \in Seq(Seq(Records)) BY DEF LogTypeOK
  <1> HIDE DEF Records
  <1>2. L \in DOMAIN file /\ DOMAIN file = 1 .. L /\ L \in Nat BY <1>1, EmptySeq
  <1>3. file[L] \in Seq(Records) BY <1>1, <1>2
  <1>4. Append(file[L], r) \in Seq(Records) /\ Len(Append(file[L], r)) = Len(file[L]) + 1
        /\ Append(file[L], r)[Len(file[L]) + 1] = r
        /\ \A i \in 1 .. Len(file[L]) : Append(file[L], r)[i] = file[L][i]
    BY <1>3, AppendTyped
  <1>5. file' = [file EXCEPT ![L] = Append(file[L], r)] BY DEF AddToLastLine
  <1>6. file' \in Seq(Seq(Records)) /\ Len(file') = L /\ DOMAIN file' = DOMAIN file
        /\ (\A i \in DOMAIN file : i # L => file'[i] = file[i]) /\ file'[L] = Append(file[L], r)
    BY <1>1, <1>2, <1>4, <1>5
  <1>7. Append(file[L], r) # <<>>
    <2>1. Len(file[L]) \in Nat BY <1>3, LenProperties
    <2>2. Len(Append(file[L], r)) # 0 BY <2>1, <1>4
    <2> QED BY <2>2, EmptyTyped
  <1>8. file' # <<>> BY <1>2, <1>6, EmptySeq
  <1> QED BY <1>3, <1>4, <1>6, <1>7, <1>8

LEMMA LineEnded ==
  ASSUME LogTypeOK, file' = Append(file, <<>>)
  PROVE  /\ file' \in Seq(Seq(Records)) /\ Len(file') = Len(file) + 1 /\ file' # <<>>
         /\ DOMAIN file' = 1 .. Len(file) + 1 /\ DOMAIN file = 1 .. Len(file) /\ Len(file) \in Nat
         /\ \A i \in DOMAIN file : file'[i] = file[i]
         /\ file'[Len(file) + 1] = <<>>
  <1>1. file \in Seq(Seq(Records)) BY DEF LogTypeOK
  <1> HIDE DEF Records
  <1>2. <<>> \in Seq(Records) BY EmptySeq
  <1>3. file' \in Seq(Seq(Records)) /\ Len(file') = Len(file) + 1
        /\ file'[Len(file) + 1] = <<>> /\ \A i \in 1 .. Len(file) : file'[i] = file[i]
    BY <1>1, <1>2, AppendTyped
  <1>4. file' # <<>> BY <1>1, <1>3, EmptySeq
  <1> QED BY <1>1, <1>3, <1>4

LEMMA BeginTyped ==
  ASSUME NEW who \in Origins, NEW e \in Events, BeginWrite(who, e)
  PROVE  /\ holder = "none" /\ holder' = who /\ holder' # "none" /\ stage' = "record"
         /\ writing' \in Seq(Events) /\ Len(writing') = 1 /\ writing'[1] = e /\ writing' # <<>>
  <1> HIDE DEF Events
  <1> QED BY One DEF BeginWrite, Origins

LEMMA Released ==
  ASSUME ReleaseLock
  PROVE  holder' = "none" /\ stage' = "idle" /\ writing' = <<>> /\ writing' \in Seq(Events) /\ Len(writing') = 0
  <1> HIDE DEF Events
  <1> QED BY EmptyTyped DEF ReleaseLock

(* The event flush appends next.                                           *)
LEMMA QueueHead ==
  ASSUME NEW s \in Seq(Events), s # <<>>
  PROVE  /\ Head(s) \in Events /\ Head(s) = s[1] /\ 1 \in DOMAIN s
         /\ Tail(s) \in Seq(Events) /\ DOMAIN Tail(s) = 1 .. Len(s) - 1
         /\ \A i \in DOMAIN Tail(s) : i + 1 \in DOMAIN s /\ Tail(s)[i] = s[i + 1] /\ i + 1 > 1
  <1> HIDE DEF Events
  <1> QED BY HeadTailProperties, EmptySeq

(* What a cut write leaves of the file.                                    *)
LEMMA CutCases ==
  ASSUME CutShort, LogTypeOK, LockShape, file # <<>>
  PROVE  \/ file' = file
         \/ stage = "record" /\ holder # "none"
            /\ \E r \in Records : AddToLastLine(r) /\ r.event = writing[1] /\ ~r.whole
  <1>1. CASE UNCHANGED file BY <1>1
  <1>2. CASE stage = "record" /\ AddToLastLine([event |-> writing[1], whole |-> FALSE])
    <2>1. holder # "none" BY <1>2 DEF LockShape
    <2>2. writing[1] \in Events BY <2>1, WritingTyped
    <2>3. [event |-> writing[1], whole |-> FALSE] \in Records BY <2>2, RecordTyped
    <2> QED BY <1>2, <2>1, <2>3
  <1> QED BY <1>1, <1>2 DEF CutShort

LEMMA RecordWritten ==
  ASSUME WriteRecord, LogTypeOK, LockShape
  PROVE  /\ stage = "record" /\ holder # "none" /\ file # <<>>
         /\ \E r \in Records : AddToLastLine(r) /\ r.event = writing[1] /\ r.whole
  <1>1. stage = "record" /\ AddToLastLine([event |-> writing[1], whole |-> TRUE]) BY DEF WriteRecord
  <1>2. holder # "none" BY <1>1 DEF LockShape
  <1>3. writing[1] \in Events /\ file # <<>> BY <1>2, WritingTyped
  <1>4. [event |-> writing[1], whole |-> TRUE] \in Records BY <1>3, RecordTyped
  <1> QED BY <1>1, <1>2, <1>3, <1>4

-----------------------------------------------------------------------------
(* Every step keeps the types.                                             *)
LEMMA FileTyped ==
  ASSUME LogTypeOK, LockShape, LogNext
  PROVE  file' \in Seq(Seq(Records))
  <1>1. file \in Seq(Seq(Records)) BY DEF LogTypeOK
  <1> HIDE DEF Records
  <1>2. CASE CreateSession
    <2>1. <<>> \in Seq(Records) BY EmptyTyped
    <2> QED BY <1>2, <2>1, One DEF CreateSession
  <1>3. CASE WriteRecord
    <2>1. PICK r \in Records : AddToLastLine(r) BY <1>3, RecordWritten
    <2> QED BY <1>3, <2>1, RecordWritten, LineAdded
  <1>4. CASE WriteNewline
    <2>1. file' = Append(file, <<>>) BY <1>4 DEF WriteNewline
    <2> QED BY <2>1, LineEnded
  <1>5. ASSUME CutShort, file # <<>> PROVE file' \in Seq(Seq(Records))
    <2>1. CASE file' = file BY <1>1, <2>1
    <2>2. CASE \E r \in Records : AddToLastLine(r) BY <2>2, <1>5, LineAdded
    <2> QED BY <1>5, <2>1, <2>2, CutCases
  <1>6. CASE WriteFails
    <2>1. holder # "none" /\ (file' = <<>> \/ CutShort) BY <1>6 DEF WriteFails
    <2>2. file # <<>> BY <2>1, WritingTyped
    <2> QED BY <1>5, <2>1, <2>2, EmptyTyped
  <1>7. CASE Crash BY <1>5, <1>7 DEF Crash
  <1>8. CASE UNCHANGED file BY <1>1, <1>8
  <1> QED BY <1>2, <1>3, <1>4, <1>6, <1>7, <1>8
       DEF LogNext, ResumeSession, RpcAppend, Emit, BackgroundEvent, FlushTake, FlushAppend, FlushRefused, RunReturns

LEMMA LockTyped ==
  ASSUME LogTypeOK, LogNext
  PROVE  /\ holder' \in Origins \cup {"none"} /\ stage' \in {"idle", "record", "newline"}
         /\ writing' \in Seq(Events) /\ Len(writing') <= 1
         /\ (holder' = "none" <=> writing' = <<>>)
  <1> DEFINE Good == /\ holder' \in Origins \cup {"none"} /\ stage' \in {"idle", "record", "newline"}
                     /\ writing' \in Seq(Events) /\ Len(writing') <= 1
                     /\ (holder' = "none" <=> writing' = <<>>)
  <1>1. ASSUME NEW who \in Origins, NEW e \in Events, BeginWrite(who, e) PROVE Good
    <2>1. /\ holder' = who /\ holder' # "none" /\ stage' = "record"
          /\ writing' \in Seq(Events) /\ Len(writing') = 1 /\ writing' # <<>>
      BY <1>1, BeginTyped
    <2> HIDE DEF Events
    <2>2. Len(writing') <= 1 BY <2>1
    <2> QED BY <2>1, <2>2
  <1>2. ASSUME ReleaseLock PROVE Good
    <2>1. holder' = "none" /\ stage' = "idle" /\ writing' = <<>> /\ writing' \in Seq(Events) /\ Len(writing') = 0
      BY <1>2, Released
    <2> HIDE DEF Events
    <2>2. Len(writing') <= 1 BY <2>1
    <2> QED BY <2>1, <2>2
  <1>3. ASSUME UNCHANGED <<holder, writing>>, stage' \in {stage, "newline"} PROVE Good
    <2> HIDE DEF Events
    <2> QED BY <1>3 DEF LogTypeOK
  <1> SUFFICES Good OBVIOUS
  <1> HIDE DEF Good
  <1>4. CASE CreateSession
    <2>1. NewEvent("started", "run") \in Events BY <1>4, EventTyped DEF CreateSession, Kinds, Origins
    <2> QED BY <1>1, <1>4, <2>1 DEF CreateSession, Origins
  <1>5. CASE ResumeSession
    <2>1. NewEvent("resumed", "run") \in Events BY <1>5, EventTyped DEF ResumeSession, Kinds, Origins
    <2> QED BY <1>1, <1>5, <2>1 DEF ResumeSession, Origins
  <1>6. ASSUME NEW kind \in {"resumed", "model"}, RpcAppend(kind) PROVE Good
    <2>1. NewEvent(kind, "rpc") \in Events BY <1>6, EventTyped DEF RpcAppend, Kinds, Origins
    <2> QED BY <1>1, <1>6, <2>1 DEF RpcAppend, Origins
  <1>7. CASE FlushAppend
    <2>1. Head(queue) \in Events BY <1>7, QueueHead DEF FlushAppend, LogTypeOK
    <2> QED BY <1>1, <1>7, <2>1 DEF FlushAppend, Origins
  <1>8. CASE WriteRecord BY <1>3, <1>8 DEF WriteRecord
  <1>9. CASE WriteNewline BY <1>2, <1>9 DEF WriteNewline
  <1>10. CASE WriteFails BY <1>2, <1>10 DEF WriteFails
  <1>11. CASE Crash BY <1>2, <1>11 DEF Crash
  <1>12. CASE UNCHANGED <<holder, writing, stage>> BY <1>3, <1>12
  <1> QED BY <1>4, <1>5, <1>6, <1>7, <1>8, <1>9, <1>10, <1>11, <1>12
       DEF LogNext, Emit, BackgroundEvent, FlushTake, FlushRefused, RunReturns

LEMMA QueuesTyped ==
  ASSUME LogTypeOK, LockShape, LogNext
  PROVE  collector' \in Seq(Events) /\ queue' \in Seq(Events) /\ acked' \in Seq(Events)
  <1>1. collector \in Seq(Events) /\ queue \in Seq(Events) /\ acked \in Seq(Events) BY DEF LogTypeOK
  <1>2. ASSUME NEW kind \in Kinds, created < MaxEvents
        PROVE  Append(collector, NewEvent(kind, "run")) \in Seq(Events)
    <2>1. NewEvent(kind, "run") \in Events BY <1>2, EventTyped DEF Origins
    <2> QED BY <1>1, <2>1, AppendTyped
  <1>3. ASSUME WriteNewline PROVE acked' \in Seq(Events)
    <2>1. holder # "none" BY <1>3 DEF WriteNewline, LockShape
    <2> QED BY <1>1, <1>3, <2>1, WritingTyped, AppendTyped DEF WriteNewline
  <1>4. ASSUME FlushAppend PROVE queue' \in Seq(Events)
    BY <1>1, <1>4, QueueHead DEF FlushAppend
  <1>5. <<>> \in Seq(Events) BY EmptyTyped
  <1> HIDE DEF Events
  <1>6. CASE WriteFails BY <1>1, <1>5, <1>6 DEF WriteFails, EndRun
  <1>7. CASE \E kind \in {"note", "terminal"} : Emit(kind)
    <2>1. PICK kind \in {"note", "terminal"} : Emit(kind) BY <1>7
    <2>2. kind \in Kinds BY DEF Kinds
    <2> QED BY <1>1, <1>2, <2>1, <2>2 DEF Emit
  <1>8. CASE BackgroundEvent
    <2>1. "process" \in Kinds BY DEF Kinds
    <2> QED BY <1>1, <1>2, <1>8, <2>1 DEF BackgroundEvent
  <1>9. CASE UNCHANGED <<collector, queue, acked>> BY <1>1, <1>9
  <1>10. CASE Crash BY <1>1, <1>5, <1>10 DEF Crash, EndRun
  <1>11. CASE FlushTake BY <1>1, <1>5, <1>11 DEF FlushTake
  <1>12. CASE FlushRefused BY <1>1, <1>5, <1>12 DEF FlushRefused, EndRun
  <1>13. CASE RunReturns BY <1>1, <1>5, <1>13 DEF RunReturns, EndRun
  <1>14. CASE FlushAppend BY <1>1, <1>4, <1>14 DEF FlushAppend
  <1>15. CASE WriteNewline BY <1>1, <1>3, <1>15 DEF WriteNewline
  <1> QED BY <1>6, <1>7, <1>8, <1>9, <1>10, <1>11, <1>12, <1>13, <1>14, <1>15
       DEF LogNext, CreateSession, ResumeSession, RpcAppend, WriteRecord

LEMMA CountsTyped ==
  ASSUME LogTypeOK, LogNext
  PROVE  /\ created' \in 0 .. MaxEvents /\ faults' \in 0 .. MaxFaults /\ created' >= created
         /\ run' \in {"none", "opening", "active", "emitting", "closing", "closed"}
  <1>1. created \in 0 .. MaxEvents /\ faults \in 0 .. MaxFaults /\ MaxEvents \in Nat /\ MaxFaults \in Nat
        /\ run \in {"none", "opening", "active", "emitting", "closing", "closed"}
    BY LogAssumption DEF LogTypeOK
  <1>2. run' = run \/ run' \in {"none", "opening", "active", "emitting", "closing", "closed"}
    BY DEF LogNext, CreateSession, ResumeSession, RpcAppend, WriteRecord, WriteNewline,
       WriteFails, Crash, Emit, BackgroundEvent, FlushTake, FlushAppend, FlushRefused, RunReturns, EndRun
  <1>3. created' = created \/ (created < MaxEvents /\ created' = created + 1)
    BY DEF LogNext, CreateSession, ResumeSession, RpcAppend, WriteRecord, WriteNewline,
       WriteFails, Crash, Emit, BackgroundEvent, FlushTake, FlushAppend, FlushRefused, RunReturns
  <1>4. faults' = faults \/ (faults < MaxFaults /\ faults' = faults + 1)
    BY DEF LogNext, CreateSession, ResumeSession, RpcAppend, WriteRecord, WriteNewline,
       WriteFails, Crash, Emit, BackgroundEvent, FlushTake, FlushAppend, FlushRefused, RunReturns
  <1> QED BY <1>1, <1>2, <1>3, <1>4

LEMMA LogTypesKept ==
  ASSUME LogTypeOK, LockShape, LogNext
  PROVE  LogTypeOK'
  BY FileTyped, LockTyped, QueuesTyped, CountsTyped DEF LogTypeOK

-----------------------------------------------------------------------------
(* append_event begins only on a file without damage.                      *)
LEMMA AppendableWhole ==
  ASSUME Appendable
  PROVE  file # <<>> /\ \A i \in DOMAIN file : file[i] # <<>> => Whole(i)
  <1>1. ~Damaged /\ ~Warned /\ Loaded # {} BY DEF Appendable, Loads
  <1>2. ASSUME NEW i \in DOMAIN file, file[i] # <<>> PROVE Whole(i)
    <2>1. i \in Written BY <1>2 DEF Written
    <2>2. CASE IsLast(i) BY <1>1, <2>1, <2>2 DEF Warned, Whole
    <2>3. CASE ~IsLast(i) BY <1>1, <2>1, <2>3 DEF Damaged, Whole
    <2> QED BY <2>2, <2>3
  <1>3. file # <<>>
    <2>1. PICK i \in DOMAIN file : TRUE BY <1>1 DEF Loaded, Written
    <2> QED BY <2>1
  <1> QED BY <1>2, <1>3

(* What the actions that take append_lock have in common.                  *)
Begins(who, e) ==
  /\ BeginWrite(who, e) /\ e \in Events /\ who \in Origins /\ e.origin = who /\ e.id <= created'
  /\ e.kind = "started" => acked = <<>>
  /\ acked' = acked
  /\ \/ file' = file /\ Appendable
     \/ file = <<>> /\ file' = << <<>> >>
  /\ who = "run" =>
       FileBelow(e.id) /\ \A d \in Events : InQueue(d)' \/ InCollector(d)' => e.id < d.id

LEMMA EveryBegin ==
  ASSUME LogTypeOK, LockShape, OrderKept, LogNext
  PROVE  \/ \E who \in Origins, e \in Events : Begins(who, e)
         \/ WriteRecord \/ WriteNewline \/ WriteFails \/ Crash
         \/ UNCHANGED <<file, holder, stage, writing, acked>>
  <1> USE DEF Origins, Kinds
  <1>1. CASE CreateSession
    <2>1. NewEvent("started", "run") \in Events /\ NewEvent("started", "run").id = created + 1
          /\ NewEvent("started", "run").origin = "run" /\ created' = created + 1
      BY <1>1, EventTyped DEF CreateSession
    <2>2. PICK e \in Events : e = NewEvent("started", "run") BY <2>1
    <2>3. BeginWrite("run", e) /\ acked' = acked /\ file = <<>> /\ file' = << <<>> >> BY <1>1, <2>2 DEF CreateSession
    <2>4. acked = <<>> BY <2>3 DEF LockShape
    <2>5. created' \in Nat BY <2>1 DEF LogTypeOK
    <2>6. e.id <= created' BY <2>1, <2>2, <2>5
    <2>8. FileBelow(e.id) BY <2>1, <2>2 DEF OrderKept
    <2>9. queue' = <<>> /\ collector' = <<>> BY <1>1 DEF CreateSession, OrderKept
    <2>7. Begins("run", e) BY <2>1, <2>2, <2>3, <2>4, <2>6, <2>8, <2>9 DEF Begins, InQueue, InCollector
    <2> QED BY <2>7
  <1>2. CASE ResumeSession
    <2>1. NewEvent("resumed", "run") \in Events /\ NewEvent("resumed", "run").id = created + 1
          /\ NewEvent("resumed", "run").origin = "run" /\ created' = created + 1
          /\ NewEvent("resumed", "run").kind = "resumed"
      BY <1>2, EventTyped DEF ResumeSession
    <2>2. PICK e \in Events : e = NewEvent("resumed", "run") BY <2>1
    <2>3. BeginWrite("run", e) /\ acked' = acked /\ file = file' /\ Appendable BY <1>2, <2>2 DEF ResumeSession
    <2>5. created' \in Nat BY <2>1 DEF LogTypeOK
    <2>6. e.id <= created' BY <2>1, <2>2, <2>5
    <2>8. FileBelow(e.id) BY <2>1, <2>2 DEF OrderKept
    <2>9. queue' = <<>> /\ collector' = <<>> BY <1>2 DEF ResumeSession, OrderKept
    <2>7. Begins("run", e) BY <2>1, <2>2, <2>3, <2>6, <2>8, <2>9 DEF Begins, InQueue, InCollector
    <2> QED BY <2>7
  <1>3. CASE \E kind \in {"resumed", "model"} : RpcAppend(kind)
    <2> PICK kind \in {"resumed", "model"} : RpcAppend(kind) BY <1>3
    <2>1. NewEvent(kind, "rpc") \in Events /\ NewEvent(kind, "rpc").id = created + 1
          /\ NewEvent(kind, "rpc").origin = "rpc" /\ created' = created + 1 /\ NewEvent(kind, "rpc").kind = kind
      BY EventTyped DEF RpcAppend
    <2>2. PICK e \in Events : e = NewEvent(kind, "rpc") BY <2>1
    <2>3. BeginWrite("rpc", e) /\ acked' = acked /\ file = file' /\ Appendable BY <2>2 DEF RpcAppend
    <2>5. created' \in Nat BY <2>1 DEF LogTypeOK
    <2>6. e.id <= created' BY <2>1, <2>2, <2>5
    <2>7. Begins("rpc", e) BY <2>1, <2>2, <2>3, <2>6 DEF Begins
    <2> QED BY <2>7
  <1>4. CASE FlushAppend
    <2>1. Head(queue) \in Events /\ Head(queue) = queue[1] /\ 1 \in DOMAIN queue
      BY <1>4, QueueHead DEF FlushAppend, LogTypeOK
    <2>2. PICK e \in Events : e = Head(queue) BY <2>1
    <2>3. Fresh(e) BY <2>1, <2>2 DEF OrderKept, InQueue
    <2>4. BeginWrite("run", e) /\ acked' = acked /\ file = file' /\ Appendable /\ created' = created
      BY <1>4, <2>2 DEF FlushAppend
    <2>5. queue \in Seq(Events) /\ queue # <<>> /\ queue' = Tail(queue) /\ collector' = collector
      BY <1>4 DEF FlushAppend, LogTypeOK
    <2>6. ASSUME NEW d \in Events, InQueue(d)' PROVE e.id < d.id
      <3>1. PICK i \in DOMAIN queue' : queue'[i] = d BY <2>6 DEF InQueue
      <3>2. i + 1 \in DOMAIN queue /\ queue[i + 1] = d /\ i + 1 > 1 BY <2>5, <3>1, QueueHead
      <3> HIDE DEF Events
      <3>3. queue[1].id < queue[i + 1].id BY <2>1, <3>2 DEF OrderKept, Ascending
      <3> QED BY <2>1, <2>2, <3>2, <3>3
    <2>7. ASSUME NEW d \in Events, InCollector(d)' PROVE e.id < d.id
      <3>1. InQueue(e) /\ InCollector(d) BY <2>1, <2>2, <2>5, <2>7 DEF InQueue, InCollector
      <3> QED BY <3>1 DEF OrderKept
    <2>8. Begins("run", e) BY <2>2, <2>3, <2>4, <2>6, <2>7 DEF Begins, Fresh
    <2> QED BY <2>8
  <1> QED BY <1>1, <1>2, <1>3, <1>4
       DEF LogNext, Emit, BackgroundEvent, FlushTake, FlushRefused, RunReturns

LEMMA LockKept ==
  ASSUME LogTypeOK, LockShape, OrderKept, LogNext
  PROVE  LockShape'
  <1>1. ASSUME NEW who \in Origins, NEW e \in Events, Begins(who, e) PROVE LockShape'
    <2>1. /\ holder' = who /\ holder' # "none" /\ stage' = "record"
          /\ Len(writing') = 1 /\ writing'[1] = e
      BY <1>1, BeginTyped DEF Begins
    <2>2. file' # <<>> BY <1>1, AppendableWhole DEF Begins
    <2>3. e.origin = who /\ e.id <= created' /\ (e.kind = "started" => acked' = <<>>)
      BY <1>1 DEF Begins
    <2> QED BY <2>1, <2>2, <2>3 DEF LockShape
  <1>2. ASSUME ReleaseLock, file' = <<>> => acked' = <<>> PROVE LockShape'
    BY <1>2, Released DEF LockShape
  <1>3. CASE WriteRecord
    <2>1. PICK r \in Records : AddToLastLine(r) BY <1>3, RecordWritten
    <2>2. file' # <<>> BY <1>3, <2>1, RecordWritten, LineAdded
    <2> QED BY <1>3, <2>2, RecordWritten DEF WriteRecord, LockShape
  <1>4. CASE WriteNewline
    <2>1. file' # <<>> BY <1>4, LineEnded DEF WriteNewline
    <2> QED BY <1>2, <1>4, <2>1 DEF WriteNewline
  <1>5. ASSUME CutShort, file # <<>> PROVE file' # <<>>
    BY <1>5, CutCases, LineAdded
  <1>6. CASE WriteFails
    <2>1. holder # "none" /\ file # <<>> BY <1>6, WritingTyped DEF WriteFails
    <2>2. CASE writing[1].kind = "started" BY <1>2, <1>6, <2>1, <2>2 DEF WriteFails, LockShape
    <2>3. CASE writing[1].kind # "started" BY <1>2, <1>5, <1>6, <2>1, <2>3 DEF WriteFails
    <2> QED BY <2>2, <2>3
  <1>7. CASE Crash BY <1>2, <1>5, <1>7 DEF Crash
  <1>8. CASE UNCHANGED <<file, holder, stage, writing, acked>>
    <2>1. holder # "none" => writing[1] \in Events BY WritingTyped
    <2>2. holder # "none" => writing[1].id \in Nat BY <2>1 DEF Events
    <2>3. created \in Nat /\ created' \in Nat /\ created <= created' BY CountsTyped DEF LogTypeOK
    <2>4. holder # "none" => writing[1].id <= created' BY <2>2, <2>3 DEF LockShape
    <2> QED BY <1>8, <2>4 DEF LockShape
  <1> QED BY <1>1, <1>3, <1>4, <1>6, <1>7, <1>8, EveryBegin

-----------------------------------------------------------------------------
(* Damage stays at the end.                                                *)
LEMMA ShapeOfAdded ==
  ASSUME LogTypeOK, LockShape, FileShape, stage = "record", NEW r \in Records, AddToLastLine(r),
         stage' # "record", stage' = "newline" => r.event = writing'[1]
  PROVE  FileShape'
  <1> DEFINE L == Len(file)
  <1>1. holder # "none" /\ file # <<>> /\ L \in DOMAIN file BY WritingTyped DEF LockShape
  <1>2. file \in Seq(Seq(Records)) BY DEF LogTypeOK
  <1>3. /\ Len(file') = L /\ DOMAIN file' = DOMAIN file
        /\ \A i \in DOMAIN file : i # L => file'[i] = file[i]
        /\ file'[L] # <<>> /\ Len(file'[L]) = Len(file[L]) + 1 /\ file'[L][Len(file[L]) + 1] = r
    BY <1>1, LineAdded
  <1>4. DOMAIN file = 1 .. L /\ L \in Nat BY <1>2
  <1> HIDE DEF L
  <1>5. ASSUME NEW i \in DOMAIN file', i < L PROVE Whole(i)' /\ file'[i] # <<>>
    <2>1. i \in DOMAIN file /\ i # L /\ file'[i] = file[i] BY <1>3, <1>4, <1>5
    <2>2. file[i] # <<>> BY <1>5, <2>1 DEF FileShape, L
    <2>3. Whole(i) BY <2>1, <2>2 DEF FileShape
    <2> QED BY <2>1, <2>2, <2>3 DEF Whole, Parses
  <1>6. \A i \in DOMAIN file' : i + 1 <= L => i < L BY <1>3, <1>4
  <1>7. \A i \in DOMAIN file' : (i + 1 < L => i < L) /\ (i + 1 = L => i < L) BY <1>3, <1>4
  <1>8. Len(file') = L BY <1>3
  <1>9. stage' = "newline" => file'[L] # <<>> /\ file'[L][Len(file'[L])].event = writing'[1] BY <1>3
  <1> QED BY <1>5, <1>7, <1>8, <1>9 DEF FileShape

LEMMA ShapeKept ==
  ASSUME LogTypeOK, LockShape, FileShape, OrderKept, LogNext
  PROVE  FileShape'
  <1>1. ASSUME NEW who \in Origins, NEW e \in Events, Begins(who, e) PROVE FileShape'
    <2>1. stage' = "record" BY <1>1, BeginTyped DEF Begins
    <2>2. CASE file' = file /\ Appendable
      <3>1. \A i \in DOMAIN file : file[i] # <<>> => Whole(i) BY <2>2, AppendableWhole
      <3> QED BY <2>1, <2>2, <3>1 DEF FileShape, Whole, Parses
    <2>3. CASE file' = << <<>> >>
      <3>1. Len(file') = 1 /\ DOMAIN file' = {1} /\ file'[1] = <<>> BY <2>3
      <3> QED BY <2>1, <3>1 DEF FileShape
    <2> QED BY <1>1, <2>2, <2>3 DEF Begins
  <1>2. ASSUME file' = file, stage' = "idle" PROVE FileShape'
    BY <1>2 DEF FileShape, Whole, Parses
  <1>3. CASE WriteRecord
    <2>1. PICK r \in Records : AddToLastLine(r) /\ r.event = writing[1] BY <1>3, RecordWritten
    <2> QED BY <1>3, <2>1, ShapeOfAdded DEF WriteRecord
  <1>4. CASE WriteNewline
    <2> DEFINE L == Len(file)
    <2>1. /\ Len(file') = L + 1 /\ DOMAIN file' = 1 .. L + 1 /\ DOMAIN file = 1 .. L /\ L \in Nat
          /\ \A i \in DOMAIN file : file'[i] = file[i]
          /\ file'[L + 1] = <<>>
      BY <1>4, LineEnded DEF WriteNewline
    <2>2. stage = "newline" /\ stage' = "idle" BY <1>4, Released DEF WriteNewline
    <2>3. file[L] # <<>> BY <2>2 DEF FileShape
    <2> HIDE DEF L
    <2>4. ASSUME NEW i \in DOMAIN file', i < L + 1 PROVE i \in DOMAIN file /\ i <= L /\ file'[i] = file[i]
      BY <2>1, <2>4
    <2>5. ASSUME NEW i \in DOMAIN file', i < L + 1 PROVE file'[i] # <<>>
      <3>1. i \in DOMAIN file /\ file'[i] = file[i] BY <2>4, <2>5
      <3>2. i < L \/ i = L BY <2>1, <2>5
      <3> QED BY <3>1, <3>2, <2>3 DEF FileShape, L
    <2>6. ASSUME NEW i \in DOMAIN file', i + 1 < L + 1 PROVE Whole(i)'
      <3>0. i < L + 1 BY <2>1, <2>6
      <3>1. i \in DOMAIN file /\ file'[i] = file[i] BY <2>4, <3>0
      <3>2. i + 1 < L \/ i + 1 = L BY <2>1, <2>6
      <3>3. Whole(i) BY <3>1, <3>2, <2>3 DEF FileShape, L
      <3> QED BY <3>1, <3>3 DEF Whole
    <2> QED BY <2>1, <2>2, <2>5, <2>6 DEF FileShape
  <1>5. ASSUME CutShort, file # <<>>, stage' = "idle" PROVE FileShape'
    <2>1. CASE file' = file BY <1>2, <1>5, <2>1
    <2>2. CASE stage = "record" /\ \E r \in Records : AddToLastLine(r)
      BY <1>5, <2>2, ShapeOfAdded
    <2> QED BY <1>5, <2>1, <2>2, CutCases
  <1>6. CASE WriteFails
    <2>1. holder # "none" /\ file # <<>> /\ stage' = "idle" BY <1>6, WritingTyped, Released DEF WriteFails
    <2>2. CASE file' = <<>>
      <3>1. DOMAIN file' = {} /\ Len(file') = 0 BY <2>2
      <3> QED BY <2>1, <3>1 DEF FileShape
    <2> QED BY <1>5, <1>6, <2>1, <2>2 DEF WriteFails
  <1>7. CASE Crash BY <1>5, <1>7, Released DEF Crash
  <1>8. CASE UNCHANGED <<file, holder, stage, writing, acked>> BY <1>8 DEF FileShape, Whole, Parses
  <1> QED BY <1>1, <1>3, <1>4, <1>6, <1>7, <1>8, EveryBegin

-----------------------------------------------------------------------------
(* How the file grows: a record stays where it is, and a new one is of the *)
(* event in writing, at the end of the last line.                          *)
LEMMA PlaceTyped ==
  ASSUME LogTypeOK, NEW p \in Places
  PROVE  EventOf(p) \in Events /\ p[1] \in DOMAIN file /\ p[1] \in Nat /\ p[1] <= Len(file) /\ p = <<p[1], p[2]>>
  <1>1. p[1] \in DOMAIN file /\ p[2] \in DOMAIN file[p[1]] /\ p = <<p[1], p[2]>> BY DEF Places
  <1>2. file \in Seq(Seq(Records)) BY DEF LogTypeOK
  <1>3. file[p[1]][p[2]] \in Records
    <2> HIDE DEF Records
    <2>1. file[p[1]] \in Seq(Records) BY <1>1, <1>2
    <2> QED BY <1>1, <2>1
  <1>4. EventOf(p) \in Events BY <1>3 DEF Records, EventOf
  <1>5. p[1] \in Nat /\ p[1] <= Len(file)
    <2> HIDE DEF Records
    <2> QED BY <1>1, <1>2
  <1> QED BY <1>1, <1>4, <1>5

Stays(p) == p \in Places' /\ EventOf(p)' = EventOf(p)
Old(p) == p \in Places /\ EventOf(p)' = EventOf(p)
JustWritten(p) == stage = "record" /\ holder # "none" /\ p[1] = Len(file) /\ EventOf(p)' = writing[1]

LEMMA SameFile ==
  ASSUME file' = file
  PROVE  (\A p \in Places : Stays(p)) /\ (\A p \in Places' : Old(p))
  BY DEF Places, EventOf, Stays, Old

LEMMA AddedFile ==
  ASSUME LogTypeOK, LockShape, stage = "record", NEW r \in Records, AddToLastLine(r), r.event = writing[1]
  PROVE  (\A p \in Places : Stays(p)) /\ (\A p \in Places' : Old(p) \/ JustWritten(p))
  <1> DEFINE L == Len(file)
  <1>1. holder # "none" /\ file # <<>> /\ L \in DOMAIN file BY WritingTyped DEF LockShape
  <1>2. file \in Seq(Seq(Records)) BY DEF LogTypeOK
  <1>3. /\ DOMAIN file' = DOMAIN file /\ file' \in Seq(Seq(Records))
        /\ \A i \in DOMAIN file : i # L => file'[i] = file[i]
        /\ Len(file'[L]) = Len(file[L]) + 1 /\ file'[L][Len(file[L]) + 1] = r
        /\ \A i \in 1 .. Len(file[L]) : file'[L][i] = file[L][i]
        /\ file[L] \in Seq(Records)
    BY <1>1, LineAdded
  <1>4. L \in DOMAIN file BY <1>1
  <1> HIDE DEF L, Records
  <1>5. file'[L] \in Seq(Records) BY <1>3, <1>4
  <1>6. /\ DOMAIN file[L] = 1 .. Len(file[L]) /\ Len(file[L]) \in Nat
        /\ DOMAIN file'[L] = 1 .. Len(file[L]) + 1
    BY <1>3, <1>5
  <1>7. ASSUME NEW p \in Places PROVE Stays(p)
    <2>1. p \in (DOMAIN file) \X Nat /\ p[1] \in DOMAIN file /\ p[2] \in DOMAIN file[p[1]] BY DEF Places
    <2>2. CASE p[1] = L
      <3>1. p[2] \in 1 .. Len(file[L]) /\ p[2] \in DOMAIN file'[L] BY <1>6, <2>1, <2>2
      <3>2. file'[L][p[2]] = file[L][p[2]] BY <1>3, <3>1
      <3> QED BY <1>3, <2>1, <2>2, <3>1, <3>2 DEF Places, EventOf, Stays
    <2>3. CASE p[1] # L
      <3>1. file'[p[1]] = file[p[1]] BY <1>3, <2>1, <2>3
      <3> QED BY <1>3, <2>1, <3>1 DEF Places, EventOf, Stays
    <2> QED BY <2>2, <2>3
  <1>8. ASSUME NEW p \in Places' PROVE Old(p) \/ JustWritten(p)
    <2>1. p \in (DOMAIN file) \X Nat /\ p[1] \in DOMAIN file /\ p[2] \in DOMAIN file'[p[1]] BY <1>3 DEF Places
    <2>2. CASE p[1] # L
      <3>1. file'[p[1]] = file[p[1]] BY <1>3, <2>1, <2>2
      <3> QED BY <2>1, <3>1 DEF Places, EventOf, Old
    <2>3. CASE p[1] = L /\ p[2] \in 1 .. Len(file[L])
      <3>1. file'[L][p[2]] = file[L][p[2]] BY <1>3, <2>3
      <3> QED BY <1>6, <2>1, <2>3, <3>1 DEF Places, EventOf, Old
    <2>4. CASE p[1] = L /\ p[2] = Len(file[L]) + 1
      <3>1. file'[L][p[2]] = r BY <1>3, <2>4
      <3> QED BY <1>1, <2>4, <3>1 DEF EventOf, JustWritten, L
    <2>5. p[1] = L => p[2] \in 1 .. Len(file[L]) \/ p[2] = Len(file[L]) + 1 BY <1>6, <2>1
    <2> QED BY <2>2, <2>3, <2>4, <2>5
  <1> QED BY <1>7, <1>8

LEMMA EndedFile ==
  ASSUME LogTypeOK, file' = Append(file, <<>>)
  PROVE  (\A p \in Places : Stays(p)) /\ (\A p \in Places' : Old(p))
  <1>1. /\ DOMAIN file' = 1 .. Len(file) + 1 /\ DOMAIN file = 1 .. Len(file) /\ Len(file) \in Nat
        /\ \A i \in DOMAIN file : file'[i] = file[i]
        /\ file'[Len(file) + 1] = <<>>
    BY LineEnded
  <1>2. ASSUME NEW p \in Places PROVE Stays(p)
    <2>1. p[1] \in DOMAIN file /\ p[1] \in DOMAIN file' /\ p[2] \in Nat /\ p[2] \in DOMAIN file[p[1]] /\ p = <<p[1], p[2]>>
      BY <1>1 DEF Places
    <2>2. file'[p[1]] = file[p[1]] BY <1>1, <2>1
    <2>3. p \in (DOMAIN file') \X Nat BY <2>1
    <2> QED BY <2>1, <2>2, <2>3 DEF Places, EventOf, Stays
  <1>3. ASSUME NEW p \in Places' PROVE Old(p)
    <2>1. p[1] \in DOMAIN file' /\ p[2] \in Nat /\ p[2] \in DOMAIN file'[p[1]] /\ p = <<p[1], p[2]>> BY DEF Places
    <2>2. p[1] # Len(file) + 1
      <3>1. DOMAIN file'[Len(file) + 1] = {} BY <1>1
      <3> QED BY <2>1, <3>1
    <2>3. p[1] \in DOMAIN file BY <1>1, <2>1, <2>2
    <2>4. file'[p[1]] = file[p[1]] BY <1>1, <2>3
    <2>5. p \in (DOMAIN file) \X Nat BY <2>1, <2>3
    <2> QED BY <2>1, <2>4, <2>5 DEF Places, EventOf, Old
  <1> QED BY <1>2, <1>3

LEMMA NoPlaces ==
  (file = <<>> \/ file = << <<>> >> => Places = {})
  <1>1. ASSUME file = <<>> PROVE Places = {}
    <2>1. DOMAIN file = {} BY <1>1
    <2> QED BY <2>1 DEF Places
  <1>2. ASSUME file = << <<>> >> PROVE Places = {}
    <2>1. DOMAIN file = {1} /\ file[1] = <<>> /\ DOMAIN <<>> = {} BY <1>2
    <2> QED BY <2>1 DEF Places
  <1> QED BY <1>1, <1>2

LEMMA NoPlacesAfter ==
  (file' = <<>> \/ file' = << <<>> >> => Places' = {})
  <1>1. ASSUME file' = <<>> PROVE Places' = {}
    <2>1. DOMAIN file' = {} BY <1>1
    <2> QED BY <2>1 DEF Places
  <1>2. ASSUME file' = << <<>> >> PROVE Places' = {}
    <2>1. DOMAIN file' = {1} /\ file'[1] = <<>> /\ DOMAIN <<>> = {} BY <1>2
    <2> QED BY <2>1 DEF Places
  <1> QED BY <1>1, <1>2

LEMMA FileGrows ==
  ASSUME LogTypeOK, LockShape, OrderKept, LogNext
  PROVE  /\ (\A p \in Places : Stays(p)) \/ (acked = <<>> /\ acked' = <<>>)
         /\ \A p \in Places' : Old(p) \/ JustWritten(p)
  <1> DEFINE Goal == /\ (\A p \in Places : Stays(p)) \/ (acked = <<>> /\ acked' = <<>>)
                     /\ \A p \in Places' : Old(p) \/ JustWritten(p)
  <1> SUFFICES Goal OBVIOUS
  <1>1. ASSUME NEW who \in Origins, NEW e \in Events, Begins(who, e) PROVE Goal
    <2>1. CASE file' = file BY <2>1, SameFile
    <2>2. CASE file = <<>> /\ file' = << <<>> >> BY <2>2, NoPlaces, NoPlacesAfter
    <2> QED BY <1>1, <2>1, <2>2 DEF Begins
  <1>2. CASE WriteRecord BY <1>2, RecordWritten, AddedFile
  <1>3. CASE WriteNewline BY <1>3, EndedFile DEF WriteNewline
  <1>4. ASSUME CutShort, file # <<>> PROVE Goal
    <2>1. CASE file' = file BY <2>1, SameFile
    <2>2. CASE stage = "record" /\ \E r \in Records : AddToLastLine(r) /\ r.event = writing[1] BY <2>2, AddedFile
    <2> QED BY <1>4, <2>1, <2>2, CutCases
  <1>5. CASE WriteFails
    <2>1. holder # "none" /\ file # <<>> BY <1>5, WritingTyped DEF WriteFails
    <2>2. CASE writing[1].kind = "started"
      <3>1. file' = <<>> /\ acked = <<>> /\ acked' = <<>> BY <1>5, <2>1, <2>2 DEF WriteFails, LockShape
      <3> QED BY <3>1, NoPlacesAfter
    <2>3. CASE writing[1].kind # "started" BY <1>4, <1>5, <2>1, <2>3 DEF WriteFails
    <2> QED BY <2>2, <2>3
  <1>6. CASE Crash BY <1>4, <1>6 DEF Crash
  <1>7. CASE UNCHANGED <<file, holder, stage, writing, acked>> BY <1>7, SameFile
  <1> QED BY <1>1, <1>2, <1>3, <1>5, <1>6, <1>7, EveryBegin

(* An event whose append returned stays in the file.                       *)
LEMMA AckedKept ==
  ASSUME LogTypeOK, LockShape, FileShape, AckedAreWritten, OrderKept, LogNext
  PROVE  AckedAreWritten'
  <1>1. ASSUME NEW e \in Events, \A p \in Places : Stays(p), InFile(e) PROVE InFile(e)'
    BY <1>1 DEF InFile, Stays
  <1>2. CASE acked' = <<>>
    <2>1. DOMAIN acked' = {} BY <1>2
    <2> QED BY <2>1 DEF AckedAreWritten
  <1>3. CASE (\A p \in Places : Stays(p)) /\ acked' = acked
    BY <1>1, <1>3 DEF AckedAreWritten
  <1>4. CASE WriteNewline
    <2>1. \A p \in Places : Stays(p) BY <1>4, EndedFile DEF WriteNewline
    <2>2. stage = "newline" /\ acked' = Append(acked, writing[1]) BY <1>4 DEF WriteNewline
    <2>3. holder # "none" BY <2>2 DEF LockShape
    <2>4. writing[1] \in Events /\ Len(file) \in DOMAIN file BY <2>3, WritingTyped
    <2>5. InFile(writing[1])
      <3> DEFINE p == <<Len(file), Len(file[Len(file)])>>
      <3>1. file[Len(file)] # <<>> /\ file[Len(file)][Len(file[Len(file)])].event = writing[1]
        BY <2>2 DEF FileShape
      <3>2. Len(file[Len(file)]) \in DOMAIN file[Len(file)] /\ Len(file[Len(file)]) \in Nat
        <4>1. file \in Seq(Seq(Records)) BY DEF LogTypeOK
        <4> HIDE DEF Records
        <4>2. file[Len(file)] \in Seq(Records) BY <2>4, <4>1
        <4> QED BY <3>1, <4>2, EmptySeq
      <3>3. p \in Places BY <2>4, <3>2 DEF Places
      <3>4. EventOf(p) = writing[1] BY <3>1 DEF EventOf
      <3> QED BY <3>3, <3>4 DEF InFile
    <2>6. ASSUME NEW e \in Events, NEW i \in DOMAIN acked', acked'[i] = e PROVE InFile(e)
      <3>1. acked \in Seq(Events) BY DEF LogTypeOK
      <3> HIDE DEF Events
      <3>2. acked' \in Seq(Events) /\ Len(acked') = Len(acked) + 1 /\ acked'[Len(acked) + 1] = writing[1]
            /\ \A j \in 1 .. Len(acked) : acked'[j] = acked[j]
        BY <2>2, <2>4, <3>1, AppendTyped
      <3>3. i \in 1 .. Len(acked) \/ i = Len(acked) + 1 BY <2>6, <3>1, <3>2
      <3>4. CASE i = Len(acked) + 1 BY <2>5, <2>6, <3>2, <3>4
      <3>5. CASE i \in 1 .. Len(acked)
        <4>1. i \in DOMAIN acked /\ acked[i] = e BY <2>6, <3>1, <3>2, <3>5
        <4> QED BY <4>1 DEF AckedAreWritten
      <3> QED BY <3>3, <3>4, <3>5
    <2> QED BY <1>1, <2>1, <2>6 DEF AckedAreWritten
  <1>5. acked' = acked \/ WriteNewline
    BY DEF LogNext, CreateSession, ResumeSession, RpcAppend, WriteRecord, WriteFails, Crash, Emit, BackgroundEvent,
       FlushTake, FlushAppend, FlushRefused, RunReturns
  <1> QED BY <1>2, <1>3, <1>4, <1>5, FileGrows

-----------------------------------------------------------------------------
(* The order of a run's events, from the bus to the file.                  *)

(* How a step changes what the run still has to append.                    *)
NewOnBus(e) == e.origin = "run" /\ e.kind # "started" /\ e.id = created + 1 /\ created' = created + 1
Pending(e) == InQueue(e) \/ InCollector(e)

LEMMA QueuesMove ==
  ASSUME LogTypeOK, LogNext
  PROVE  \/ queue' = queue /\ collector' = collector
         \/ queue' = <<>> /\ collector' = <<>>
         \/ queue' = collector /\ collector' = <<>>
         \/ queue # <<>> /\ queue' = Tail(queue) /\ collector' = collector
         \/ queue' = queue /\ \E e \in Events : NewOnBus(e) /\ collector' = Append(collector, e)
  <1> DEFINE Sent == queue' = queue /\ \E e \in Events : NewOnBus(e) /\ collector' = Append(collector, e)
  <1>1. ASSUME NEW kind \in {"note", "terminal"}, Emit(kind) PROVE Sent
    <2>1. NewEvent(kind, "run") \in Events /\ NewEvent(kind, "run").id = created + 1
          /\ NewEvent(kind, "run").origin = "run" /\ NewEvent(kind, "run").kind = kind
      BY <1>1, EventTyped DEF Emit, Kinds, Origins
    <2>2. PICK e \in Events : e = NewEvent(kind, "run") BY <2>1
    <2>3. NewOnBus(e) BY <1>1, <2>1, <2>2 DEF Emit, NewOnBus
    <2> QED BY <1>1, <2>2, <2>3 DEF Emit
  <1>2. ASSUME BackgroundEvent PROVE Sent
    <2>1. NewEvent("process", "run") \in Events /\ NewEvent("process", "run").id = created + 1
          /\ NewEvent("process", "run").origin = "run" /\ NewEvent("process", "run").kind = "process"
      BY <1>2, EventTyped DEF BackgroundEvent, Kinds, Origins
    <2>2. PICK e \in Events : e = NewEvent("process", "run") BY <2>1
    <2>3. NewOnBus(e) BY <1>2, <2>1, <2>2 DEF BackgroundEvent, NewOnBus
    <2> QED BY <1>2, <2>2, <2>3 DEF BackgroundEvent
  <1> HIDE DEF Sent
  <1>3. \/ Sent
        \/ queue' = queue /\ collector' = collector
        \/ queue' = <<>> /\ collector' = <<>>
        \/ queue' = collector /\ collector' = <<>>
        \/ queue # <<>> /\ queue' = Tail(queue) /\ collector' = collector
    BY <1>1, <1>2
       DEF LogNext, CreateSession, ResumeSession, RpcAppend, WriteRecord, WriteNewline, WriteFails, Crash, EndRun,
           FlushTake, FlushAppend, FlushRefused, RunReturns
  <1> QED BY <1>3 DEF Sent

LEMMA AppendedTo ==
  ASSUME LogTypeOK, NEW e \in Events, collector' = Append(collector, e), NEW d \in Events, InCollector(d)'
  PROVE  InCollector(d) \/ d = e
  <1>1. collector \in Seq(Events) BY DEF LogTypeOK
  <1> HIDE DEF Events
  <1>2. collector' \in Seq(Events) /\ Len(collector') = Len(collector) + 1 /\ collector'[Len(collector) + 1] = e
        /\ \A j \in 1 .. Len(collector) : collector'[j] = collector[j]
    BY <1>1, AppendTyped
  <1>3. PICK i \in DOMAIN collector' : collector'[i] = d BY DEF InCollector
  <1>4. i \in DOMAIN collector \/ i = Len(collector) + 1 BY <1>1, <1>2, <1>3
  <1> QED BY <1>1, <1>2, <1>3, <1>4 DEF InCollector

LEMMA TailOf ==
  ASSUME LogTypeOK, queue # <<>>, queue' = Tail(queue), NEW d \in Events, InQueue(d)'
  PROVE  InQueue(d)
  <1>1. PICK i \in DOMAIN queue' : queue'[i] = d BY DEF InQueue
  <1>2. i + 1 \in DOMAIN queue /\ queue[i + 1] = d BY <1>1, QueueHead DEF LogTypeOK
  <1> QED BY <1>2 DEF InQueue

LEMMA PendingMoves ==
  ASSUME LogTypeOK, LogNext, NEW d \in Events, Pending(d)'
  PROVE  Pending(d) \/ NewOnBus(d)
  <1>1. CASE queue' = queue /\ collector' = collector BY <1>1 DEF Pending, InQueue, InCollector
  <1>2. CASE queue' = <<>> /\ collector' = <<>> BY <1>2 DEF Pending, InQueue, InCollector
  <1>3. CASE queue' = collector /\ collector' = <<>> BY <1>3 DEF Pending, InQueue, InCollector
  <1>4. CASE queue # <<>> /\ queue' = Tail(queue) /\ collector' = collector
    <2>1. InQueue(d)' \/ InCollector(d)' BY DEF Pending
    <2>2. InCollector(d)' => InCollector(d) BY <1>4 DEF InCollector
    <2>3. InQueue(d)' => InQueue(d) BY <1>4, TailOf
    <2> QED BY <2>1, <2>2, <2>3 DEF Pending
  <1>5. CASE queue' = queue /\ \E e \in Events : NewOnBus(e) /\ collector' = Append(collector, e)
    <2>1. PICK e \in Events : NewOnBus(e) /\ collector' = Append(collector, e) BY <1>5
    <2>2. InQueue(d)' \/ InCollector(d)' BY DEF Pending
    <2>3. InQueue(d)' => InQueue(d) BY <1>5 DEF InQueue
    <2>4. InCollector(d)' => InCollector(d) \/ d = e BY <2>1, AppendedTo
    <2> QED BY <2>1, <2>2, <2>3, <2>4 DEF Pending
  <1> QED BY <1>1, <1>2, <1>3, <1>4, <1>5, QueuesMove

LEMMA AscendingKept ==
  ASSUME LogTypeOK, OrderKept, LogNext
  PROVE  Ascending(queue)' /\ Ascending(collector)'
  <1>0. Ascending(queue) /\ Ascending(collector) BY DEF OrderKept
  <1>1. CASE queue' = queue /\ collector' = collector BY <1>0, <1>1 DEF Ascending
  <1>2. CASE queue' = <<>> /\ collector' = <<>> BY <1>2 DEF Ascending
  <1>3. CASE queue' = collector /\ collector' = <<>> BY <1>0, <1>3 DEF Ascending
  <1>4. CASE queue # <<>> /\ queue' = Tail(queue) /\ collector' = collector
    <2>1. queue \in Seq(Events) BY DEF LogTypeOK
    <2>2. \A i \in DOMAIN queue' : i + 1 \in DOMAIN queue /\ queue'[i] = queue[i + 1] /\ i \in Int
      <3>1. DOMAIN queue' = 1 .. Len(queue) - 1
            /\ \A i \in DOMAIN queue' : i + 1 \in DOMAIN queue /\ queue'[i] = queue[i + 1]
        BY <1>4, <2>1, QueueHead
      <3> QED BY <3>1
    <2> HIDE DEF Events
    <2>3. ASSUME NEW i \in DOMAIN queue', NEW j \in DOMAIN queue', i < j PROVE queue'[i].id < queue'[j].id
      <3>1. i + 1 < j + 1 BY <2>2, <2>3
      <3> QED BY <1>0, <2>2, <3>1 DEF Ascending
    <2> QED BY <1>0, <1>4, <2>3 DEF Ascending
  <1>5. CASE queue' = queue /\ \E e \in Events : NewOnBus(e) /\ collector' = Append(collector, e)
    <2>1. PICK e \in Events : NewOnBus(e) /\ collector' = Append(collector, e) BY <1>5
    <2>2. collector \in Seq(Events) /\ created \in Nat BY DEF LogTypeOK
    <2>3. ASSUME NEW i \in DOMAIN collector PROVE collector[i].id < created + 1
      <3>1. PICK d \in Events : d = collector[i]
        <4> HIDE DEF Events
        <4> QED BY <2>2
      <3>2. Fresh(d) BY <3>1 DEF OrderKept, InCollector
      <3>3. d.id \in Nat /\ d.id <= created BY <3>1, <3>2 DEF Events, Fresh
      <3> QED BY <2>2, <3>1, <3>3
    <2> HIDE DEF Events
    <2>4. collector' \in Seq(Events) /\ Len(collector') = Len(collector) + 1 /\ collector'[Len(collector) + 1] = e
          /\ \A j \in 1 .. Len(collector) : collector'[j] = collector[j]
      BY <2>1, <2>2, AppendTyped
    <2>5. DOMAIN collector' = 1 .. Len(collector) + 1 /\ DOMAIN collector = 1 .. Len(collector) /\ Len(collector) \in Nat
      BY <2>2, <2>4
    <2>6. ASSUME NEW i \in DOMAIN collector', NEW j \in DOMAIN collector', i < j
          PROVE  collector'[i].id < collector'[j].id
      <3>1. i \in DOMAIN collector BY <2>5, <2>6
      <3>2. CASE j \in DOMAIN collector BY <1>0, <2>4, <2>5, <2>6, <3>1, <3>2 DEF Ascending
      <3>3. CASE j = Len(collector) + 1
        <4>1. collector'[j].id = created + 1 BY <2>1, <2>4, <3>3 DEF NewOnBus
        <4>2. collector'[i].id = collector[i].id BY <2>4, <2>5, <3>1
        <4> QED BY <2>3, <3>1, <4>1, <4>2
      <3>4. j \in DOMAIN collector \/ j = Len(collector) + 1 BY <2>5
      <3> QED BY <3>2, <3>3, <3>4
    <2> QED BY <1>0, <1>5, <2>6 DEF Ascending
  <1> QED BY <1>1, <1>2, <1>3, <1>4, <1>5, QueuesMove

(* Nothing of a run in the file gets as new as x if the event in writing   *)
(* is not.                                                                 *)
LEMMA BelowKept ==
  ASSUME LogTypeOK, LockShape, OrderKept, LogNext, NEW x \in Nat, FileBelow(x),
         holder = "run" /\ stage = "record" => writing[1].id < x
  PROVE  FileBelow(x)'
  <1>1. ASSUME NEW p \in Places', (EventOf(p)').origin = "run" PROVE (EventOf(p)').id < x
    <2>1. CASE Old(p) BY <1>1, <2>1 DEF Old, FileBelow
    <2>2. CASE JustWritten(p) BY <1>1, <2>2 DEF JustWritten, LockShape
    <2> QED BY <2>1, <2>2, FileGrows
  <1> QED BY <1>1 DEF FileBelow

LEMMA LinesOrdered ==
  ASSUME LogTypeOK, LockShape, OrderKept, LogNext, NEW p \in Places', NEW q \in Places', p[1] < q[1],
         (EventOf(p)').origin = "run", (EventOf(q)').origin = "run"
  PROVE  (EventOf(p)').id < (EventOf(q)').id
  <1>0. Len(file) \in Nat
    <2>1. file \in Seq(Seq(Records)) BY DEF LogTypeOK
    <2> HIDE DEF Records
    <2> QED BY <2>1
  <1>1. CASE Old(p) /\ Old(q) BY <1>1 DEF Old, OrderKept
  <1>2. CASE Old(p) /\ JustWritten(q)
    <2>1. EventOf(q)' = writing[1] /\ holder # "none" /\ stage = "record" BY <1>2 DEF JustWritten
    <2>2. writing[1] \in Events /\ InWriting(writing[1]) BY <2>1, WritingTyped DEF LockShape, InWriting
    <2>3. FileBelow(writing[1].id) BY <2>1, <2>2 DEF OrderKept
    <2> QED BY <1>2, <2>1, <2>3 DEF FileBelow, Old
  <1>3. CASE JustWritten(p)
    <2>1. p[1] = Len(file) /\ (Old(q) \/ q[1] = Len(file)) BY <1>3, FileGrows DEF JustWritten
    <2>2. q[1] \in Nat /\ q[1] <= Len(file) BY <1>0, <2>1, PlaceTyped DEF Old
    <2> QED BY <1>0, <2>1, <2>2
  <1> QED BY <1>1, <1>2, <1>3, FileGrows

LEMMA Numbers ==
  ASSUME LogTypeOK, LogNext
  PROVE  created \in Nat /\ created' \in Nat /\ created <= created' /\ \A e \in Events : e.id \in Nat
  BY CountsTyped DEF LogTypeOK, Events

LEMMA WritingBound ==
  ASSUME LogTypeOK, LockShape, NEW e \in Events, InWriting(e)
  PROVE  e.id <= created /\ writing[1] = e /\ holder = "run"
  BY DEF InWriting, LockShape

LEMMA FreshKept ==
  ASSUME LogTypeOK, LockShape, OrderKept, LogNext, NEW d \in Events, Pending(d)'
  PROVE  Fresh(d)'
  <1>0. created \in Nat /\ created' \in Nat /\ created <= created' /\ d.id \in Nat BY Numbers
  <1>1. CASE Pending(d)
    <2>1. Fresh(d) BY <1>1 DEF Pending, OrderKept
    <2>2. holder = "run" => writing[1].id < d.id
      <3> SUFFICES ASSUME holder = "run" PROVE writing[1].id < d.id OBVIOUS
      <3>1. writing[1] \in Events BY WritingTyped
      <3>2. InWriting(writing[1]) BY DEF InWriting
      <3> QED BY <1>1, <3>1, <3>2 DEF OrderKept, Pending
    <2>3. FileBelow(d.id)' BY <1>0, <2>1, <2>2, BelowKept DEF Fresh
    <2> QED BY <1>0, <2>1, <2>3 DEF Fresh
  <1>2. CASE NewOnBus(d)
    <2>1. FileBelow(d.id) BY <1>2 DEF OrderKept, NewOnBus
    <2>2. holder = "run" => writing[1].id < d.id
      <3> SUFFICES ASSUME holder = "run" PROVE writing[1].id < d.id OBVIOUS
      <3>1. writing[1] \in Events BY WritingTyped
      <3>2. writing[1].id <= created /\ writing[1].id \in Nat BY <3>1, Numbers DEF LockShape
      <3> QED BY <1>0, <1>2, <3>2 DEF NewOnBus
    <2>3. FileBelow(d.id)' BY <1>0, <2>1, <2>2, BelowKept
    <2>4. d.id <= created' BY <1>0, <1>2 DEF NewOnBus
    <2> QED BY <1>2, <2>3, <2>4 DEF Fresh, NewOnBus
  <1> QED BY <1>1, <1>2, PendingMoves

LEMMA ChainKept ==
  ASSUME LogTypeOK, LockShape, OrderKept, LogNext, NEW e \in Events, NEW d \in Events
  PROVE  /\ (InWriting(e) /\ Pending(d))' => e.id < d.id
         /\ (InQueue(e) /\ InCollector(d))' => e.id < d.id
  <1>0. created \in Nat /\ e.id \in Nat /\ d.id \in Nat BY Numbers
  <1>1. ASSUME InWriting(e)', Pending(d)' PROVE e.id < d.id
    <2>1. ASSUME NEW who \in Origins, NEW b \in Events, Begins(who, b) PROVE e.id < d.id
      <3>1. holder' = who /\ writing'[1] = b BY <2>1, BeginTyped DEF Begins
      <3>2. who = "run" /\ b = e BY <1>1, <3>1 DEF InWriting
      <3> QED BY <1>1, <2>1, <3>2 DEF Begins, Pending
    <2>2. CASE InWriting(e)
      <3>1. CASE Pending(d) BY <2>2, <3>1 DEF Pending, OrderKept
      <3>2. CASE NewOnBus(d)
        <4>1. e.id <= created BY <2>2, WritingBound
        <4> QED BY <1>0, <3>2, <4>1 DEF NewOnBus
      <3> QED BY <1>1, <3>1, <3>2, PendingMoves
    <2>3. WriteRecord \/ UNCHANGED <<holder, writing>> => InWriting(e) BY <1>1 DEF InWriting, WriteRecord
    <2>4. ~ReleaseLock BY <1>1 DEF InWriting, ReleaseLock
    <2> QED BY <2>1, <2>2, <2>3, <2>4, EveryBegin DEF WriteNewline, WriteFails, Crash
  <1>2. ASSUME InQueue(e)', InCollector(d)' PROVE e.id < d.id
    <2>1. CASE queue' = queue /\ collector' = collector BY <1>2, <2>1 DEF InQueue, InCollector, OrderKept
    <2>2. CASE collector' = <<>> BY <1>2, <2>2 DEF InCollector
    <2>3. CASE queue # <<>> /\ queue' = Tail(queue) /\ collector' = collector
      <3>1. InQueue(e) BY <1>2, <2>3, TailOf
      <3>2. InCollector(d) BY <1>2, <2>3 DEF InCollector
      <3> QED BY <3>1, <3>2 DEF OrderKept
    <2>4. CASE queue' = queue /\ \E b \in Events : NewOnBus(b) /\ collector' = Append(collector, b)
      <3>1. PICK b \in Events : NewOnBus(b) /\ collector' = Append(collector, b) BY <2>4
      <3>2. InQueue(e) BY <1>2, <2>4 DEF InQueue
      <3>3. InCollector(d) \/ d = b BY <1>2, <3>1, AppendedTo
      <3>4. CASE InCollector(d) BY <3>2, <3>4 DEF OrderKept
      <3>5. CASE d = b
        <4>1. e.id <= created BY <3>2 DEF OrderKept, Fresh
        <4> QED BY <1>0, <3>1, <3>5, <4>1 DEF NewOnBus
      <3> QED BY <3>3, <3>4, <3>5
    <2> QED BY <2>1, <2>2, <2>3, <2>4, QueuesMove
  <1> QED BY <1>1, <1>2

LEMMA NextNumber == ASSUME NEW n \in Nat PROVE n + 1 \in Nat
  OBVIOUS

LEMMA OrderIsKept ==
  ASSUME LogTypeOK, LockShape, OrderKept, LogNext
  PROVE  OrderKept'
  <1>0. created \in Nat /\ created' \in Nat /\ created <= created' /\ \A e \in Events : e.id \in Nat BY Numbers
  <1>1. \A p, q \in Places' : p[1] < q[1] /\ (EventOf(p)').origin = "run" /\ (EventOf(q)').origin = "run"
           => (EventOf(p)').id < (EventOf(q)').id
    BY LinesOrdered
  <1>2. FileBelow(created + 1)'
    <2>0. created' + 1 \in Nat BY <1>0, NextNumber, Zenon
    <2>1. PICK x \in Nat : x = created' + 1 BY <2>0, Zenon
    <2>2. ASSUME NEW p \in Places, EventOf(p).origin = "run" PROVE EventOf(p).id < x
      <3>1. EventOf(p).id \in Nat BY <1>0, PlaceTyped
      <3>2. FileBelow(created + 1) BY DEF OrderKept
      <3>3. EventOf(p).id < created + 1 BY <2>2, <3>2 DEF FileBelow
      <3> QED BY <1>0, <2>1, <3>1, <3>3
    <2>3. holder = "run" => writing[1].id < x
      <3> SUFFICES ASSUME holder = "run" PROVE writing[1].id < x OBVIOUS
      <3>1. writing[1] \in Events BY WritingTyped
      <3>2. writing[1].id <= created /\ writing[1].id \in Nat BY <1>0, <3>1 DEF LockShape
      <3> QED BY <1>0, <2>1, <3>2
    <2>4. FileBelow(x) BY <2>2 DEF FileBelow
    <2>5. FileBelow(x)' BY <2>3, <2>4, BelowKept
    <2> QED BY <2>1, <2>5 DEF FileBelow
  <1>3. ASSUME stage' = "record", NEW e \in Events, InWriting(e)' PROVE FileBelow(e.id)'
    <2>1. ASSUME NEW who \in Origins, NEW b \in Events, Begins(who, b) PROVE FileBelow(e.id)'
      <3>1. holder' = who /\ writing'[1] = b /\ holder = "none" BY <2>1, BeginTyped DEF Begins
      <3>2. who = "run" /\ b = e BY <1>3, <3>1 DEF InWriting
      <3>3. FileBelow(e.id) BY <2>1, <3>2 DEF Begins
      <3> QED BY <1>0, <3>1, <3>3, BelowKept
    <2>2. CASE UNCHANGED <<file, holder, stage, writing, acked>>
      <3>1. FileBelow(e.id) BY <1>3, <2>2 DEF OrderKept, InWriting
      <3> QED BY <2>2, <3>1 DEF FileBelow, Places, EventOf
    <2>3. ~WriteRecord /\ ~ReleaseLock BY <1>3 DEF WriteRecord, ReleaseLock
    <2> QED BY <2>1, <2>2, <2>3, EveryBegin DEF WriteNewline, WriteFails, Crash
  <1>4. Ascending(queue)' /\ Ascending(collector)' BY AscendingKept
  <1>5. \A e \in Events : (InQueue(e) \/ InCollector(e))' => Fresh(e)' BY FreshKept DEF Pending
  <1>6. \A e, d \in Events : /\ (InWriting(e) /\ (InQueue(d) \/ InCollector(d)))' => e.id < d.id
                             /\ (InQueue(e) /\ InCollector(d))' => e.id < d.id
    BY ChainKept DEF Pending
  <1>7. run' \in {"none", "opening"} => queue' = <<>> /\ collector' = <<>>
    BY DEF LogNext, CreateSession, ResumeSession, RpcAppend, WriteRecord, WriteNewline, WriteFails, Crash, EndRun,
           Emit, BackgroundEvent, FlushTake, FlushAppend, FlushRefused, RunReturns, OrderKept
  <1> QED BY <1>1, <1>2, <1>3, <1>4, <1>5, <1>6, <1>7 DEF OrderKept

LEMMA LogInvHolds == LogSpec => []LogInv
  <1>1. LogInit => LogInv
    <2> SUFFICES ASSUME LogInit PROVE LogInv OBVIOUS
    <2> USE DEF LogInit
    <2>1. LogTypeOK
      <3>1. created \in 0 .. MaxEvents /\ faults \in 0 .. MaxFaults BY LogAssumption
      <3>2. file \in Seq(Seq(Records)) /\ writing \in Seq(Events) /\ collector \in Seq(Events)
            /\ queue \in Seq(Events) /\ acked \in Seq(Events) /\ Len(writing) = 0
        BY EmptyTyped
      <3> HIDE DEF Events, Records
      <3>3. Len(writing) <= 1 BY <3>2
      <3> QED BY <3>1, <3>2, <3>3 DEF LogTypeOK
    <2>2. LockShape BY DEF LockShape
    <2>3. DOMAIN file = {} /\ DOMAIN queue = {} /\ DOMAIN collector = {} /\ DOMAIN acked = {} OBVIOUS
    <2>4. Places = {} BY NoPlaces
    <2>5. FileShape BY <2>3 DEF FileShape
    <2>6. AckedAreWritten BY <2>3 DEF AckedAreWritten
    <2>7. OrderKept BY <2>3, <2>4 DEF OrderKept, FileBelow, Ascending, InWriting, InQueue, InCollector
    <2> QED BY <2>1, <2>2, <2>5, <2>6, <2>7 DEF LogInv
  <1>2. LogInv /\ [LogNext]_logVars => LogInv'
    <2> SUFFICES ASSUME LogInv, [LogNext]_logVars PROVE LogInv' OBVIOUS
    <2> USE DEF LogInv
    <2>1. CASE LogNext BY <2>1, LogTypesKept, LockKept, ShapeKept, AckedKept, OrderIsKept
    <2>2. CASE UNCHANGED logVars
      <3> USE <2>2 DEF logVars
      <3>1. LogTypeOK'
        <4> HIDE DEF Events, Records
        <4> QED BY DEF LogTypeOK
      <3>2. LockShape' BY DEF LockShape
      <3>3. FileShape' BY DEF FileShape, Whole, Parses
      <3>4. AckedAreWritten' BY DEF AckedAreWritten, InFile, Places, EventOf
      <3>5. OrderKept'
        BY DEF OrderKept, Places, EventOf, FileBelow, InWriting, InQueue, InCollector, Fresh, Ascending
      <3> QED BY <3>1, <3>2, <3>3, <3>4, <3>5
    <2> QED BY <2>1, <2>2
  <1> QED BY <1>1, <1>2, PTL DEF LogSpec

(* Where only the last written line is damaged, an event that is in the    *)
(* file is loaded, unless the load warns.                                  *)
LEMMA WrittenLines ==
  ASSUME LogTypeOK, FileShape, NEW i \in Written, ~Whole(i)
  PROVE  IsLast(i)
  <1>1. file \in Seq(Seq(Records)) BY DEF LogTypeOK
  <1> HIDE DEF Records
  <1>2. DOMAIN file = 1 .. Len(file) /\ Len(file) \in Nat BY <1>1
  <1>3. i \in DOMAIN file /\ file[i] # <<>> BY DEF Written
  <1>4. i + 1 >= Len(file) BY <1>2, <1>3 DEF FileShape
  <1>5. ASSUME NEW j \in Written PROVE j <= i
    <2>1. j \in DOMAIN file /\ file[j] # <<>> BY DEF Written
    <2>2. j > i => j = Len(file) /\ i + 1 = Len(file) BY <1>2, <1>3, <1>4, <2>1
    <2>3. ~(j = Len(file) /\ i + 1 = Len(file)) BY <1>3, <2>1 DEF FileShape
    <2>4. i \in Nat /\ j \in Nat BY <1>2, <1>3, <2>1
    <2> QED BY <2>2, <2>3, <2>4
  <1> QED BY <1>5 DEF IsLast

LEMMA LogInvImplies ==
  ASSUME LogInv
  PROVE  HistoryIsKept
  <1> USE DEF LogInv
  <1>1. DamageOnlyAtEnd BY WrittenLines DEF DamageOnlyAtEnd, Damaged, Whole
  <1>2. ASSUME NEW i \in Loaded PROVE <<i, 1>> \in Places /\ EventOf(<<i, 1>>) = EventAt(i) /\ i \in Nat
    <2>1. file \in Seq(Seq(Records)) BY DEF LogTypeOK
    <2> HIDE DEF Records
    <2>2. i \in DOMAIN file /\ Len(file[i]) = 1 BY DEF Loaded, Written, Parses
    <2>3. file[i] \in Seq(Records) /\ i \in Nat BY <2>1, <2>2
    <2>4. 1 \in DOMAIN file[i] BY <2>2, <2>3
    <2> QED BY <2>2, <2>3, <2>4 DEF Places, EventOf, EventAt
  <1>3. NoSilentLoss
    <2> SUFFICES ASSUME ~Warned, NEW k \in DOMAIN acked PROVE \E i \in Loaded : EventAt(i) = acked[k]
      BY DEF NoSilentLoss
    <2>1. acked[k] \in Events
      <3>1. acked \in Seq(Events) BY DEF LogTypeOK
      <3> HIDE DEF Events
      <3> QED BY <3>1
    <2>2. PICK p \in Places : EventOf(p) = acked[k] BY <2>1 DEF AckedAreWritten, InFile
    <2>3. p[1] \in DOMAIN file /\ p[2] \in DOMAIN file[p[1]] BY DEF Places
    <2>4. file[p[1]] # <<>> BY <2>3
    <2>5. p[1] \in Written BY <2>3, <2>4 DEF Written
    <2>6. Whole(p[1]) BY <2>5, WrittenLines DEF Warned, Whole
    <2>7. p[1] \in Loaded /\ Len(file[p[1]]) = 1 BY <2>5, <2>6 DEF Loaded, Whole, Parses
    <2>8. p[2] = 1
      <3>1. file \in Seq(Seq(Records)) BY DEF LogTypeOK
      <3> HIDE DEF Records
      <3>2. file[p[1]] \in Seq(Records) BY <2>3, <3>1
      <3> QED BY <2>3, <2>7, <3>2
    <2> QED BY <2>2, <2>7, <2>8 DEF EventOf, EventAt
  <1>4. HistoryInOrder
    <2> SUFFICES ASSUME NEW i \in Loaded, NEW j \in Loaded, i < j,
                        EventAt(i).origin = "run", EventAt(j).origin = "run"
                 PROVE  EventAt(i).id < EventAt(j).id
      BY DEF HistoryInOrder
    <2>1. PICK p \in Places : p = <<i, 1>> BY <1>2
    <2>2. PICK q \in Places : q = <<j, 1>> BY <1>2
    <2>3. p[1] = i /\ q[1] = j /\ EventOf(p) = EventAt(i) /\ EventOf(q) = EventAt(j) BY <1>2, <2>1, <2>2
    <2> QED BY <2>3 DEF OrderKept
  <1> QED BY <1>1, <1>3, <1>4 DEF HistoryIsKept

(* The session log: whatever crashes, failed writes and other appends do,  *)
(* damage stays in the last line, an event whose append returned is loaded *)
(* or the load warns, and a run's events are read in the order of the bus  *)
(* (append_event, read_events, flush).                                     *)
THEOREM HistoryKept == LogSpec => []HistoryIsKept
  <1>1. LogInv => HistoryIsKept BY LogInvImplies
  <1> QED BY <1>1, LogInvHolds, PTL

-----------------------------------------------------------------------------
(***************************************************************************)
(* CHECKPOINTS AND UNDO.                                                   *)
(***************************************************************************)
(* A call of undo, by where it is: what it has loaded is whole, and the    *)
(* worktree is as the call has found and left it, but for what others have *)
(* written since.                                                          *)
SoundFor(c, w) == c \in CheckpointFiles /\ c.state = "whole" /\ c.baseline = [f \in Listed |-> w[f]]
Calls == [pc : {"idle", "check", "write", "conflict", "restored"}, id : 0 .. MaxRuns,
          checkpoint : CheckpointFiles, todo : SUBSET Files, conflicts : SUBSET Files,
          before : Partial, disturbed : SUBSET Files]
Undisturbed(r, t) ==
  \A f \in Files \ r.disturbed :
    LET recorded == f \in DOMAIN r.checkpoint.recorded IN
    /\ r.pc \in {"check", "conflict"} \/ ~recorded => t[f] = r.before[f]
    /\ r.pc = "check" /\ recorded /\ f \notin r.todo \cup r.conflicts => t[f] = r.checkpoint.recorded[f]
    /\ r.pc = "write" /\ recorded /\ f \in r.todo => t[f] = r.checkpoint.recorded[f]
    /\ r.pc \in {"write", "restored"} /\ recorded /\ f \notin r.todo => t[f] = Baseline(r.checkpoint, f)
CallFits(r, t, o, n) ==
  /\ r \in Calls
  /\ r.todo \cup r.conflicts \subseteq DOMAIN r.checkpoint.recorded
  /\ r.pc = "idle" => r = NoUndo
  /\ r.pc = "restored" => r.todo = {}
  /\ r.pc # "idle" => r.id \in 1 .. n /\ SoundFor(r.checkpoint, o[r.id]) /\ Undisturbed(r, t)

Basics ==
  /\ tree \in [Files -> Contents] /\ first \in [Files -> Contents]
  /\ runs \in 0 .. MaxRuns /\ edits \in 0 .. MaxEdits
  /\ others \in 0 .. MaxOthers /\ undos \in 0 .. MaxUndos
  /\ origin \in [Ids -> [Files -> Contents]]
  /\ live \in [Ids -> SUBSET Files] /\ meddled \subseteq Files
DiskFits ==
  /\ disk \in [Ids -> CheckpointFiles]
  /\ \A k \in Ids : /\ disk[k].state = "whole" => SoundFor(disk[k], origin[k])
                    /\ k > runs => disk[k].state = "missing" /\ live[k] = {}
ActiveFits ==
  /\ active \in [pc : {"idle", "persist", "ready", "record"}, id : 0 .. MaxRuns,
                 todo : SUBSET Files, memory : CheckpointFiles]
  /\ active.pc = "idle" => active = NoRun
  /\ active.pc # "idle" => active.id = runs /\ active.id \in Ids
  /\ active.pc = "ready" => active.todo = {}
  /\ active.pc = "persist" => SoundFor(active.memory, origin[active.id])
  /\ active.pc \in {"ready", "record"} => disk[active.id].state = "whole"
CallsFit == undo = [u \in Undoers |-> undo[u]] /\ \A u \in Undoers : CallFits(undo[u], tree, origin, runs)

(* What a file f holds when of the runs that edited it those of H stand:   *)
(* what the newest of them has recorded, or its first content z.           *)
RecordedBy == [k \in Ids |-> RecordOf(k).recorded]
ActiveIds == IF active.pc = "idle" THEN {} ELSE {active.id}
Top(H, f, z, R) == IF H = {} THEN z ELSE R[Newest(H)][f]
Under(H, k) == {j \in H : j < k}
Stacked(f, c, z, H, A, o, R, D) ==
  /\ \A k \in H : f \in DOMAIN R[k]
  /\ \A k \in H \cup A : o[k][f] = Top(Under(H, k), f, z, R)
  /\ f \notin D => c = Top(H, f, z, R)
StackFits ==
  \A f \in Files \ meddled :
    Stacked(f, tree[f], first[f], Holders(f), ActiveIds, origin, RecordedBy, active.todo)

UndoInv == Basics /\ DiskFits /\ ActiveFits /\ CallsFit /\ StackFits

-----------------------------------------------------------------------------
(* Lemmas about the data of checkpoints.                                   *)
LEMMA PartialTyped ==
  ASSUME NEW p \in Partial
  PROVE  DOMAIN p \in SUBSET Files /\ p \in [DOMAIN p -> Contents] /\ \A f \in DOMAIN p : p[f] \in Contents
  <1>1. PICK S \in SUBSET Files : p \in [S -> Contents] BY DEF Partial
  <1> HIDE DEF Contents
  <1> QED BY <1>1

LEMMA IsPartial ==
  ASSUME NEW S \in SUBSET Files, NEW p \in [S -> Contents]
  PROVE  p \in Partial
  BY DEF Partial

LEMMA Constants ==
  /\ Absent \in Contents /\ Torn \in Contents /\ Large \in Contents /\ Original \in Contents
  /\ Missing \in CheckpointFiles /\ Missing.state = "missing" /\ DOMAIN Missing.recorded = {}
  /\ TornFile \in CheckpointFiles /\ TornFile.state = "torn" /\ DOMAIN TornFile.recorded = {}
  /\ NoUndo \in Calls /\ NoUndo.pc = "idle" /\ NoUndo.todo = {} /\ NoUndo.conflicts = {} /\ NoUndo.disturbed = {}
  /\ NoUndo.checkpoint = Missing
  <1>1. Absent \in Contents /\ Torn \in Contents /\ Large \in Contents /\ Original \in Contents BY DEF Contents
  <1>2. Empty \in [{} -> Contents] /\ DOMAIN Empty = {} BY DEF Empty
  <1>3. Empty \in Partial BY <1>2, IsPartial
  <1>4. /\ Missing \in CheckpointFiles /\ Missing.state = "missing" /\ DOMAIN Missing.recorded = {}
        /\ TornFile \in CheckpointFiles /\ TornFile.state = "torn" /\ DOMAIN TornFile.recorded = {}
    <2> HIDE DEF Partial, Empty
    <2> QED BY <1>2, <1>3 DEF Missing, TornFile, CheckpointFiles
  <1>5. 0 \in 0 .. MaxRuns BY CheckpointAssumption
  <1>6. /\ NoUndo \in Calls /\ NoUndo.pc = "idle" /\ NoUndo.todo = {} /\ NoUndo.conflicts = {}
        /\ NoUndo.disturbed = {} /\ NoUndo.checkpoint = Missing
    <2> HIDE DEF Partial, Empty, Missing, CheckpointFiles
    <2> QED BY <1>3, <1>4, <1>5 DEF NoUndo, Calls
  <1> QED BY <1>1, <1>4, <1>6

LEMMA CheckpointTyped ==
  ASSUME NEW c \in CheckpointFiles
  PROVE  /\ c.state \in {"missing", "torn", "whole"} /\ c.baseline \in Partial /\ c.recorded \in Partial
         /\ DOMAIN c.recorded \in SUBSET Files /\ \A f \in DOMAIN c.recorded : c.recorded[f] \in Contents
         /\ \A f \in Files : Baseline(c, f) \in Contents
  <1>1. c.state \in {"missing", "torn", "whole"} /\ c.baseline \in Partial /\ c.recorded \in Partial
    <2> HIDE DEF Partial
    <2> QED BY DEF CheckpointFiles
  <1>2. \A f \in DOMAIN c.baseline : c.baseline[f] \in Contents BY <1>1, PartialTyped
  <1>3. DOMAIN c.recorded \in SUBSET Files /\ \A f \in DOMAIN c.recorded : c.recorded[f] \in Contents
    BY <1>1, PartialTyped
  <1>4. \A f \in Files : Baseline(c, f) \in Contents BY <1>2, Constants DEF Baseline
  <1> QED BY <1>1, <1>3, <1>4

(* A file listed, or absent when the checkpoint was created, comes back.   *)
LEMMA BaselineIsOrigin ==
  ASSUME NEW c, NEW w, SoundFor(c, w), NEW f \in Files, f \in Listed \/ w[f] = Absent
  PROVE  Baseline(c, f) = w[f]
  BY DEF SoundFor, Baseline

LEMMA RecordTypes ==
  ASSUME NEW p \in Partial, NEW f \in Files, NEW c \in Contents
  PROVE  [g \in DOMAIN p \cup {f} |-> IF g = f THEN c ELSE p[g]] \in Partial
  <1>1. DOMAIN p \in SUBSET Files /\ \A g \in DOMAIN p : p[g] \in Contents BY PartialTyped
  <1>2. DOMAIN p \cup {f} \in SUBSET Files BY <1>1
  <1> HIDE DEF Partial, Contents
  <1>3. [g \in DOMAIN p \cup {f} |-> IF g = f THEN c ELSE p[g]] \in [DOMAIN p \cup {f} -> Contents] BY <1>1
  <1> QED BY <1>2, <1>3, IsPartial

-----------------------------------------------------------------------------
(* A call of undo, while others and the call itself change what it relates.*)
LEMMA CallTyped ==
  ASSUME NEW r \in Calls
  PROVE  /\ r.pc \in {"idle", "check", "write", "conflict", "restored"} /\ r.id \in 0 .. MaxRuns
         /\ r.checkpoint \in CheckpointFiles /\ r.todo \in SUBSET Files /\ r.conflicts \in SUBSET Files
         /\ r.before \in Partial /\ r.disturbed \in SUBSET Files
         /\ r = [pc |-> r.pc, id |-> r.id, checkpoint |-> r.checkpoint, todo |-> r.todo,
                 conflicts |-> r.conflicts, before |-> r.before, disturbed |-> r.disturbed]
  <1> HIDE DEF CheckpointFiles, Partial
  <1> QED BY DEF Calls

LEMMA IdleFits ==
  ASSUME NEW t, NEW o, NEW n
  PROVE  CallFits(NoUndo, t, o, n)
  <1> HIDE DEF Calls
  <1> QED BY Constants DEF CallFits

LEMMA CallDisturbed ==
  ASSUME NEW r, NEW t, NEW s, NEW o, NEW n, CallFits(r, t, o, n), r.pc # "idle",
         NEW F \in SUBSET Files, \A f \in Files \ F : s[f] = t[f]
  PROVE  CallFits([r EXCEPT !.disturbed = @ \cup F], s, o, n)
  <1> DEFINE d == [r EXCEPT !.disturbed = @ \cup F]
  <1>1. r \in Calls BY DEF CallFits
  <1>2. /\ d \in Calls /\ d.disturbed = r.disturbed \cup F /\ d.pc = r.pc /\ d.id = r.id
        /\ d.checkpoint = r.checkpoint /\ d.todo = r.todo /\ d.conflicts = r.conflicts /\ d.before = r.before
    <2> HIDE DEF CheckpointFiles, Partial
    <2> QED BY <1>1 DEF Calls
  <1> HIDE DEF d, Calls
  <1>3. Undisturbed(r, t) BY DEF CallFits
  <1>4. Undisturbed(d, s)
    <2> SUFFICES ASSUME NEW f \in Files \ d.disturbed
                 PROVE  LET recorded == f \in DOMAIN d.checkpoint.recorded IN
                        /\ d.pc \in {"check", "conflict"} \/ ~recorded => s[f] = d.before[f]
                        /\ d.pc = "check" /\ recorded /\ f \notin d.todo \cup d.conflicts => s[f] = d.checkpoint.recorded[f]
                        /\ d.pc = "write" /\ recorded /\ f \in d.todo => s[f] = d.checkpoint.recorded[f]
                        /\ d.pc \in {"write", "restored"} /\ recorded /\ f \notin d.todo => s[f] = Baseline(d.checkpoint, f)
      BY DEF Undisturbed
    <2>1. f \in Files \ r.disturbed /\ s[f] = t[f] BY <1>2
    <2> QED BY <1>2, <1>3, <2>1 DEF Undisturbed
  <1>5. CallFits(d, s, o, n) BY <1>2, <1>4 DEF CallFits
  <1> QED BY <1>5 DEF d

LEMMA CallAges ==
  ASSUME NEW r, NEW t, NEW o, NEW q, NEW n \in Nat, NEW m \in Nat, CallFits(r, t, o, n), n <= m,
         \A k \in 1 .. n : q[k] = o[k]
  PROVE  CallFits(r, t, q, m)
  <1>1. r.pc # "idle" => r.id \in 1 .. n /\ r.id \in 1 .. m /\ q[r.id] = o[r.id] BY DEF CallFits
  <1> HIDE DEF Calls
  <1> QED BY <1>1 DEF CallFits

(* What a step does to a call: nothing, disturb it, or end it.             *)
LEMMA CallGoesOn ==
  ASSUME NEW r, NEW d, NEW t, NEW s, NEW o, NEW n, CallFits(r, t, o, n), NEW F \in SUBSET Files,
         d = IF r.pc # "idle" THEN [r EXCEPT !.disturbed = @ \cup F] ELSE r,
         \A f \in Files \ F : s[f] = t[f]
  PROVE  CallFits(d, s, o, n)
  <1>1. CASE r.pc # "idle" BY <1>1, CallDisturbed
  <1>2. CASE r.pc = "idle"
    <2>1. r = NoUndo BY <1>2 DEF CallFits
    <2>2. CallFits(r, s, o, n) BY <2>1, IdleFits
    <2> QED BY <1>2, <2>2
  <1> QED BY <1>1, <1>2

LEMMA CallLoads ==
  ASSUME NEW c \in CheckpointFiles, NEW t \in [Files -> Contents], NEW o, NEW n \in Nat, NEW k \in 1 .. n,
         n <= MaxRuns, SoundFor(c, o[k])
  PROVE  CallFits([NoUndo EXCEPT !.pc = "check", !.id = k, !.checkpoint = c,
                                 !.todo = DOMAIN c.recorded, !.before = t], t, o, n)
  <1> DEFINE d == [NoUndo EXCEPT !.pc = "check", !.id = k, !.checkpoint = c,
                                 !.todo = DOMAIN c.recorded, !.before = t]
  <1>1. t \in Partial BY IsPartial
  <1>2. DOMAIN c.recorded \in SUBSET Files BY CheckpointTyped
  <1>3. NoUndo \in Calls /\ NoUndo.conflicts = {} /\ NoUndo.disturbed = {} BY Constants
  <1>4. k \in 0 .. MaxRuns BY CheckpointAssumption
  <1>5. /\ d \in Calls /\ d.pc = "check" /\ d.id = k /\ d.checkpoint = c /\ d.todo = DOMAIN c.recorded
        /\ d.before = t /\ d.conflicts = {} /\ d.disturbed = {}
    <2> HIDE DEF CheckpointFiles, Partial, NoUndo
    <2> QED BY <1>1, <1>2, <1>3, <1>4 DEF Calls
  <1> HIDE DEF d, Calls
  <1>6. Undisturbed(d, t) BY <1>5 DEF Undisturbed
  <1>7. CallFits(d, t, o, n) BY <1>5, <1>6 DEF CallFits
  <1> QED BY <1>7 DEF d

LEMMA CallChecks ==
  ASSUME NEW r, NEW t, NEW o, NEW n, CallFits(r, t, o, n), r.pc = "check", NEW f \in r.todo
  PROVE  CallFits([r EXCEPT !.todo = @ \ {f}, !.conflicts = IF t[f] = r.checkpoint.recorded[f] THEN @ ELSE @ \cup {f}],
                  t, o, n)
  <1> DEFINE hit == t[f] = r.checkpoint.recorded[f]
             d == [r EXCEPT !.todo = @ \ {f}, !.conflicts = IF hit THEN @ ELSE @ \cup {f}]
  <1>1. r \in Calls /\ r.todo \cup r.conflicts \subseteq DOMAIN r.checkpoint.recorded /\ f \in Files
    BY CallTyped DEF CallFits
  <1>2. /\ d \in Calls /\ d.pc = "check" /\ d.id = r.id /\ d.checkpoint = r.checkpoint /\ d.todo = r.todo \ {f}
        /\ d.before = r.before /\ d.disturbed = r.disturbed
        /\ d.conflicts = IF hit THEN r.conflicts ELSE r.conflicts \cup {f}
    <2> HIDE DEF CheckpointFiles, Partial, hit
    <2> QED BY <1>1 DEF Calls
  <1> HIDE DEF d, Calls
  <1>3. Undisturbed(r, t) BY DEF CallFits
  <1>4. Undisturbed(d, t) BY <1>2, <1>3 DEF Undisturbed
  <1>5. CallFits(d, t, o, n) BY <1>1, <1>2, <1>4 DEF CallFits
  <1> QED BY <1>5 DEF d

LEMMA CallDecides ==
  ASSUME NEW r, NEW t, NEW o, NEW n, CallFits(r, t, o, n), r.pc = "check", r.todo = {}
  PROVE  /\ r.conflicts = {} => CallFits([r EXCEPT !.pc = "write", !.todo = DOMAIN r.checkpoint.recorded], t, o, n)
         /\ r.conflicts # {} => CallFits([r EXCEPT !.pc = "conflict", !.todo = {}], t, o, n)
  <1>1. r \in Calls /\ DOMAIN r.checkpoint.recorded \in SUBSET Files
        /\ r.conflicts \subseteq DOMAIN r.checkpoint.recorded
    BY CallTyped, CheckpointTyped DEF CallFits
  <1>2. Undisturbed(r, t) BY DEF CallFits
  <1>3. ASSUME r.conflicts = {}
        PROVE  CallFits([r EXCEPT !.pc = "write", !.todo = DOMAIN r.checkpoint.recorded], t, o, n)
    <2> DEFINE d == [r EXCEPT !.pc = "write", !.todo = DOMAIN r.checkpoint.recorded]
    <2>1. /\ d \in Calls /\ d.pc = "write" /\ d.id = r.id /\ d.checkpoint = r.checkpoint
          /\ d.todo = DOMAIN r.checkpoint.recorded
          /\ d.before = r.before /\ d.disturbed = r.disturbed /\ d.conflicts = r.conflicts
      <3> HIDE DEF CheckpointFiles, Partial
      <3> QED BY <1>1 DEF Calls
    <2> HIDE DEF d, Calls
    <2>2. Undisturbed(d, t) BY <1>2, <1>3, <2>1 DEF Undisturbed
    <2>3. CallFits(d, t, o, n) BY <1>1, <2>1, <2>2 DEF CallFits
    <2> QED BY <2>3 DEF d
  <1>4. ASSUME r.conflicts # {} PROVE CallFits([r EXCEPT !.pc = "conflict", !.todo = {}], t, o, n)
    <2> DEFINE d == [r EXCEPT !.pc = "conflict", !.todo = {}]
    <2>1. /\ d \in Calls /\ d.pc = "conflict" /\ d.id = r.id /\ d.checkpoint = r.checkpoint /\ d.todo = {}
          /\ d.before = r.before /\ d.disturbed = r.disturbed /\ d.conflicts = r.conflicts
      <3> HIDE DEF CheckpointFiles, Partial
      <3> QED BY <1>1 DEF Calls
    <2> HIDE DEF d, Calls
    <2>2. Undisturbed(d, t) BY <1>2, <2>1 DEF Undisturbed
    <2>3. CallFits(d, t, o, n) BY <1>1, <2>1, <2>2 DEF CallFits
    <2> QED BY <2>3 DEF d
  <1> QED BY <1>3, <1>4

LEMMA CallRestores ==
  ASSUME NEW r, NEW t \in [Files -> Contents], NEW o, NEW n, CallFits(r, t, o, n), r.pc = "write", NEW f \in r.todo
  PROVE  CallFits([r EXCEPT !.todo = @ \ {f}], [t EXCEPT ![f] = Baseline(r.checkpoint, f)], o, n)
  <1> DEFINE d == [r EXCEPT !.todo = @ \ {f}]
             s == [t EXCEPT ![f] = Baseline(r.checkpoint, f)]
  <1>1. r \in Calls /\ r.todo \cup r.conflicts \subseteq DOMAIN r.checkpoint.recorded /\ f \in Files
    BY CallTyped DEF CallFits
  <1>2. /\ d \in Calls /\ d.pc = "write" /\ d.id = r.id /\ d.checkpoint = r.checkpoint /\ d.todo = r.todo \ {f}
        /\ d.before = r.before /\ d.disturbed = r.disturbed /\ d.conflicts = r.conflicts
    <2> HIDE DEF CheckpointFiles, Partial
    <2> QED BY <1>1 DEF Calls
  <1>3. s[f] = Baseline(r.checkpoint, f) /\ \A g \in Files \ {f} : s[g] = t[g] BY <1>1
  <1> HIDE DEF d, s, Calls
  <1>4. Undisturbed(r, t) BY DEF CallFits
  <1>5. ASSUME NEW g \in Files \ d.disturbed
        PROVE  LET recorded == g \in DOMAIN d.checkpoint.recorded IN
               /\ ~recorded => s[g] = d.before[g]
               /\ recorded /\ g \in d.todo => s[g] = d.checkpoint.recorded[g]
               /\ recorded /\ g \notin d.todo => s[g] = Baseline(d.checkpoint, g)
    <2>1. CASE g = f BY <1>1, <1>2, <1>3, <2>1
    <2>2. CASE g # f
      <3>1. s[g] = t[g] /\ g \in Files \ r.disturbed BY <1>2, <1>3, <2>2
      <3> QED BY <1>2, <1>4, <2>2, <3>1 DEF Undisturbed
    <2> QED BY <2>1, <2>2
  <1>6. Undisturbed(d, s) BY <1>2, <1>5 DEF Undisturbed
  <1>7. CallFits(d, s, o, n) BY <1>1, <1>2, <1>6 DEF CallFits
  <1> QED BY <1>7 DEF d, s

LEMMA CallReports ==
  ASSUME NEW r, NEW t, NEW o, NEW n, CallFits(r, t, o, n), r.pc = "write", r.todo = {}
  PROVE  CallFits([r EXCEPT !.pc = "restored"], t, o, n)
  <1> DEFINE d == [r EXCEPT !.pc = "restored"]
  <1>1. r \in Calls BY DEF CallFits
  <1>2. /\ d \in Calls /\ d.pc = "restored" /\ d.id = r.id /\ d.checkpoint = r.checkpoint /\ d.todo = {}
        /\ d.before = r.before /\ d.disturbed = r.disturbed /\ d.conflicts = r.conflicts
    <2> HIDE DEF CheckpointFiles, Partial
    <2> QED BY <1>1 DEF Calls
  <1> HIDE DEF d, Calls
  <1>3. Undisturbed(r, t) BY DEF CallFits
  <1>4. Undisturbed(d, t) BY <1>2, <1>3 DEF Undisturbed
  <1>5. CallFits(d, t, o, n) BY <1>2, <1>4 DEF CallFits
  <1> QED BY <1>5 DEF d

-----------------------------------------------------------------------------
(* The stack of the runs whose edits of a file stand.                      *)
LEMMA LeastOf ==
  ASSUME NEW S \in SUBSET Nat, S # {}
  PROVE  \E n \in S : \A m \in S : n <= m
  <1> DEFINE R == OpToRel(<, Nat)
  <1>1. IsWellFoundedOn(R, Nat) BY NatLessThanWellFounded, Zenon
  <1>2. \E n \in S : \A m \in S : ~(<<m, n>> \in R)
    <2> HIDE DEF R
    <2> QED BY <1>1, WFMin, Zenon
  <1>3. \A m, n \in Nat : <<m, n>> \in R <=> m < n BY DEF OpToRel
  <1> HIDE DEF R
  <1>4. PICK n \in S : \A m \in S : ~(<<m, n>> \in R) BY <1>2
  <1>5. ASSUME NEW m \in S PROVE n <= m
    <2>1. m \in Nat /\ n \in Nat OBVIOUS
    <2>2. ~(m < n) BY <1>3, <1>4, <2>1
    <2> QED BY <2>1, <2>2
  <1> QED BY <1>5

LEMMA NewestIs ==
  ASSUME NEW S \in SUBSET Ids, NEW k \in S, \A j \in S : j <= k
  PROVE  Newest(S) = k
  <1>1. S \subseteq Int BY DEF Ids
  <1>2. ASSUME NEW m \in S, \A j \in S : j <= m PROVE m = k
    <2>1. m <= k /\ k <= m /\ m \in Int /\ k \in Int BY <1>1, <1>2
    <2> QED BY <2>1
  <1> QED BY <1>2 DEF Newest

LEMMA NewestIn ==
  ASSUME NEW S \in SUBSET Ids, S # {}
  PROVE  Newest(S) \in S /\ \A j \in S : j <= Newest(S)
  <1> DEFINE T == {MaxRuns - j : j \in S}
  <1>1. MaxRuns \in Nat /\ \A j \in S : j \in Nat /\ MaxRuns - j \in Nat BY CheckpointAssumption DEF Ids
  <1>2. T \in SUBSET Nat /\ T # {} BY <1>1
  <1>3. PICK n \in T : \A m \in T : n <= m
    <2> HIDE DEF T
    <2> QED BY <1>2, LeastOf
  <1>4. PICK k \in S : n = MaxRuns - k BY <1>3
  <1>5. ASSUME NEW j \in S PROVE j <= k
    <2>1. MaxRuns - k <= MaxRuns - j BY <1>3, <1>4
    <2> QED BY <1>1, <2>1
  <1>6. Newest(S) = k BY <1>5, NewestIs
  <1> QED BY <1>5, <1>6

LEMMA TopSame ==
  ASSUME NEW f, NEW z, NEW H \in SUBSET Ids, NEW R, NEW Q, \A k \in H : Q[k][f] = R[k][f]
  PROVE  Top(H, f, z, Q) = Top(H, f, z, R)
  BY NewestIn DEF Top

(* The stack of f stays, and so does f unless it waits to be recorded.     *)
LEMMA StackedSame ==
  ASSUME NEW f, NEW c, NEW d, NEW z, NEW H \in SUBSET Ids, NEW A, NEW B, NEW o, NEW q, NEW R, NEW Q, NEW D, NEW E,
         Stacked(f, c, z, H, A, o, R, D), B \subseteq A,
         \A k \in H \cup B : q[k][f] = o[k][f],
         \A k \in H : f \in DOMAIN R[k] => f \in DOMAIN Q[k] /\ Q[k][f] = R[k][f],
         f \notin E => f \notin D /\ d = c
  PROVE  Stacked(f, d, z, H, B, q, Q, E)
  <1>1. \A k \in H : f \in DOMAIN Q[k] /\ Q[k][f] = R[k][f] BY DEF Stacked
  <1>2. ASSUME NEW k \in H \cup B PROVE q[k][f] = Top(Under(H, k), f, z, Q)
    <2>1. Under(H, k) \in SUBSET Ids /\ \A j \in Under(H, k) : Q[j][f] = R[j][f] BY <1>1 DEF Under
    <2>2. Top(Under(H, k), f, z, Q) = Top(Under(H, k), f, z, R) BY <2>1, TopSame
    <2>3. o[k][f] = Top(Under(H, k), f, z, R) BY DEF Stacked
    <2> QED BY <2>2, <2>3
  <1>3. f \notin E => d = Top(H, f, z, Q)
    <2>1. Top(H, f, z, Q) = Top(H, f, z, R) BY <1>1, TopSame
    <2> QED BY <2>1 DEF Stacked
  <1> QED BY <1>1, <1>2, <1>3 DEF Stacked

(* A new run begins: all that stands is older.                             *)
LEMMA StackedCreate ==
  ASSUME NEW f, NEW c, NEW z, NEW H \in SUBSET Ids, NEW o, NEW q, NEW R, NEW Q, NEW D, NEW n \in Ids,
         Stacked(f, c, z, H, {}, o, R, D), f \notin D, \A k \in H : k < n, q[n][f] = c,
         \A k \in H : q[k][f] = o[k][f] /\ Q[k] = R[k]
  PROVE  Stacked(f, c, z, H, {n}, q, Q, {})
  <1>1. Stacked(f, c, z, H, {}, q, Q, {}) BY StackedSame
  <1>2. Under(H, n) = H BY DEF Under
  <1>3. q[n][f] = Top(Under(H, n), f, z, Q) BY <1>1, <1>2 DEF Stacked
  <1> QED BY <1>1, <1>3 DEF Stacked

(* The active run records f: it is the newest that has edited f.           *)
LEMMA StackedRecord ==
  ASSUME NEW f, NEW c, NEW z, NEW H \in SUBSET Ids, NEW o, NEW R, NEW Q, NEW D, NEW E, NEW n \in Ids,
         Stacked(f, c, z, H, {n}, o, R, D), \A k \in H : k <= n,
         \A k \in H : k # n => Q[k] = R[k],
         f \in DOMAIN Q[n], Q[n][f] = c
  PROVE  Stacked(f, c, z, H \cup {n}, {n}, o, Q, E)
  <1> DEFINE I == H \cup {n}
  <1>0. n \in Int /\ \A k \in I : k \in Int BY DEF Ids
  <1>1. I \in SUBSET Ids /\ n \in I /\ \A k \in I : k <= n BY <1>0
  <1>2. Newest(I) = n BY <1>1, NewestIs
  <1>3. c = Top(I, f, z, Q) BY <1>1, <1>2 DEF Top
  <1>4. \A k \in I : f \in DOMAIN Q[k] BY DEF Stacked
  <1>5. ASSUME NEW k \in I PROVE o[k][f] = Top(Under(I, k), f, z, Q)
    <2>0. k <= n /\ ~(n < k) BY <1>0, <1>1
    <2>1. Under(I, k) = Under(H, k) /\ Under(H, k) \in SUBSET Ids BY <2>0 DEF Under
    <2>2. \A j \in Under(H, k) : Q[j] = R[j] BY <2>0 DEF Under
    <2>3. Top(Under(H, k), f, z, Q) = Top(Under(H, k), f, z, R) BY <2>1, <2>2, TopSame
    <2>4. o[k][f] = Top(Under(H, k), f, z, R) BY DEF Stacked
    <2> QED BY <2>1, <2>3, <2>4
  <1> QED BY <1>3, <1>4, <1>5 DEF Stacked

(* The newest run's edit of f is undone.                                   *)
LEMMA StackedRestore ==
  ASSUME NEW f, NEW c, NEW z, NEW H \in SUBSET Ids, NEW A \in SUBSET Ids, NEW o, NEW R, NEW D, NEW k \in H,
         Stacked(f, c, z, H, A, o, R, D), \A j \in H \cup A : j <= k
  PROVE  Stacked(f, o[k][f], z, H \ {k}, A, o, R, D)
  <1> DEFINE G == H \ {k}
  <1>0. \A j \in H \cup A : j \in Int BY DEF Ids
  <1>1. G = Under(H, k)
    <2>1. ~(k < k) /\ \A j \in H : j # k => j < k BY <1>0
    <2> QED BY <2>1 DEF Under
  <1>2. o[k][f] = Top(G, f, z, R) BY <1>1 DEF Stacked
  <1>3. ASSUME NEW j \in G \cup A PROVE Under(G, j) = Under(H, j)
    <2>1. ~(k < j) BY <1>0, <1>3
    <2> QED BY <2>1 DEF Under
  <1> QED BY <1>2, <1>3 DEF Stacked

-----------------------------------------------------------------------------
(* What the actions find, and what they leave.                             *)
LEMMA Counting ==
  ASSUME Basics
  PROVE  /\ runs \in Nat /\ MaxRuns \in Nat /\ runs <= MaxRuns
         /\ 1 .. runs \subseteq Ids /\ \A k \in Ids : k \in Int /\ (k > runs \/ k \in 1 .. runs)
  BY CheckpointAssumption DEF Basics, Ids

LEMMA ActiveTyped ==
  ASSUME ActiveFits
  PROVE  /\ active = [pc |-> active.pc, id |-> active.id, todo |-> active.todo, memory |-> active.memory]
         /\ active.pc \in {"idle", "persist", "ready", "record"} /\ active.id \in 0 .. MaxRuns
         /\ active.todo \in SUBSET Files /\ active.memory \in CheckpointFiles
  <1> HIDE DEF CheckpointFiles
  <1> QED BY DEF ActiveFits

LEMMA NoRunTyped ==
  /\ NoRun.pc = "idle" /\ NoRun.id = 0 /\ NoRun.todo = {} /\ NoRun.memory = Missing
  /\ NoRun \in [pc : {"idle", "persist", "ready", "record"}, id : 0 .. MaxRuns, todo : SUBSET Files,
                memory : CheckpointFiles]
  <1>1. 0 \in 0 .. MaxRuns BY CheckpointAssumption
  <1> HIDE DEF CheckpointFiles, Missing
  <1> QED BY <1>1, Constants DEF NoRun

LEMMA CallHas ==
  ASSUME CallsFit, NEW u \in Undoers
  PROVE  /\ CallFits(undo[u], tree, origin, runs) /\ undo[u] \in Calls
         /\ undo[u].todo \in SUBSET Files /\ undo[u].checkpoint \in CheckpointFiles
         /\ \A f \in Files : Baseline(undo[u].checkpoint, f) \in Contents
         /\ undo[u].pc # "idle" => undo[u].id \in 1 .. runs
  <1>1. CallFits(undo[u], tree, origin, runs) BY DEF CallsFit
  <1>2. undo[u] \in Calls BY <1>1 DEF CallFits
  <1>3. undo[u].todo \in SUBSET Files /\ undo[u].checkpoint \in CheckpointFiles BY <1>2, CallTyped
  <1>4. \A f \in Files : Baseline(undo[u].checkpoint, f) \in Contents BY <1>3, CheckpointTyped
  <1>5. undo[u].pc # "idle" => undo[u].id \in 1 .. runs BY <1>1 DEF CallFits
  <1> QED BY <1>1, <1>2, <1>3, <1>4, <1>5

LEMMA FirstPathIn ==
  ASSUME NEW F, F # {}
  PROVE  FirstPath(F) \in F
  BY DEF FirstPath

(* One path of the second loop.                                            *)
LEMMA RestoreStep ==
  ASSUME NEW u \in Undoers, Restore(u)
  PROVE  \E f \in undo[u].todo :
           /\ undo[u].pc = "write"
           /\ tree' = [tree EXCEPT ![f] = Baseline(undo[u].checkpoint, f)]
           /\ live' = [live EXCEPT ![undo[u].id] = @ \ {f}]
           /\ undo' = [Disturbed(Undoers \ {u}, {f}) EXCEPT ![u].todo = @ \ {f}]
           /\ meddled' = IF OutOfOrder(u, f) THEN meddled \cup {f} ELSE meddled
           /\ UNCHANGED <<disk, active, runs, edits, others, undos, first, origin>>
  <1> DEFINE f == FirstPath(undo[u].todo)
  <1>1. f \in undo[u].todo BY FirstPathIn DEF Restore
  <1> HIDE DEF f
  <1> WITNESS f \in undo[u].todo
  <1> QED BY DEF Restore, Restored, f

LEMMA RestoreTornStep ==
  ASSUME NEW u \in Undoers, RestoreTorn(u)
  PROVE  \E f \in undo[u].todo :
           /\ undo[u].pc = "write"
           /\ tree' = [tree EXCEPT ![f] = Torn]
           /\ live' = [live EXCEPT ![undo[u].id] = @ \ {f}]
           /\ undo' = [Disturbed(Undoers \ {u}, {f}) EXCEPT ![u] = NoUndo]
           /\ meddled' = meddled \cup {f}
           /\ UNCHANGED <<disk, active, runs, edits, others, undos, first, origin>>
  <1> DEFINE f == FirstPath(undo[u].todo)
  <1>1. f \in undo[u].todo BY FirstPathIn DEF RestoreTorn
  <1> HIDE DEF f, NoUndo
  <1> WITNESS f \in undo[u].todo
  <1> QED BY DEF RestoreTorn, Restored, f

(* A tool call of the run, and a write of somebody else.                   *)
LEMMA AgentStep ==
  ASSUME Basics, AgentEdit
  PROVE  \E F \in SUBSET Files :
           /\ tree' \in [Files -> Contents] /\ \A f \in Files \ F : tree'[f] = tree[f]
           /\ active' = [active EXCEPT !.pc = "record", !.todo = F]
           /\ undo' = Disturbed(Undoers, F)
  <1>1. PICK F \in SUBSET Files \ {{}}, new \in {Absent, [by |-> "agent", n |-> edits + 1]} :
           /\ tree' = [f \in Files |-> IF f \in F THEN new ELSE tree[f]]
           /\ active' = [active EXCEPT !.pc = "record", !.todo = F]
           /\ undo' = Disturbed(Undoers, F)
    BY DEF AgentEdit
  <1>2. edits + 1 \in 1 .. MaxEdits BY CheckpointAssumption DEF AgentEdit, Basics
  <1>3. new \in Contents BY <1>2, Constants DEF Contents
  <1> HIDE DEF Contents
  <1>4. tree' \in [Files -> Contents] /\ \A f \in Files \ F : tree'[f] = tree[f] BY <1>1, <1>3 DEF Basics
  <1> QED BY <1>1, <1>4

LEMMA OtherStep ==
  ASSUME Basics, OtherWrite
  PROVE  \E f \in Files :
           /\ tree' \in [Files -> Contents] /\ \A g \in Files \ {f} : tree'[g] = tree[g]
           /\ meddled' = meddled \cup {f}
           /\ undo' = Disturbed(Undoers, {f})
  <1>1. PICK f \in Files, new \in {Absent, Large, [by |-> "other", n |-> others + 1]} :
           /\ tree' = [tree EXCEPT ![f] = new]
           /\ meddled' = meddled \cup {f}
           /\ undo' = Disturbed(Undoers, {f})
    BY DEF OtherWrite
  <1>2. others + 1 \in 1 .. MaxOthers BY CheckpointAssumption DEF OtherWrite, Basics
  <1>3. new \in Contents BY <1>2, Constants DEF Contents
  <1> HIDE DEF Contents
  <1>4. tree' \in [Files -> Contents] /\ \A g \in Files \ {f} : tree'[g] = tree[g] BY <1>1, <1>3 DEF Basics
  <1> QED BY <1>1, <1>4

-----------------------------------------------------------------------------
LEMMA TreeKept ==
  ASSUME UndoInv, UndoNext
  PROVE  tree' \in [Files -> Contents]
  <1> USE DEF UndoInv
  <1>1. tree \in [Files -> Contents] BY DEF Basics
  <1>2. CASE AgentEdit BY <1>2, AgentStep
  <1>3. CASE OtherWrite BY <1>3, OtherStep
  <1> HIDE DEF Contents
  <1>4. ASSUME NEW u \in Undoers, Restore(u) PROVE tree' \in [Files -> Contents]
    <2>1. PICK f \in undo[u].todo : tree' = [tree EXCEPT ![f] = Baseline(undo[u].checkpoint, f)]
      BY <1>4, RestoreStep
    <2>2. f \in Files /\ Baseline(undo[u].checkpoint, f) \in Contents BY CallHas
    <2> QED BY <1>1, <2>1, <2>2
  <1>5. ASSUME NEW u \in Undoers, RestoreTorn(u) PROVE tree' \in [Files -> Contents]
    <2>1. PICK f \in undo[u].todo : tree' = [tree EXCEPT ![f] = Torn] BY <1>5, RestoreTornStep
    <2>2. Torn \in Contents BY Constants
    <2> QED BY <1>1, <2>1, <2>2
  <1>6. CASE UNCHANGED tree BY <1>1, <1>6
  <1> QED BY <1>2, <1>3, <1>4, <1>5, <1>6
       DEF UndoNext, Create, Record, Persisted, RunStops, Load, Check, Decide, Report, UndoStops

LEMMA CountersKept ==
  ASSUME UndoInv, UndoNext
  PROVE  /\ runs' \in 0 .. MaxRuns /\ edits' \in 0 .. MaxEdits /\ others' \in 0 .. MaxOthers
         /\ undos' \in 0 .. MaxUndos /\ first' = first
  <1>0. /\ runs \in 0 .. MaxRuns /\ edits \in 0 .. MaxEdits /\ others \in 0 .. MaxOthers /\ undos \in 0 .. MaxUndos
        /\ MaxRuns \in Nat /\ MaxEdits \in Nat /\ MaxOthers \in Nat /\ MaxUndos \in Nat
    BY CheckpointAssumption DEF UndoInv, Basics
  <1>1. runs' = runs \/ (runs < MaxRuns /\ runs' = runs + 1)
    BY DEF UndoNext, Create, AgentEdit, Record, Persisted, RunStops, OtherWrite,
           Load, Check, Decide, Restore, RestoreTorn, Report, UndoStops
  <1>2. edits' = edits \/ (edits < MaxEdits /\ edits' = edits + 1)
    BY DEF UndoNext, Create, AgentEdit, Record, Persisted, RunStops, OtherWrite,
           Load, Check, Decide, Restore, RestoreTorn, Report, UndoStops
  <1>3. others' = others \/ (others < MaxOthers /\ others' = others + 1)
    BY DEF UndoNext, Create, AgentEdit, Record, Persisted, RunStops, OtherWrite,
           Load, Check, Decide, Restore, RestoreTorn, Report, UndoStops
  <1>4. undos' = undos \/ (undos < MaxUndos /\ undos' = undos + 1)
    BY DEF UndoNext, Create, AgentEdit, Record, Persisted, RunStops, OtherWrite,
           Load, Check, Decide, Restore, RestoreTorn, Report, UndoStops
  <1>5. first' = first
    BY DEF UndoNext, Create, AgentEdit, Record, Persisted, RunStops, OtherWrite,
           Load, Check, Decide, Restore, RestoreTorn, Report, UndoStops, history
  <1> QED BY <1>0, <1>1, <1>2, <1>3, <1>4, <1>5

LEMMA OriginKept ==
  ASSUME UndoInv, UndoNext
  PROVE  origin' \in [Ids -> [Files -> Contents]]
  <1>1. origin \in [Ids -> [Files -> Contents]] /\ tree \in [Files -> Contents] BY DEF UndoInv, Basics
  <1> HIDE DEF Contents
  <1>2. CASE Create BY <1>1, <1>2 DEF Create
  <1>3. CASE UNCHANGED origin BY <1>1, <1>3
  <1> QED BY <1>2, <1>3
       DEF UndoNext, AgentEdit, Record, Persisted, RunStops, OtherWrite,
           Load, Check, Decide, Restore, RestoreTorn, Report, UndoStops, history

LEMMA HistoryTyped ==
  ASSUME UndoInv, UndoNext
  PROVE  live' \in [Ids -> SUBSET Files] /\ meddled' \in SUBSET Files
  <1> USE DEF UndoInv
  <1>1. live \in [Ids -> SUBSET Files] /\ meddled \in SUBSET Files BY DEF Basics
  <1>2. CASE Record
    <2>1. PICK f \in active.todo : live' = [live EXCEPT ![active.id] = @ \cup {f}] /\ meddled' = meddled
      BY <1>2 DEF Record
    <2>2. f \in Files BY ActiveTyped
    <2> QED BY <1>1, <2>1, <2>2
  <1>3. CASE RunStops
    <2>1. active.todo \in SUBSET Files BY ActiveTyped
    <2>2. active.pc = "persist" => live[active.id] \in SUBSET Files BY <1>1 DEF ActiveFits
    <2> QED BY <1>1, <1>3, <2>1, <2>2 DEF RunStops
  <1>4. CASE OtherWrite
    <2>1. live' = live BY <1>4 DEF OtherWrite
    <2>2. PICK f \in Files : meddled' = meddled \cup {f} BY <1>4, OtherStep
    <2> QED BY <1>1, <2>1, <2>2
  <1>5. ASSUME NEW u \in Undoers, Restore(u) PROVE live' \in [Ids -> SUBSET Files] /\ meddled' \in SUBSET Files
    <2>1. PICK f \in undo[u].todo : /\ live' = [live EXCEPT ![undo[u].id] = @ \ {f}]
                                    /\ meddled' = IF OutOfOrder(u, f) THEN meddled \cup {f} ELSE meddled
      BY <1>5, RestoreStep
    <2>2. f \in Files BY CallHas
    <2> QED BY <1>1, <2>1, <2>2
  <1>6. ASSUME NEW u \in Undoers, RestoreTorn(u) PROVE live' \in [Ids -> SUBSET Files] /\ meddled' \in SUBSET Files
    <2>1. PICK f \in undo[u].todo : live' = [live EXCEPT ![undo[u].id] = @ \ {f}] /\ meddled' = meddled \cup {f}
      BY <1>6, RestoreTornStep
    <2>2. f \in Files BY CallHas
    <2> QED BY <1>1, <2>1, <2>2
  <1>7. CASE UNCHANGED <<live, meddled>> BY <1>1, <1>7
  <1> QED BY <1>2, <1>3, <1>4, <1>5, <1>6, <1>7
       DEF UndoNext, Create, AgentEdit, Persisted, Load, Check, Decide, Report, UndoStops, history

LEMMA BasicsKept ==
  ASSUME UndoInv, UndoNext
  PROVE  Basics'
  <1>1. first \in [Files -> Contents] BY DEF UndoInv, Basics
  <1> HIDE DEF Contents
  <1> QED BY <1>1, TreeKept, CountersKept, OriginKept, HistoryTyped DEF Basics

-----------------------------------------------------------------------------
(* The checkpoint files and the active run.                                *)
LEMMA RecordStep ==
  ASSUME UndoInv, Record
  PROVE  \E f \in active.todo, m \in CheckpointFiles :
           /\ active.pc = "record" /\ f \in Files /\ active.id \in Ids /\ active.id = runs
           /\ m.state = "whole" /\ m.baseline = disk[active.id].baseline
           /\ m.recorded = WithRecord(disk[active.id].recorded, f)
           /\ active' = [active EXCEPT !.pc = "persist", !.todo = @ \ {f}, !.memory = m]
           /\ disk' = [disk EXCEPT ![active.id] = TornFile]
           /\ live' = [live EXCEPT ![active.id] = @ \cup {f}]
           /\ UNCHANGED <<tree, first, undo, runs, edits, others, undos, origin, meddled>>
  <1> USE DEF UndoInv
  <1>1. active.pc = "record" BY DEF Record
  <1>2. active.id \in Ids /\ active.id = runs /\ active.todo \in SUBSET Files BY <1>1, ActiveTyped DEF ActiveFits
  <1>3. PICK f \in active.todo :
          /\ disk[active.id].state = "whole"
          /\ active' = [active EXCEPT !.pc = "persist", !.todo = @ \ {f},
                          !.memory = [disk[active.id] EXCEPT !.recorded = WithRecord(@, f)]]
          /\ disk' = [disk EXCEPT ![active.id] = TornFile]
          /\ live' = [live EXCEPT ![active.id] = @ \cup {f}]
    BY DEF Record
  <1> DEFINE c == disk[active.id]
             m == [c EXCEPT !.recorded = WithRecord(@, f)]
  <1>4. c \in CheckpointFiles BY <1>2 DEF DiskFits
  <1>5. WithRecord(c.recorded, f) \in Partial
    <2>1. tree[f] \in Contents /\ f \in Files BY <1>2 DEF Basics
    <2>2. c.recorded \in Partial BY <1>4, CheckpointTyped
    <2> HIDE DEF Partial, Contents, c
    <2> QED BY <2>1, <2>2, RecordTypes DEF WithRecord
  <1>6. m \in CheckpointFiles /\ m.state = c.state /\ m.baseline = c.baseline /\ m.recorded = WithRecord(c.recorded, f)
    <2> HIDE DEF Partial, c
    <2> QED BY <1>4, <1>5 DEF CheckpointFiles
  <1>7. active' = [active EXCEPT !.pc = "persist", !.todo = @ \ {f}, !.memory = m] BY <1>3
  <1> HIDE DEF m
  <1>8. f \in active.todo OBVIOUS
  <1> m \in CheckpointFiles BY <1>6
  <1> WITNESS f \in active.todo, m \in CheckpointFiles
  <1> QED BY <1>1, <1>2, <1>3, <1>6, <1>7, <1>8 DEF Record

LEMMA CreateStep ==
  ASSUME UndoInv, Create
  PROVE  /\ active.pc = "idle" /\ active = NoRun /\ runs + 1 \in Ids /\ runs' = runs + 1
         /\ origin' = [origin EXCEPT ![runs + 1] = tree]
         /\ UNCHANGED <<tree, first, undo, live, meddled>>
         /\ \/ UNCHANGED <<active, disk>>
            \/ \E m \in CheckpointFiles :
                 /\ SoundFor(m, tree) /\ DOMAIN m.recorded = {}
                 /\ active' = [pc |-> "persist", id |-> runs + 1, todo |-> {}, memory |-> m]
                 /\ disk' = [disk EXCEPT ![runs + 1] = TornFile]
  <1> USE DEF UndoInv
  <1>1. active = NoRun /\ runs + 1 \in Ids BY Counting DEF Create, ActiveFits, Ids
  <1> DEFINE m == [state |-> "whole", baseline |-> Snapshot(Listed), recorded |-> Empty]
  <1>2. m \in CheckpointFiles /\ SoundFor(m, tree) /\ DOMAIN m.recorded = {}
    <2>1. Snapshot(Listed) = [f \in Listed |-> tree[f]] BY DEF Snapshot
    <2>2. tree \in [Files -> Contents] /\ Listed \in SUBSET Files BY CheckpointAssumption DEF Basics
    <2>3. Snapshot(Listed) \in [Listed -> Contents]
      <3> HIDE DEF Contents
      <3> QED BY <2>1, <2>2
    <2>4. Empty \in [{} -> Contents] /\ DOMAIN Empty = {} BY DEF Empty
    <2>5. Snapshot(Listed) \in Partial /\ Empty \in Partial BY <2>2, <2>3, <2>4, IsPartial
    <2> HIDE DEF Partial, Empty
    <2>6. m \in CheckpointFiles /\ DOMAIN m.recorded = {} BY <2>4, <2>5 DEF CheckpointFiles
    <2> QED BY <2>1, <2>6 DEF SoundFor
  <1>3. \/ UNCHANGED <<active, disk>>
        \/ /\ active' = [pc |-> "persist", id |-> runs + 1, todo |-> {}, memory |-> m]
           /\ disk' = [disk EXCEPT ![runs + 1] = TornFile]
    BY DEF Create
  <1> HIDE DEF m
  <1>4. /\ active.pc = "idle" /\ runs' = runs + 1
        /\ origin' = [origin EXCEPT ![runs + 1] = tree]
        /\ UNCHANGED <<tree, first, undo, live, meddled>>
    BY DEF Create
  <1> QED BY <1>1, <1>2, <1>3, <1>4

LEMMA DiskKept ==
  ASSUME UndoInv, UndoNext
  PROVE  DiskFits'
  <1> USE DEF UndoInv
  <1>1. disk \in [Ids -> CheckpointFiles] BY DEF DiskFits
  <1>2. live \in [Ids -> SUBSET Files] BY DEF Basics
  <1> HIDE DEF CheckpointFiles, Contents
  <1>3. CASE Create
    <2> USE CreateStep, <1>3
    <2>1. runs + 1 \in Ids /\ runs' = runs + 1 /\ runs \in Nat /\ live' = live BY Counting
    <2>2. ASSUME NEW k \in Ids, k # runs + 1 PROVE origin'[k] = origin[k] /\ disk'[k] = disk[k]
      <3>1. origin \in [Ids -> [Files -> Contents]] BY DEF Basics
      <3>2. origin'[k] = origin[k] BY <2>2, <3>1
      <3> HIDE DEF TornFile
      <3>3. disk'[k] = disk[k] BY <1>1, <2>2
      <3> QED BY <3>2, <3>3
    <2>3. disk' \in [Ids -> CheckpointFiles] /\ disk'[runs + 1].state \in {"missing", "torn"}
      <3>1. runs + 1 > runs BY <2>1
      <3>2. disk[runs + 1].state = "missing" BY <2>1, <3>1 DEF DiskFits
      <3>3. TornFile \in CheckpointFiles /\ TornFile.state = "torn" BY Constants
      <3> HIDE DEF TornFile
      <3> QED BY <1>1, <2>1, <3>2, <3>3
    <2>4. ASSUME NEW k \in Ids, disk'[k].state = "whole" PROVE SoundFor(disk'[k], origin'[k])
      BY <2>2, <2>3, <2>4 DEF DiskFits
    <2>5. ASSUME NEW k \in Ids, k > runs' PROVE disk'[k].state = "missing" /\ live'[k] = {}
      <3>1. k > runs /\ k # runs + 1 /\ k \in Int BY <2>1, <2>5, Counting
      <3> QED BY <2>1, <2>2, <3>1 DEF DiskFits
    <2> QED BY <2>3, <2>4, <2>5 DEF DiskFits
  <1>4. CASE Record
    <2>1. PICK f \in active.todo : /\ active.id \in Ids /\ active.id = runs
            /\ disk' = [disk EXCEPT ![active.id] = TornFile]
            /\ live' = [live EXCEPT ![active.id] = @ \cup {f}]
            /\ origin' = origin /\ runs' = runs
      BY <1>4, RecordStep
    <2>2. TornFile \in CheckpointFiles /\ TornFile.state = "torn" BY Constants
    <2> HIDE DEF TornFile
    <2>3. disk' \in [Ids -> CheckpointFiles] /\ disk'[active.id].state = "torn" BY <1>1, <2>1, <2>2
    <2>4. \A k \in Ids \ {active.id} : disk'[k] = disk[k] /\ live'[k] = live[k] BY <1>1, <1>2, <2>1
    <2>5. ~(active.id > runs) BY <2>1, Counting
    <2> QED BY <2>1, <2>3, <2>4, <2>5 DEF DiskFits
  <1>5. CASE Persisted
    <2>1. active.id \in Ids /\ active.id = runs /\ SoundFor(active.memory, origin[active.id])
      BY <1>5 DEF Persisted, ActiveFits
    <2>2. disk' = [disk EXCEPT ![active.id] = active.memory] /\ origin' = origin /\ runs' = runs /\ live' = live
      BY <1>5 DEF Persisted, history
    <2>3. active.memory \in CheckpointFiles BY ActiveTyped
    <2>4. disk' \in [Ids -> CheckpointFiles] /\ disk'[active.id] = active.memory BY <1>1, <2>1, <2>2, <2>3
    <2>5. \A k \in Ids \ {active.id} : disk'[k] = disk[k] BY <1>1, <2>2
    <2>6. ~(active.id > runs) BY <2>1, Counting
    <2> QED BY <2>1, <2>2, <2>4, <2>5, <2>6 DEF DiskFits
  <1>6. ASSUME UNCHANGED <<disk, origin, runs>>, \A k \in Ids : live'[k] \subseteq live[k] PROVE DiskFits'
    BY <1>6 DEF DiskFits
  <1>7. ASSUME NEW u \in Undoers, Restore(u) \/ RestoreTorn(u) PROVE DiskFits'
    <2>1. PICK f : live' = [live EXCEPT ![undo[u].id] = @ \ {f}] BY <1>7, RestoreStep, RestoreTornStep
    <2>2. UNCHANGED <<disk, origin, runs>> BY <1>7 DEF Restore, RestoreTorn
    <2>3. \A k \in Ids : live'[k] \subseteq live[k] BY <1>2, <2>1
    <2> QED BY <1>6, <2>2, <2>3
  <1>8. CASE UNCHANGED <<disk, origin, runs, live>> BY <1>6, <1>8
  <1> QED BY <1>3, <1>4, <1>5, <1>7, <1>8
       DEF UndoNext, AgentEdit, RunStops, OtherWrite, Load, Check, Decide, Report, UndoStops, history

LEMMA ActiveKept ==
  ASSUME UndoInv, UndoNext
  PROVE  ActiveFits'
  <1> USE DEF UndoInv
  <1>1. disk \in [Ids -> CheckpointFiles] BY DEF DiskFits
  <1> DEFINE Type == [pc : {"idle", "persist", "ready", "record"}, id : 0 .. MaxRuns,
                      todo : SUBSET Files, memory : CheckpointFiles]
  <1>2. active \in Type BY DEF ActiveFits
  <1> HIDE DEF CheckpointFiles, Contents
  <1>3. CASE Create
    <2> USE CreateStep, <1>3
    <2>1. CASE UNCHANGED <<active, disk>>
      <3>1. active = NoRun /\ active.pc = "idle" OBVIOUS
      <3> QED BY <1>2, <2>1, <3>1 DEF ActiveFits
    <2>2. CASE \E m \in CheckpointFiles :
                 /\ SoundFor(m, tree) /\ DOMAIN m.recorded = {}
                 /\ active' = [pc |-> "persist", id |-> runs + 1, todo |-> {}, memory |-> m]
      <3>1. PICK m \in CheckpointFiles : SoundFor(m, tree)
                 /\ active' = [pc |-> "persist", id |-> runs + 1, todo |-> {}, memory |-> m]
        BY <2>2
      <3>2. runs + 1 \in Ids /\ runs' = runs + 1 OBVIOUS
      <3>3. origin'[runs + 1] = tree BY <3>2 DEF Basics
      <3>4. runs + 1 \in 0 .. MaxRuns BY <3>2, Counting DEF Ids
      <3>5. /\ active' \in Type /\ active'.pc = "persist" /\ active'.id = runs + 1 /\ active'.memory = m
        BY <3>1, <3>4
      <3> QED BY <3>1, <3>2, <3>3, <3>5 DEF ActiveFits
    <2> QED BY <2>1, <2>2
  <1>4. CASE AgentEdit
    <2>1. active.pc = "ready" /\ UNCHANGED <<disk, runs, origin>> BY <1>4 DEF AgentEdit, history
    <2>2. PICK F \in SUBSET Files : active' = [active EXCEPT !.pc = "record", !.todo = F] BY <1>4, AgentStep
    <2>3. active' \in Type /\ active'.pc = "record" /\ active'.id = active.id BY <1>2, <2>2
    <2> QED BY <2>1, <2>3 DEF ActiveFits
  <1>5. CASE Record
    <2>1. PICK f \in active.todo, m \in CheckpointFiles :
           /\ active.pc = "record" /\ active.id \in Ids /\ active.id = runs
           /\ m.state = "whole" /\ m.baseline = disk[active.id].baseline
           /\ active' = [active EXCEPT !.pc = "persist", !.todo = @ \ {f}, !.memory = m]
           /\ UNCHANGED <<runs, origin>>
      BY <1>5, RecordStep
    <2>2. active' \in Type /\ active'.pc = "persist" /\ active'.id = active.id /\ active'.memory = m
      BY <1>2, <2>1
    <2>3. disk[active.id].state = "whole" BY <2>1 DEF ActiveFits
    <2>4. SoundFor(disk[active.id], origin[active.id]) BY <2>1, <2>3 DEF DiskFits
    <2>5. SoundFor(m, origin[active.id]) BY <2>1, <2>4 DEF SoundFor
    <2> QED BY <2>1, <2>2, <2>5 DEF ActiveFits
  <1>6. CASE Persisted
    <2>1. /\ active.pc = "persist" /\ disk' = [disk EXCEPT ![active.id] = active.memory]
          /\ active' = [active EXCEPT !.pc = IF active.todo = {} THEN "ready" ELSE "record", !.memory = Missing]
          /\ UNCHANGED <<runs, origin>>
      BY <1>6 DEF Persisted, history
    <2>2. Missing \in CheckpointFiles BY Constants
    <2> HIDE DEF Missing
    <2>3. active' \in Type /\ active'.pc \in {"ready", "record"} /\ active'.id = active.id /\ active'.todo = active.todo
          /\ (active'.pc = "ready" => active'.todo = {})
      BY <1>2, <2>1, <2>2
    <2>4. active.id \in Ids /\ active.id = runs /\ SoundFor(active.memory, origin[active.id]) BY <2>1 DEF ActiveFits
    <2>5. disk'[active.id] = active.memory BY <1>1, <2>1, <2>4
    <2>6. disk'[active.id].state = "whole" BY <2>4, <2>5 DEF SoundFor
    <2> QED BY <2>1, <2>3, <2>4, <2>6 DEF ActiveFits
  <1>7. CASE RunStops
    <2>1. active' = NoRun BY <1>7 DEF RunStops
    <2> HIDE DEF NoRun
    <2> QED BY <2>1, NoRunTyped DEF ActiveFits
  <1>8. CASE UNCHANGED <<active, disk, runs, origin>> BY <1>8 DEF ActiveFits
  <1> QED BY <1>3, <1>4, <1>5, <1>6, <1>7, <1>8
       DEF UndoNext, OtherWrite, Load, Check, Decide, Restore, RestoreTorn, Report, UndoStops, history

-----------------------------------------------------------------------------
(* The calls of undo.                                                      *)
LEMMA CallsAge ==
  ASSUME UndoInv, UNCHANGED <<undo, tree>>, runs' \in Nat, runs <= runs', \A k \in 1 .. runs : origin'[k] = origin[k]
  PROVE  CallsFit'
  <1>1. runs \in Nat BY Counting DEF UndoInv
  <1>2. ASSUME NEW u \in Undoers PROVE CallFits(undo[u], tree, origin', runs')
    <2>1. CallFits(undo[u], tree, origin, runs) BY CallHas DEF UndoInv
    <2> QED BY <1>1, <2>1, CallAges
  <1>3. undo = [u \in Undoers |-> undo[u]] BY DEF UndoInv, CallsFit
  <1> QED BY <1>2, <1>3 DEF CallsFit

LEMMA CallsDisturbed ==
  ASSUME UndoInv, NEW F \in SUBSET Files, undo' = Disturbed(Undoers, F), \A f \in Files \ F : tree'[f] = tree[f],
         UNCHANGED <<origin, runs>>
  PROVE  CallsFit'
  <1>1. ASSUME NEW u \in Undoers
        PROVE  undo'[u] = IF undo[u].pc # "idle" THEN [undo[u] EXCEPT !.disturbed = @ \cup F] ELSE undo[u]
    BY DEF Disturbed
  <1>2. undo' = [u \in Undoers |-> undo'[u]] BY DEF Disturbed
  <1>3. ASSUME NEW u \in Undoers PROVE CallFits(undo'[u], tree', origin', runs')
    <2>1. CallFits(undo[u], tree, origin, runs) BY CallHas DEF UndoInv
    <2>2. PICK r, d : r = undo[u] /\ d = undo'[u] OBVIOUS
    <2>3. d = IF r.pc # "idle" THEN [r EXCEPT !.disturbed = @ \cup F] ELSE r BY <1>1, <2>2
    <2>4. CallFits(d, tree', origin, runs) BY <2>1, <2>2, <2>3, CallGoesOn
    <2> QED BY <2>2, <2>4
  <1> QED BY <1>2, <1>3 DEF CallsFit

(* One call goes on, and the worktree stays.                               *)
LEMMA OneCallMoves ==
  ASSUME UndoInv, NEW u \in Undoers, NEW r, undo' = [undo EXCEPT ![u] = r], CallFits(r, tree, origin, runs),
         UNCHANGED <<tree, origin, runs>>
  PROVE  CallsFit'
  <1>1. undo = [v \in Undoers |-> undo[v]] BY DEF UndoInv, CallsFit
  <1>2. undo' = [v \in Undoers |-> undo'[v]] /\ undo'[u] = r /\ \A v \in Undoers \ {u} : undo'[v] = undo[v] BY <1>1
  <1>3. ASSUME NEW v \in Undoers PROVE CallFits(undo'[v], tree, origin, runs)
    <2>1. CallFits(undo[v], tree, origin, runs) BY CallHas DEF UndoInv
    <2> QED BY <1>2, <2>1
  <1> QED BY <1>2, <1>3 DEF CallsFit

(* One call writes f, and the others see it.                               *)
LEMMA OneCallWrites ==
  ASSUME UndoInv, NEW u \in Undoers, NEW r, NEW f \in Files, \A g \in Files \ {f} : tree'[g] = tree[g],
         undo' = [Disturbed(Undoers \ {u}, {f}) EXCEPT ![u] = r], CallFits(r, tree', origin, runs),
         UNCHANGED <<origin, runs>>
  PROVE  CallsFit'
  <1>1. undo' = [v \in Undoers |-> undo'[v]] /\ undo'[u] = r BY DEF Disturbed
  <1>2. ASSUME NEW v \in Undoers \ {u}
        PROVE  undo'[v] = IF undo[v].pc # "idle" THEN [undo[v] EXCEPT !.disturbed = @ \cup {f}] ELSE undo[v]
    BY DEF Disturbed
  <1>3. ASSUME NEW v \in Undoers \ {u} PROVE CallFits(undo'[v], tree', origin, runs)
    <2>1. CallFits(undo[v], tree, origin, runs) BY CallHas DEF UndoInv
    <2>2. {f} \in SUBSET Files OBVIOUS
    <2>3. PICK c, d : c = undo[v] /\ d = undo'[v] OBVIOUS
    <2>4. d = IF c.pc # "idle" THEN [c EXCEPT !.disturbed = @ \cup {f}] ELSE c BY <1>2, <2>3
    <2>5. CallFits(d, tree', origin, runs) BY <2>1, <2>2, <2>3, <2>4, CallGoesOn
    <2> QED BY <2>3, <2>5
  <1> QED BY <1>1, <1>3 DEF CallsFit

LEMMA CallsKept ==
  ASSUME UndoInv, UndoNext
  PROVE  CallsFit'
  <1> USE DEF UndoInv
  <1>0. runs \in Nat /\ runs <= MaxRuns /\ MaxRuns \in Nat /\ 1 .. runs \subseteq Ids BY Counting
  <1>1. CASE Create
    <2>1. UNCHANGED <<undo, tree>> /\ runs' = runs + 1 /\ origin' = [origin EXCEPT ![runs + 1] = tree]
      BY <1>1, CreateStep
    <2>2. origin \in [Ids -> [Files -> Contents]] BY DEF Basics
    <2>3. ASSUME NEW k \in 1 .. runs PROVE origin'[k] = origin[k]
      <3>1. k \in Ids /\ k # runs + 1 BY <1>0
      <3> QED BY <2>1, <2>2, <3>1
    <2>4. runs' \in Nat /\ runs <= runs' BY <1>0, <2>1
    <2> QED BY <2>1, <2>3, <2>4, CallsAge
  <1>2. CASE AgentEdit
    <2>1. PICK F \in SUBSET Files : undo' = Disturbed(Undoers, F) /\ \A f \in Files \ F : tree'[f] = tree[f]
      BY <1>2, AgentStep
    <2>2. UNCHANGED <<origin, runs>> BY <1>2 DEF AgentEdit, history
    <2> QED BY <2>1, <2>2, CallsDisturbed
  <1>3. CASE OtherWrite
    <2>1. PICK f \in Files : undo' = Disturbed(Undoers, {f}) /\ \A g \in Files \ {f} : tree'[g] = tree[g]
      BY <1>3, OtherStep
    <2>2. UNCHANGED <<origin, runs>> /\ {f} \in SUBSET Files BY <1>3 DEF OtherWrite
    <2> QED BY <2>1, <2>2, CallsDisturbed
  <1>4. CASE UNCHANGED <<undo, tree, runs, origin>> BY <1>0, <1>4, CallsAge
  <1>5. ASSUME NEW u \in Undoers, Load(u) PROVE CallsFit'
    <2>1. UNCHANGED <<tree, origin, runs>> BY <1>5 DEF Load, history
    <2>2. PICK k \in Ids : /\ disk[k].state # "missing"
                           /\ undo' = IF disk[k].state = "whole"
                                THEN [undo EXCEPT ![u] = [NoUndo EXCEPT
                                        !.pc = "check", !.id = k, !.checkpoint = disk[k],
                                        !.todo = DOMAIN disk[k].recorded, !.before = tree]]
                                ELSE undo
      BY <1>5 DEF Load
    <2>3. CASE disk[k].state # "whole" BY <1>4, <2>1, <2>2, <2>3
    <2>4. CASE disk[k].state = "whole"
      <3>1. k \in 1 .. runs BY <2>4, Counting DEF DiskFits
      <3>2. PICK c \in CheckpointFiles : c = disk[k] BY DEF DiskFits
      <3>3. SoundFor(c, origin[k]) BY <2>4, <3>2 DEF DiskFits
      <3>4. tree \in [Files -> Contents] BY DEF Basics
      <3> HIDE DEF CheckpointFiles, Contents, NoUndo
      <3> DEFINE r == [NoUndo EXCEPT !.pc = "check", !.id = k, !.checkpoint = c,
                                     !.todo = DOMAIN c.recorded, !.before = tree]
      <3>5. CallFits(r, tree, origin, runs)
        <4>1. PICK t \in [Files -> Contents] : t = tree BY <3>4
        <4>2. CallFits([NoUndo EXCEPT !.pc = "check", !.id = k, !.checkpoint = c,
                                 !.todo = DOMAIN c.recorded, !.before = t], t, origin, runs)
          BY <1>0, <3>1, <3>3, CallLoads
        <4> QED BY <4>1, <4>2
      <3>6. undo' = [undo EXCEPT ![u] = r] BY <2>2, <2>4, <3>2
      <3> HIDE DEF r
      <3> QED BY <2>1, <3>5, <3>6, OneCallMoves
    <2> QED BY <2>3, <2>4
  <1>6. ASSUME NEW u \in Undoers, Check(u) PROVE CallsFit'
    <2>1. UNCHANGED <<tree, origin, runs>> /\ undo[u].pc = "check" /\ undo[u].todo # {}
      BY <1>6 DEF Check, history
    <2>2. PICK f \in undo[u].todo : f = FirstPath(undo[u].todo) BY <2>1, FirstPathIn
    <2>3. undo' = [undo EXCEPT ![u] =
                    IF Refused(f) THEN NoUndo
                    ELSE [undo[u] EXCEPT !.todo = @ \ {f},
                                         !.conflicts = IF Matches(u, f) THEN @ ELSE @ \cup {f}]]
      BY <1>6, <2>2 DEF Check
    <2>4. PICK c : c = undo[u] OBVIOUS
    <2>5. CallFits(c, tree, origin, runs) BY <2>4, CallHas
    <2>6. CASE Refused(f)
      <3>1. undo' = [undo EXCEPT ![u] = NoUndo] BY <2>3, <2>6
      <3>2. CallFits(NoUndo, tree, origin, runs) BY IdleFits
      <3> HIDE DEF NoUndo
      <3> QED BY <2>1, <3>1, <3>2, OneCallMoves
    <2>7. CASE ~Refused(f)
      <3>0. PICK t : t = tree OBVIOUS
      <3> DEFINE hit == t[f] = c.checkpoint.recorded[f]
                 r == [c EXCEPT !.todo = @ \ {f}, !.conflicts = IF hit THEN @ ELSE @ \cup {f}]
      <3>1. undo' = [undo EXCEPT ![u] = r]
        <4>1. Matches(u, f) <=> hit BY <2>4, <3>0 DEF Matches
        <4> HIDE DEF hit
        <4> QED BY <2>3, <2>4, <2>7, <4>1
      <3>2. CallFits(r, t, origin, runs)
        <4>1. c.pc = "check" /\ f \in c.todo /\ CallFits(c, t, origin, runs) BY <2>1, <2>4, <2>5, <3>0
        <4> QED BY <4>1, CallChecks
      <3> HIDE DEF r
      <3> QED BY <2>1, <3>0, <3>1, <3>2, OneCallMoves
    <2> QED BY <2>6, <2>7
  <1>7. ASSUME NEW u \in Undoers, Decide(u) PROVE CallsFit'
    <2>1. UNCHANGED <<tree, origin, runs>> /\ undo[u].pc = "check" /\ undo[u].todo = {}
      BY <1>7 DEF Decide, history
    <2>2. PICK c : c = undo[u] OBVIOUS
    <2>3. CallFits(c, tree, origin, runs) BY <2>2, CallHas
    <2>4. undo = [v \in Undoers |-> undo[v]] BY DEF CallsFit
    <2>5. CASE c.conflicts = {}
      <3> DEFINE r == [c EXCEPT !.pc = "write", !.todo = DOMAIN c.checkpoint.recorded]
      <3>1. undo' = [undo EXCEPT ![u] = r] BY <1>7, <2>2, <2>4, <2>5 DEF Decide
      <3>2. CallFits(r, tree, origin, runs) BY <2>1, <2>2, <2>3, <2>5, CallDecides
      <3> HIDE DEF r
      <3> QED BY <2>1, <3>1, <3>2, OneCallMoves
    <2>6. CASE c.conflicts # {}
      <3> DEFINE r == [c EXCEPT !.pc = "conflict", !.todo = {}]
      <3>1. undo' = [undo EXCEPT ![u] = r] BY <1>7, <2>2, <2>4, <2>6 DEF Decide
      <3>2. CallFits(r, tree, origin, runs) BY <2>1, <2>2, <2>3, <2>6, CallDecides
      <3> HIDE DEF r
      <3> QED BY <2>1, <3>1, <3>2, OneCallMoves
    <2> QED BY <2>5, <2>6
  <1>8. ASSUME NEW u \in Undoers, Restore(u) PROVE CallsFit'
    <2>1. PICK f \in undo[u].todo :
           /\ undo[u].pc = "write"
           /\ tree' = [tree EXCEPT ![f] = Baseline(undo[u].checkpoint, f)]
           /\ undo' = [Disturbed(Undoers \ {u}, {f}) EXCEPT ![u].todo = @ \ {f}]
           /\ UNCHANGED <<runs, origin>>
      BY <1>8, RestoreStep
    <2>2. f \in Files /\ tree \in [Files -> Contents] BY CallHas DEF Basics
    <2>3. PICK c : c = undo[u] OBVIOUS
    <2>4. CallFits(c, tree, origin, runs) BY <2>3, CallHas
    <2> DEFINE r == [c EXCEPT !.todo = @ \ {f}]
    <2>5. undo' = [Disturbed(Undoers \ {u}, {f}) EXCEPT ![u] = r] BY <2>1, <2>3 DEF Disturbed
    <2>6. CallFits(r, tree', origin, runs)
      <3>1. PICK t \in [Files -> Contents] : t = tree BY <2>2
      <3>2. CallFits([c EXCEPT !.todo = @ \ {f}], [t EXCEPT ![f] = Baseline(c.checkpoint, f)], origin, runs)
        BY <2>1, <2>3, <2>4, <3>1, CallRestores
      <3> QED BY <2>1, <2>3, <3>1, <3>2
    <2>7. \A g \in Files \ {f} : tree'[g] = tree[g] BY <2>1, <2>2
    <2> HIDE DEF r
    <2> QED BY <2>1, <2>2, <2>5, <2>6, <2>7, OneCallWrites
  <1>9. ASSUME NEW u \in Undoers, RestoreTorn(u) PROVE CallsFit'
    <2>1. PICK f \in undo[u].todo :
           /\ tree' = [tree EXCEPT ![f] = Torn]
           /\ undo' = [Disturbed(Undoers \ {u}, {f}) EXCEPT ![u] = NoUndo]
           /\ UNCHANGED <<runs, origin>>
      BY <1>9, RestoreTornStep
    <2>2. f \in Files /\ tree \in [Files -> Contents] BY CallHas DEF Basics
    <2>3. CallFits(NoUndo, tree', origin, runs) BY IdleFits
    <2>4. \A g \in Files \ {f} : tree'[g] = tree[g] BY <2>1, <2>2
    <2> HIDE DEF NoUndo
    <2> QED BY <2>1, <2>2, <2>3, <2>4, OneCallWrites
  <1>10. ASSUME NEW u \in Undoers, Report(u) PROVE CallsFit'
    <2>1. UNCHANGED <<tree, origin, runs>> /\ undo[u].pc = "write" /\ undo[u].todo = {}
      BY <1>10 DEF Report, history
    <2>2. PICK c : c = undo[u] OBVIOUS
    <2>3. CallFits(c, tree, origin, runs) BY <2>2, CallHas
    <2> DEFINE r == [c EXCEPT !.pc = "restored"]
    <2>4. undo' = [undo EXCEPT ![u] = r] BY <1>10, <2>2 DEF Report
    <2>5. CallFits(r, tree, origin, runs) BY <2>1, <2>2, <2>3, CallReports
    <2> HIDE DEF r
    <2> QED BY <2>1, <2>4, <2>5, OneCallMoves
  <1>11. ASSUME NEW u \in Undoers, UndoStops(u) PROVE CallsFit'
    <2>1. UNCHANGED <<tree, origin, runs>> /\ undo' = [undo EXCEPT ![u] = NoUndo]
      BY <1>11 DEF UndoStops, history
    <2>2. CallFits(NoUndo, tree, origin, runs) BY IdleFits
    <2> HIDE DEF NoUndo
    <2> QED BY <2>1, <2>2, OneCallMoves
  <1>12. CASE Record \/ Persisted \/ RunStops BY <1>4, <1>12 DEF Record, Persisted, RunStops, history
  <1> QED BY <1>1, <1>2, <1>3, <1>5, <1>6, <1>7, <1>8, <1>9, <1>10, <1>11, <1>12 DEF UndoNext

-----------------------------------------------------------------------------
(* The stacks.                                                             *)
LEMMA HoldersTyped ==
  ASSUME UndoInv, NEW f
  PROVE  /\ Holders(f) \in SUBSET Ids /\ ActiveIds \in SUBSET Ids
         /\ \A k \in Holders(f) : k <= runs /\ k \in Int
         /\ \A j \in Holders(f) \cup ActiveIds : j <= runs
  <1>1. Holders(f) \in SUBSET Ids BY DEF Holders
  <1>2. ActiveIds \in SUBSET Ids /\ \A k \in ActiveIds : k = runs BY DEF ActiveIds, UndoInv, ActiveFits
  <1>3. ASSUME NEW k \in Holders(f) PROVE k <= runs /\ k \in Int
    <2>1. k \in Ids /\ live[k] # {} BY DEF Holders
    <2>2. runs \in Nat /\ k \in Int /\ (k > runs \/ k \in 1 .. runs) BY <2>1, Counting DEF UndoInv
    <2>3. ~(k > runs) BY <2>1 DEF UndoInv, DiskFits
    <2> QED BY <2>2, <2>3
  <1>4. \A k \in ActiveIds : k <= runs BY <1>2, Counting DEF UndoInv
  <1> QED BY <1>1, <1>2, <1>3, <1>4

(* The stack of f where nobody changes it.                                 *)
LEMMA StackSame ==
  ASSUME UndoInv, NEW f \in Files \ meddled,
         Holders(f)' = Holders(f), ActiveIds' \subseteq ActiveIds, first' = first,
         \A k \in Ids : k <= runs => origin'[k] = origin[k],
         \A k \in Holders(f) : f \in DOMAIN RecordedBy[k]
            => f \in DOMAIN RecordedBy'[k] /\ RecordedBy'[k][f] = RecordedBy[k][f],
         f \notin active'.todo => f \notin active.todo /\ tree'[f] = tree[f]
  PROVE  Stacked(f, tree[f], first[f], Holders(f), ActiveIds, origin, RecordedBy, active.todo)'
  <1>1. Stacked(f, tree[f], first[f], Holders(f), ActiveIds, origin, RecordedBy, active.todo)
    BY DEF UndoInv, StackFits
  <1>2. Holders(f) \in SUBSET Ids BY HoldersTyped
  <1>3. \A k \in Holders(f) \cup ActiveIds' : origin'[k][f] = origin[k][f] BY HoldersTyped
  <1>4. Stacked(f, tree'[f], first[f], Holders(f), ActiveIds', origin', RecordedBy', active'.todo)
    BY <1>1, <1>2, <1>3, StackedSame
  <1> QED BY <1>4
(* A run that goes on finds what it has recorded where it was.             *)
LEMMA RecordsStay ==
  ASSUME UNCHANGED <<active, disk>>
  PROVE  RecordedBy' = RecordedBy /\ ActiveIds' = ActiveIds
  BY DEF RecordedBy, RecordOf, ActiveIds

LEMMA RecordOfIs ==
  ASSUME NEW k \in Ids
  PROVE  RecordedBy[k] = RecordOf(k).recorded
  BY DEF RecordedBy

LEMMA RecordOfThen ==
  ASSUME NEW k \in Ids
  PROVE  RecordedBy'[k] = RecordOf(k)'.recorded
  BY DEF RecordedBy

LEMMA StackKeptCreate ==
  ASSUME UndoInv, Create
  PROVE  StackFits'
  <1> USE CreateStep
  <1>1. runs \in Nat /\ runs' = runs + 1 /\ runs + 1 \in Ids BY Counting DEF UndoInv
  <1>2. \A k \in Ids : k # runs + 1 => origin'[k] = origin[k] BY DEF UndoInv, Basics
  <1>3. \A k \in Ids : k <= runs => k # runs + 1 BY <1>1, Counting DEF UndoInv
  <1> SUFFICES ASSUME NEW f \in Files \ meddled
               PROVE  Stacked(f, tree[f], first[f], Holders(f), ActiveIds, origin, RecordedBy, active.todo)'
    BY DEF StackFits
  <1>4. Holders(f)' = Holders(f) BY DEF Holders
  <1>5. CASE UNCHANGED <<active, disk>>
    <2>1. ActiveIds' \subseteq ActiveIds /\ RecordedBy' = RecordedBy BY <1>5, RecordsStay
    <2> QED BY <1>2, <1>3, <1>4, <1>5, <2>1, StackSame
  <1>6. CASE \E m \in CheckpointFiles :
                 /\ SoundFor(m, tree) /\ DOMAIN m.recorded = {}
                 /\ active' = [pc |-> "persist", id |-> runs + 1, todo |-> {}, memory |-> m]
                 /\ disk' = [disk EXCEPT ![runs + 1] = TornFile]
    <2>1. PICK m \in CheckpointFiles :
            /\ active' = [pc |-> "persist", id |-> runs + 1, todo |-> {}, memory |-> m]
            /\ disk' = [disk EXCEPT ![runs + 1] = TornFile]
      BY <1>6
    <2>2. ActiveIds' = {runs + 1} /\ active'.todo = {} BY <2>1 DEF ActiveIds
    <2>3. ActiveIds = {} /\ active.todo = {} /\ active.pc = "idle" BY NoRunTyped DEF ActiveIds
    <2>4. ASSUME NEW k \in Holders(f) PROVE k < runs + 1 /\ origin'[k] = origin[k] /\ RecordedBy'[k] = RecordedBy[k]
      <3>1. k \in Ids /\ k <= runs /\ k \in Int /\ k # runs + 1 BY <1>3, HoldersTyped
      <3>2. disk'[k] = disk[k] BY <2>1, <3>1 DEF UndoInv, DiskFits
      <3>3. RecordOf(k)' = disk'[k] /\ RecordOf(k) = disk[k] BY <2>1, <2>3, <3>1 DEF RecordOf
      <3>4. RecordedBy'[k] = RecordedBy[k] BY <3>1, <3>2, <3>3, RecordOfIs, RecordOfThen
      <3> QED BY <1>1, <1>2, <3>1, <3>4
    <2>5. origin'[runs + 1][f] = tree[f] BY <1>1 DEF UndoInv, Basics
    <2>6. Stacked(f, tree[f], first[f], Holders(f), {}, origin, RecordedBy, {}) BY <2>3 DEF UndoInv, StackFits
    <2>7. Holders(f) \in SUBSET Ids BY HoldersTyped
    <2>8. Stacked(f, tree[f], first[f], Holders(f), {runs + 1}, origin', RecordedBy', {})
      BY <1>1, <2>4, <2>5, <2>6, <2>7, StackedCreate
    <2>9. tree' = tree /\ first' = first OBVIOUS
    <2> QED BY <1>4, <2>2, <2>8, <2>9
  <1> QED BY <1>5, <1>6

LEMMA StackKeptRecord ==
  ASSUME UndoInv, Record
  PROVE  StackFits'
  <1>1. PICK f \in active.todo, m \in CheckpointFiles :
           /\ active.pc = "record" /\ f \in Files /\ active.id \in Ids /\ active.id = runs
           /\ m.state = "whole" /\ m.baseline = disk[active.id].baseline
           /\ m.recorded = WithRecord(disk[active.id].recorded, f)
           /\ active' = [active EXCEPT !.pc = "persist", !.todo = @ \ {f}, !.memory = m]
           /\ disk' = [disk EXCEPT ![active.id] = TornFile]
           /\ live' = [live EXCEPT ![active.id] = @ \cup {f}]
           /\ UNCHANGED <<tree, first, undo, runs, edits, others, undos, origin, meddled>>
    BY RecordStep
  <1>2. PICK n \in Ids : n = active.id BY <1>1
  <1>3. live \in [Ids -> SUBSET Files] /\ disk \in [Ids -> CheckpointFiles] BY DEF UndoInv, Basics, DiskFits
  <1>4. /\ active'.pc = "persist" /\ active'.id = n /\ active'.todo = active.todo \ {f} /\ active'.memory = m
    BY <1>1, <1>2, ActiveTyped DEF UndoInv
  <1>5. ActiveIds = {n} /\ ActiveIds' = {n} BY <1>1, <1>2, <1>4 DEF ActiveIds
  <1>6. ASSUME NEW k \in Ids, k # n PROVE RecordedBy'[k] = RecordedBy[k]
    <2>1. RecordOf(k)' = disk'[k] /\ RecordOf(k) = disk[k] BY <1>1, <1>2, <1>4, <1>6 DEF RecordOf
    <2>2. disk'[k] = disk[k] BY <1>1, <1>2, <1>3, <1>6
    <2> QED BY <2>1, <2>2, RecordOfIs, RecordOfThen
  <1>7. RecordedBy[n] = disk[n].recorded /\ RecordedBy'[n] = m.recorded
    <2>1. RecordOf(n)' = m /\ RecordOf(n) = disk[n] BY <1>1, <1>2, <1>4 DEF RecordOf
    <2> QED BY <2>1, RecordOfIs, RecordOfThen
  <1>8. /\ DOMAIN m.recorded = DOMAIN disk[n].recorded \cup {f} /\ m.recorded[f] = tree[f]
        /\ \A g \in DOMAIN disk[n].recorded \ {f} : m.recorded[g] = disk[n].recorded[g]
    BY <1>1, <1>2 DEF WithRecord
  <1> SUFFICES ASSUME NEW g \in Files \ meddled
               PROVE  Stacked(g, tree'[g], first'[g], Holders(g)', ActiveIds', origin', RecordedBy', active'.todo)
    BY <1>1 DEF StackFits
  <1>9. Stacked(g, tree[g], first[g], Holders(g), {n}, origin, RecordedBy, active.todo)
    BY <1>5 DEF UndoInv, StackFits
  <1>10. Holders(g) \in SUBSET Ids /\ \A k \in Holders(g) : k <= n BY <1>1, <1>2, HoldersTyped
  <1>11. CASE g = f
    <2>1. Holders(g)' = Holders(g) \cup {n} BY <1>1, <1>2, <1>3, <1>11 DEF Holders
    <2>2. \A k \in Holders(g) : k # n => RecordedBy'[k] = RecordedBy[k] BY <1>6, <1>10
    <2>3. g \in DOMAIN RecordedBy'[n] /\ RecordedBy'[n][g] = tree[g] BY <1>7, <1>8, <1>11
    <2>4. Stacked(g, tree[g], first[g], Holders(g) \cup {n}, {n}, origin, RecordedBy', active'.todo)
      BY <1>9, <1>10, <2>2, <2>3, StackedRecord
    <2> QED BY <1>1, <1>5, <2>1, <2>4
  <1>12. CASE g # f
    <2>1. Holders(g)' = Holders(g) BY <1>1, <1>2, <1>3, <1>12 DEF Holders
    <2>2. ASSUME NEW k \in Holders(g), g \in DOMAIN RecordedBy[k]
          PROVE  g \in DOMAIN RecordedBy'[k] /\ RecordedBy'[k][g] = RecordedBy[k][g]
      <3>1. CASE k = n BY <1>7, <1>8, <1>12, <2>2, <3>1
      <3>2. CASE k # n BY <1>6, <1>10, <2>2, <3>2
      <3> QED BY <3>1, <3>2
    <2>3. g \notin active'.todo => g \notin active.todo /\ tree'[g] = tree[g] BY <1>1, <1>4, <1>12
    <2>4. Stacked(g, tree'[g], first[g], Holders(g), {n}, origin, RecordedBy', active'.todo)
      BY <1>9, <1>10, <2>2, <2>3, StackedSame
    <2> QED BY <1>1, <1>5, <2>1, <2>4
  <1> QED BY <1>11, <1>12

LEMMA StackKeptPersisted ==
  ASSUME UndoInv, Persisted
  PROVE  StackFits'
  <1>1. /\ active.pc = "persist"
        /\ disk' = [disk EXCEPT ![active.id] = active.memory]
        /\ active' = [active EXCEPT !.pc = IF active.todo = {} THEN "ready" ELSE "record", !.memory = Missing]
        /\ UNCHANGED <<tree, first, runs, origin, live, meddled>>
    BY DEF Persisted, history
  <1>2. active.id \in Ids /\ disk \in [Ids -> CheckpointFiles] BY <1>1 DEF UndoInv, ActiveFits, DiskFits
  <1>3. active'.pc \in {"ready", "record"} /\ active'.id = active.id /\ active'.todo = active.todo
    <2> HIDE DEF Missing
    <2> QED BY <1>1, ActiveTyped DEF UndoInv
  <1>4. ActiveIds' = ActiveIds BY <1>1, <1>3 DEF ActiveIds
  <1>5. ASSUME NEW k \in Ids PROVE RecordedBy'[k] = RecordedBy[k]
    <2>1. RecordOf(k)' = disk'[k] BY <1>3 DEF RecordOf
    <2>2. CASE k = active.id BY <1>1, <1>2, <2>1, <2>2, RecordOfIs, RecordOfThen DEF RecordOf
    <2>3. CASE k # active.id BY <1>1, <1>2, <2>1, <2>3, RecordOfIs, RecordOfThen DEF RecordOf
    <2> QED BY <2>2, <2>3
  <1> SUFFICES ASSUME NEW f \in Files \ meddled
               PROVE  Stacked(f, tree[f], first[f], Holders(f), ActiveIds, origin, RecordedBy, active.todo)'
    BY <1>1 DEF StackFits
  <1>6. Holders(f)' = Holders(f) BY <1>1 DEF Holders
  <1>7. \A k \in Holders(f) : RecordedBy'[k] = RecordedBy[k] BY <1>5, HoldersTyped
  <1> QED BY <1>1, <1>3, <1>4, <1>6, <1>7, StackSame

LEMMA StackKeptRunStops ==
  ASSUME UndoInv, RunStops
  PROVE  StackFits'
  <1>1. /\ active.pc # "idle" /\ active' = NoRun
        /\ meddled' = meddled \cup active.todo \cup (IF active.pc = "persist" THEN live[active.id] ELSE {})
        /\ UNCHANGED <<tree, first, disk, runs, origin, live>>
    BY DEF RunStops
  <1>2. active'.pc = "idle" /\ active'.todo = {} BY <1>1, NoRunTyped
  <1>3. ActiveIds' = {} BY <1>2 DEF ActiveIds
  <1> SUFFICES ASSUME NEW f \in Files \ meddled'
               PROVE  Stacked(f, tree[f], first[f], Holders(f), ActiveIds, origin, RecordedBy, active.todo)'
    BY DEF StackFits
  <1>4. f \in Files \ meddled /\ f \notin active.todo BY <1>1
  <1>5. Holders(f)' = Holders(f) BY <1>1 DEF Holders
  <1>6. ASSUME NEW k \in Holders(f) PROVE RecordedBy'[k] = RecordedBy[k]
    <2>1. k \in Ids /\ f \in live[k] BY DEF Holders
    <2>2. ~(active.pc = "persist" /\ k = active.id) BY <1>1, <2>1
    <2>3. RecordOf(k)' = disk'[k] /\ RecordOf(k) = disk[k] BY <1>2, <2>2 DEF RecordOf
    <2> QED BY <1>1, <2>1, <2>3, RecordOfIs, RecordOfThen
  <1>7. ActiveIds' \subseteq ActiveIds BY <1>3
  <1>8. \A k \in Ids : k <= runs => origin'[k] = origin[k] BY <1>1
  <1> QED BY <1>1, <1>4, <1>5, <1>6, <1>7, <1>8, StackSame

(* A file in which nothing but its content has changed.                    *)
LEMMA StackStays ==
  ASSUME UndoInv, NEW f \in Files \ meddled, Holders(f)' = Holders(f), UNCHANGED <<first, origin, disk, active>>,
         f \notin active.todo => tree'[f] = tree[f]
  PROVE  Stacked(f, tree[f], first[f], Holders(f), ActiveIds, origin, RecordedBy, active.todo)'
  <1>1. RecordedBy' = RecordedBy /\ ActiveIds' = ActiveIds BY RecordsStay
  <1> QED BY <1>1, StackSame

LEMMA StackKeptEdits ==
  ASSUME UndoInv, AgentEdit
  PROVE  StackFits'
  <1>1. PICK F \in SUBSET Files : /\ \A f \in Files \ F : tree'[f] = tree[f]
                                  /\ active' = [active EXCEPT !.pc = "record", !.todo = F]
    BY AgentStep DEF UndoInv
  <1>2. active.pc = "ready" /\ active.todo = {} /\ UNCHANGED <<disk, first, origin, live, meddled>>
    BY DEF AgentEdit, history, UndoInv, ActiveFits
  <1>3. active'.pc = "record" /\ active'.id = active.id /\ active'.todo = F BY <1>1, ActiveTyped DEF UndoInv
  <1>4. ActiveIds' = ActiveIds BY <1>2, <1>3 DEF ActiveIds
  <1>5. RecordedBy' = RecordedBy BY <1>2, <1>3 DEF RecordedBy, RecordOf
  <1> SUFFICES ASSUME NEW f \in Files \ meddled
               PROVE  Stacked(f, tree[f], first[f], Holders(f), ActiveIds, origin, RecordedBy, active.todo)'
    BY <1>2 DEF StackFits
  <1>6. Holders(f)' = Holders(f) BY <1>2 DEF Holders
  <1> QED BY <1>1, <1>2, <1>3, <1>4, <1>5, <1>6, StackSame

LEMMA StackKeptOthers ==
  ASSUME UndoInv, OtherWrite
  PROVE  StackFits'
  <1>1. PICK f \in Files : (\A g \in Files \ {f} : tree'[g] = tree[g]) /\ meddled' = meddled \cup {f}
    BY OtherStep DEF UndoInv
  <1>2. UNCHANGED <<disk, active, first, origin, live>> BY DEF OtherWrite
  <1> SUFFICES ASSUME NEW g \in Files \ meddled'
               PROVE  Stacked(g, tree[g], first[g], Holders(g), ActiveIds, origin, RecordedBy, active.todo)'
    BY DEF StackFits
  <1>3. Holders(g)' = Holders(g) BY <1>2 DEF Holders
  <1>4. g \in Files \ meddled /\ tree'[g] = tree[g] BY <1>1
  <1> QED BY <1>2, <1>3, <1>4, StackStays

LEMMA StackKeptTorn ==
  ASSUME UndoInv, NEW u \in Undoers, RestoreTorn(u)
  PROVE  StackFits'
  <1>1. PICK f \in undo[u].todo :
           /\ tree' = [tree EXCEPT ![f] = Torn]
           /\ live' = [live EXCEPT ![undo[u].id] = @ \ {f}]
           /\ meddled' = meddled \cup {f}
           /\ UNCHANGED <<disk, active, first, origin>>
    BY RestoreTornStep
  <1>2. tree \in [Files -> Contents] /\ live \in [Ids -> SUBSET Files] BY DEF UndoInv, Basics
  <1> SUFFICES ASSUME NEW g \in Files \ meddled'
               PROVE  Stacked(g, tree[g], first[g], Holders(g), ActiveIds, origin, RecordedBy, active.todo)'
    BY DEF StackFits
  <1>3. g \in Files \ meddled /\ g # f BY <1>1
  <1>4. tree'[g] = tree[g] BY <1>1, <1>2, <1>3
  <1>5. Holders(g)' = Holders(g) BY <1>1, <1>2, <1>3 DEF Holders
  <1> QED BY <1>1, <1>3, <1>4, <1>5, StackStays

LEMMA StackKeptRestore ==
  ASSUME UndoInv, NEW u \in Undoers, Restore(u)
  PROVE  StackFits'
  <1>1. PICK f \in undo[u].todo :
           /\ undo[u].pc = "write"
           /\ tree' = [tree EXCEPT ![f] = Baseline(undo[u].checkpoint, f)]
           /\ live' = [live EXCEPT ![undo[u].id] = @ \ {f}]
           /\ meddled' = IF OutOfOrder(u, f) THEN meddled \cup {f} ELSE meddled
           /\ UNCHANGED <<disk, active, runs, first, origin>>
    BY RestoreStep
  <1>2. tree \in [Files -> Contents] /\ live \in [Ids -> SUBSET Files] BY DEF UndoInv, Basics
  <1>3. f \in Files /\ undo[u].id \in 1 .. runs BY <1>1, CallHas DEF UndoInv
  <1>4. PICK k \in Ids : k = undo[u].id BY <1>3, Counting DEF UndoInv
  <1>5. tree'[f] = Baseline(undo[u].checkpoint, f) /\ \A g \in Files \ {f} : tree'[g] = tree[g] BY <1>1, <1>2, <1>3
  <1>6. live'[k] = live[k] \ {f} /\ \A j \in Ids \ {k} : live'[j] = live[j] BY <1>1, <1>2, <1>4
  <1> SUFFICES ASSUME NEW g \in Files \ meddled'
               PROVE  Stacked(g, tree[g], first[g], Holders(g), ActiveIds, origin, RecordedBy, active.todo)'
    BY DEF StackFits
  <1>7. g \in Files \ meddled BY <1>1
  <1>8. CASE g # f
    <2>1. tree'[g] = tree[g] BY <1>5, <1>8
    <2>2. Holders(g)' = Holders(g) BY <1>6, <1>8 DEF Holders
    <2> QED BY <1>1, <1>7, <2>1, <2>2, StackStays
  <1>9. CASE g = f
    <2>1. ~OutOfOrder(u, f) BY <1>1, <1>9
    <2>2. /\ \A j \in Ids : ~(j > k /\ f \in live[j])
          /\ ~(active.pc # "idle" /\ active.id > k)
          /\ f \in live[k] \cup active.todo \/ tree[f] = tree'[f]
          /\ tree'[f] = origin[k][f]
      BY <1>4, <1>5, <2>1 DEF OutOfOrder
    <2>3. CASE f \notin live[k]
      <3>1. Holders(g)' = Holders(g) BY <1>6, <1>9, <2>3 DEF Holders
      <3>2. g \notin active.todo => tree'[g] = tree[g] BY <1>9, <2>2, <2>3
      <3> QED BY <1>1, <1>7, <3>1, <3>2, StackStays
    <2>4. CASE f \in live[k]
      <3>1. Holders(g)' = Holders(g) \ {k} /\ k \in Holders(g) BY <1>6, <1>9, <2>4 DEF Holders
      <3>2. Holders(g) \in SUBSET Ids /\ ActiveIds \in SUBSET Ids BY HoldersTyped
      <3>3. ASSUME NEW j \in Holders(g) \cup ActiveIds PROVE j <= k
        <4>1. j \in Int /\ k \in Int BY <3>2, Counting DEF UndoInv
        <4>2. ~(j > k)
          <5>1. CASE j \in Holders(g) BY <1>9, <2>2, <5>1 DEF Holders
          <5>2. CASE j \in ActiveIds BY <2>2, <5>2 DEF ActiveIds
          <5> QED BY <5>1, <5>2
        <4> QED BY <4>1, <4>2
      <3>4. Stacked(g, tree[g], first[g], Holders(g), ActiveIds, origin, RecordedBy, active.todo)
        BY <1>7 DEF UndoInv, StackFits
      <3>5. Stacked(g, origin[k][g], first[g], Holders(g) \ {k}, ActiveIds, origin, RecordedBy, active.todo)
        BY <3>1, <3>2, <3>3, <3>4, StackedRestore
      <3>6. RecordedBy' = RecordedBy /\ ActiveIds' = ActiveIds BY <1>1, RecordsStay
      <3>7. tree'[g] = origin[k][g] BY <1>9, <2>2
      <3> QED BY <1>1, <3>1, <3>5, <3>6, <3>7
    <2> QED BY <2>3, <2>4
  <1> QED BY <1>8, <1>9

LEMMA StackKept ==
  ASSUME UndoInv, UndoNext
  PROVE  StackFits'
  <1>1. CASE UNCHANGED <<tree, first, disk, active, origin, live, meddled>>
    <2> SUFFICES ASSUME NEW f \in Files \ meddled
                 PROVE  Stacked(f, tree[f], first[f], Holders(f), ActiveIds, origin, RecordedBy, active.todo)'
      BY <1>1 DEF StackFits
    <2>1. Holders(f)' = Holders(f) BY <1>1 DEF Holders
    <2> QED BY <1>1, <2>1, StackStays
  <1> QED BY <1>1, StackKeptCreate, StackKeptEdits, StackKeptRecord, StackKeptPersisted, StackKeptRunStops,
             StackKeptOthers, StackKeptRestore, StackKeptTorn
          DEF UndoNext, Load, Check, Decide, Report, UndoStops, history

-----------------------------------------------------------------------------
LEMMA UndoInitially ==
  ASSUME UndoInit
  PROVE  UndoInv
  <1>0. /\ tree = [f \in Files |-> IF f \in Present THEN Original ELSE Absent] /\ first = tree
        /\ disk = [k \in Ids |-> Missing] /\ active = NoRun /\ undo = [u \in Undoers |-> NoUndo]
        /\ runs = 0 /\ edits = 0 /\ others = 0 /\ undos = 0
        /\ origin = [k \in Ids |-> first] /\ live = [k \in Ids |-> {}] /\ meddled = {}
    BY DEF UndoInit
  <1> HIDE DEF Contents, CheckpointFiles, Missing, NoRun, NoUndo
  <1>1. Basics
    <2>1. tree \in [Files -> Contents] BY <1>0, Constants
    <2>2. MaxRuns \in Nat /\ MaxEdits \in Nat /\ MaxOthers \in Nat /\ MaxUndos \in Nat BY CheckpointAssumption
    <2>3. runs \in 0 .. MaxRuns /\ edits \in 0 .. MaxEdits /\ others \in 0 .. MaxOthers /\ undos \in 0 .. MaxUndos
      BY <1>0, <2>2
    <2>4. origin \in [Ids -> [Files -> Contents]] BY <1>0, <2>1
    <2>5. live \in [Ids -> SUBSET Files] /\ meddled \subseteq Files BY <1>0
    <2> QED BY <1>0, <2>1, <2>3, <2>4, <2>5 DEF Basics
  <1>2. DiskFits
    <2>1. \A k \in Ids : disk[k] = Missing /\ live[k] = {} BY <1>0
    <2>2. Missing \in CheckpointFiles /\ Missing.state = "missing" BY Constants
    <2> QED BY <1>0, <2>1, <2>2 DEF DiskFits
  <1>3. ActiveFits BY <1>0, NoRunTyped DEF ActiveFits
  <1>4. CallsFit
    <2>1. \A u \in Undoers : undo[u] = NoUndo BY <1>0
    <2> QED BY <1>0, <2>1, IdleFits DEF CallsFit
  <1>5. StackFits
    <2> SUFFICES ASSUME NEW f \in Files
                 PROVE  Stacked(f, tree[f], first[f], Holders(f), ActiveIds, origin, RecordedBy, active.todo)
      BY DEF StackFits
    <2>1. Holders(f) = {} BY <1>0 DEF Holders
    <2>2. ActiveIds = {} BY <1>0, NoRunTyped DEF ActiveIds
    <2>3. tree[f] = first[f] BY <1>0
    <2> QED BY <2>1, <2>2, <2>3 DEF Stacked, Top
  <1> QED BY <1>1, <1>2, <1>3, <1>4, <1>5 DEF UndoInv

LEMMA UndoStutters ==
  ASSUME UndoInv, UNCHANGED undoVars
  PROVE  UndoInv'
  <1>1. Basics' BY DEF UndoInv, undoVars, Basics
  <1>2. DiskFits' BY DEF UndoInv, undoVars, DiskFits
  <1>3. ActiveFits' BY DEF UndoInv, undoVars, ActiveFits
  <1>4. CallsFit' BY DEF UndoInv, undoVars, CallsFit
  <1>5. StackFits'
    <2> SUFFICES ASSUME NEW f \in Files \ meddled
                 PROVE  Stacked(f, tree[f], first[f], Holders(f), ActiveIds, origin, RecordedBy, active.todo)'
      BY DEF StackFits, undoVars
    <2>1. Holders(f)' = Holders(f) BY DEF Holders, undoVars
    <2> QED BY <2>1, StackStays DEF undoVars
  <1> QED BY <1>1, <1>2, <1>3, <1>4, <1>5 DEF UndoInv

LEMMA UndoInductive == UndoSpec => []UndoInv
  <1>1. UndoInit => UndoInv BY UndoInitially
  <1>2. UndoInv /\ [UndoNext]_undoVars => UndoInv'
    <2> SUFFICES ASSUME UndoInv, [UndoNext]_undoVars PROVE UndoInv' OBVIOUS
    <2>1. CASE UndoNext
      <3>1. Basics' /\ DiskFits' /\ ActiveFits' /\ CallsFit' /\ StackFits'
        BY <2>1, BasicsKept, DiskKept, ActiveKept, CallsKept, StackKept
      <3> QED BY <3>1 DEF UndoInv
    <2>2. CASE UNCHANGED undoVars BY <2>2, UndoStutters
    <2> QED BY <2>1, <2>2
  <1> QED BY <1>1, <1>2, PTL DEF UndoSpec

LEMMA UndoTypes ==
  ASSUME UndoInv
  PROVE  UndoTypeOK
  <1> HIDE DEF Contents, CheckpointFiles
  <1>1. Basics BY DEF UndoInv
  <1>2. disk \in [Ids -> CheckpointFiles] BY DEF UndoInv, DiskFits
  <1>3. /\ active.pc \in {"idle", "persist", "ready", "record"}
        /\ active.id \in 0 .. MaxRuns /\ active.todo \subseteq Files
        /\ active.memory \in CheckpointFiles
        /\ active.pc \in {"ready", "record"} => disk[active.id].state = "whole"
    BY ActiveTyped DEF UndoInv, ActiveFits
  <1>4. ASSUME NEW u \in Undoers
        PROVE  /\ undo[u].pc \in {"idle", "check", "write", "conflict", "restored"}
               /\ undo[u].checkpoint \in CheckpointFiles
               /\ undo[u].todo \cup undo[u].conflicts \subseteq DOMAIN undo[u].checkpoint.recorded
               /\ undo[u].disturbed \subseteq Files
    <2>1. undo[u] \in Calls /\ CallFits(undo[u], tree, origin, runs) BY CallHas DEF UndoInv
    <2>2. undo[u].todo \cup undo[u].conflicts \subseteq DOMAIN undo[u].checkpoint.recorded BY <2>1 DEF CallFits
    <2> QED BY <2>1, <2>2, CallTyped
  <1> QED BY <1>1, <1>2, <1>3, <1>4 DEF UndoTypeOK, Basics

LEMMA UndoIsExact ==
  ASSUME UndoInv
  PROVE  UndoExact
  <1> SUFFICES ASSUME NEW u \in Undoers, NEW f \in Files, f \notin undo[u].disturbed
               PROVE  LET recorded == f \in DOMAIN undo[u].checkpoint.recorded
                          k == undo[u].id IN
                      /\ undo[u].pc = "restored" /\ recorded /\ Covered(k, f) => tree[f] = origin[k][f]
                      /\ \/ undo[u].pc = "restored" /\ ~recorded
                         \/ undo[u].pc \in {"check", "conflict"}
                           => tree[f] = undo[u].before[f]
    BY DEF UndoExact
  <1>1. PICK r : r = undo[u] OBVIOUS
  <1>2. CallFits(r, tree, origin, runs) BY <1>1, CallHas DEF UndoInv
  <1>3. r.pc # "idle" => Undisturbed(r, tree) /\ SoundFor(r.checkpoint, origin[r.id]) BY <1>2 DEF CallFits
  <1>4. r.pc = "restored" => r.todo = {} BY <1>2 DEF CallFits
  <1>5. r.pc = "restored" /\ f \in DOMAIN r.checkpoint.recorded => tree[f] = Baseline(r.checkpoint, f)
    BY <1>1, <1>3, <1>4 DEF Undisturbed
  <1>6. r.pc = "restored" /\ Covered(r.id, f) => Baseline(r.checkpoint, f) = origin[r.id][f]
    BY <1>3, BaselineIsOrigin DEF Covered
  <1>7. \/ r.pc = "restored" /\ f \notin DOMAIN r.checkpoint.recorded
        \/ r.pc \in {"check", "conflict"}
          => tree[f] = r.before[f]
    BY <1>1, <1>3 DEF Undisturbed
  <1> QED BY <1>1, <1>5, <1>6, <1>7

LEMMA UndoStacks ==
  ASSUME UndoInv
  PROVE  UndoStack
  <1> SUFFICES ASSUME NEW f \in Files \ (meddled \cup active.todo)
               PROVE  tree[f] = IF Holders(f) = {} THEN first[f]
                                ELSE RecordOf(Newest(Holders(f))).recorded[f]
    BY DEF UndoStack
  <1>1. Stacked(f, tree[f], first[f], Holders(f), ActiveIds, origin, RecordedBy, active.todo) BY DEF UndoInv, StackFits
  <1>2. tree[f] = Top(Holders(f), f, first[f], RecordedBy) BY <1>1 DEF Stacked
  <1>3. Holders(f) # {} => RecordedBy[Newest(Holders(f))] = RecordOf(Newest(Holders(f))).recorded
    BY HoldersTyped, NewestIn, RecordOfIs
  <1> QED BY <1>2, <1>3 DEF Top

(* A path that the second loop has still to restore is as it was recorded, *)
(* or others have written it while the call ran.                           *)
LEMMA UndoKeepsWork ==
  ASSUME UndoInv, NEW u \in Undoers, NEW f \in Files, undo[u].pc = "write", f \in undo[u].todo
  PROVE  f \in undo[u].disturbed \/ undo[u].checkpoint.recorded[f] = tree[f]
  <1>1. PICK r : r = undo[u] OBVIOUS
  <1>2. CallFits(r, tree, origin, runs) BY <1>1, CallHas DEF UndoInv
  <1>3. Undisturbed(r, tree) /\ f \in DOMAIN r.checkpoint.recorded BY <1>1, <1>2 DEF CallFits
  <1> QED BY <1>1, <1>3 DEF Undisturbed

\* Undo gives back exactly what was there, stacks, and keeps what others
\* wrote, whatever the files, the writers, the undos at once and the order
\* of it all (create_checkpoint, record_harness_change, restore).
THEOREM UndoSafe == UndoSpec => UndoIsSafe
  <1>1. UndoInv => UndoTypeOK /\ UndoExact /\ UndoStack BY UndoTypes, UndoIsExact, UndoStacks
  <1> DEFINE Kept == \A u \in Undoers, f \in Files :
         /\ undo[u].pc = "write"
         /\ f \in undo[u].todo /\ f \notin undo'[u].todo
         /\ tree[f].by = "other" /\ tree'[f] # tree[f]
         => f \in undo[u].disturbed \/ undo[u].checkpoint.recorded[f] = tree[f]
  <1>2. UndoInv /\ [UndoNext]_undoVars => [Kept]_undoVars BY UndoKeepsWork
  <1>3. UserWorkKept <=> [][Kept]_undoVars BY DEF UserWorkKept
  <1> HIDE DEF Kept
  <1> QED BY <1>1, <1>2, <1>3, UndoInductive, PTL DEF UndoSpec, UndoIsSafe
=============================================================================
