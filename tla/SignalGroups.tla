---------------------------- MODULE SignalGroups ----------------------------
(***************************************************************************)
(* How the IOGroups read signals in batches: push_signal() answers with an *)
(* index, read_batch() reads everything that was pushed while the device   *)
(* goes on, and sample() returns what was read under an index.  They do    *)
(* the same job in eleven ways, which the records below tell apart:        *)
(*   closes   when push_signal() begins to throw: never, when read_batch() *)
(*            is entered, or when it has succeeded;                        *)
(*   opens    when sample() stops throwing (always: it never throws);      *)
(*   slots    whether an index is a place in the list of what was pushed,  *)
(*            a place in the sorted map of all names, in the table of all  *)
(*            names and domain indices, or always 0;                       *)
(*   same     what makes a request one that was pushed before: the object  *)
(*            that a name and its alias share, or the name;                *)
(*   reads    all entries in one system call, one entry after the other,   *)
(*            or none (the values never change).                           *)
(* A value is the time at which the device had it.                         *)
(***************************************************************************)
EXTENDS Integers, Sequences, FiniteSetsExt, SequencesExt

CONSTANTS
  GroupNames,  \* the IOGroups to look at
  Index,       \* domain indices
  MaxAsk,      \* bound: different answers of push_signal()
  MaxTime,     \* bound: changes of the device
  MaxReads     \* bound: calls of read_batch()

ASSUME SignalAssumption ==
  /\ 0 \in Index /\ Index \subseteq Nat
  /\ MaxAsk \in Nat /\ MaxTime \in Nat /\ MaxReads \in Nat

VARIABLES
  sigGroup,       \* the IOGroup
  slots,       \* m_signal_pushed, or the sorted map: signal and domain index
  doRead,      \* the slots with m_do_read set
  stored,      \* m_value, or the sample of the Signal object, of each slot
  stamp,       \* cached_energy_timestamp and cached_timestamp, by domain index
  answers,     \* what push_signal() returned: signal, domain index, slot
  batch,       \* progress of read_batch(): what is left, when it began, how it ended
  now          \* the device's time

sigVars == <<sigGroup, slots, doRead, stored, stamp, answers, batch, now>>

Unread == -1

----------------------------------------------------------------------------
(* The groups *)

Behaviour(closes, opens, kind, same, reads) ==
  [closes |-> closes, opens |-> opens, slots |-> kind, same |-> same, reads |-> reads]

MsrSignals == Behaviour("success", "success", "list", "object", "once")
SstSignals == Behaviour("never", "success", "list", "object", "once")
LevelZeroSignals == Behaviour("enter", "enter", "list", "object", "each")
NvmlSignals == Behaviour("enter", "enter", "list", "object", "each")
DcgmSignals == Behaviour("enter", "enter", "list", "object", "each")
SysfsSignals == Behaviour("enter", "enter", "list", "name", "each")
CnlSignals == Behaviour("never", "always", "map", "name", "each")
ConstSignals == Behaviour("never", "always", "list", "object", "none")
CpuinfoSignals == Behaviour("never", "always", "map", "name", "none")
TimeSignals == Behaviour("success", "success", "zero", "object", "once")
DebugSignals == Behaviour("never", "always", "table", "name", "none")

SignalBehaviours ==
  [MSR |-> MsrSignals, SST |-> SstSignals, LEVELZERO |-> LevelZeroSignals, NVML |-> NvmlSignals,
   DCGM |-> DcgmSignals, SYSFS |-> SysfsSignals, CNL |-> CnlSignals, CONST_CONFIG |-> ConstSignals,
   CPUINFO |-> CpuinfoSignals, TIME |-> TimeSignals, DEBUG |-> DebugSignals]

Ways == SignalBehaviours[sigGroup]

\* ENERGY is a signal and TOTAL an alias of it; ENERGY_TIMESTAMP and POWER, its
\* derivative, come with it in LevelZeroIOGroup, and POWER in SysfsIOGroup.
Available ==
  CASE sigGroup = "LEVELZERO" -> {"ENERGY", "TOTAL", "ENERGY_TIMESTAMP", "POWER"}
    [] sigGroup = "SYSFS" -> {"ENERGY", "TOTAL", "POWER"}
    [] OTHER -> {"ENERGY", "TOTAL"}

IsDerived(s) == s = "POWER"

\* register_signal_alias(): an alias has a copy of the entry, which holds the
\* same Signal objects where the entry holds pointers.
Object(s) == IF s = "TOTAL" /\ Ways.same = "object" THEN "ENERGY" ELSE s

\* The domain of every signal here is native; groups of the board have one index.
DomainOf == IF Ways.slots = "map" THEN {0} ELSE Index

\* What has a slot before anything is pushed: a map is sorted by name; the table has
\* the names as they were registered, each with all domain indices.
SortedNames ==
  LET slotsOf(is) == FlattenSeq([k \in 1..2 |-> [j \in DOMAIN is |-> [sig |-> <<"ENERGY", "TOTAL">>[k], idx |-> is[j]]]])
  IN CASE Ways.slots = "map" -> slotsOf(<<0>>)
       [] Ways.slots = "table" -> slotsOf(SetToSortSeq(Index, <))
       [] OTHER -> <<>>

NoRead == [left |-> {}, begin |-> 0, count |-> 0, state |-> "idle"]

SignalInit ==
  /\ sigGroup \in GroupNames
  /\ slots = SortedNames
  /\ doRead = {}
  /\ stored = [k \in DOMAIN slots |-> Unread]
  /\ stamp = [i \in Index |-> Unread]
  /\ answers = {}
  /\ batch = NoRead
  /\ now = 0

----------------------------------------------------------------------------
(* push_signal() *)

IsClosed ==
  CASE Ways.closes = "never" -> FALSE
    [] Ways.closes = "enter" -> batch.count > 0
    [] Ways.closes = "success" -> batch.state = "done"

PlaceOf(q, s, i) == SelectInSeq(q, LAMBDA e : e.sig = Object(s) /\ e.idx = i)

\* push_signal() of most groups: the place of the entry, at the end if it is new.
Listed(q, s, i) == IF PlaceOf(q, s, i) = 0 THEN Append(q, [sig |-> Object(s), idx |-> i]) ELSE q

\* (bug) The time stamp is put before the signal it belongs to.
ListedLevelZeroLate(q, s, i) ==
  CASE s \in {"ENERGY_TIMESTAMP", "ENERGY"} -> Listed(Listed(q, "ENERGY_TIMESTAMP", i), "ENERGY", i)
    [] s = "POWER" -> Listed(Listed(Listed(q, "POWER", i), "ENERGY_TIMESTAMP", i), "ENERGY", i)
    [] OTHER -> Listed(q, s, i)

\* LevelZeroIOGroup: the signal goes before its time stamp, which is pushed with
\* it, though not with its alias; what a derivative needs goes after it.
ListedLevelZero(q, s, i) ==
  LET isNew == PlaceOf(q, "ENERGY", i) = 0
      withStamp == IF isNew THEN Listed(Listed(q, "ENERGY", i), "ENERGY_TIMESTAMP", i) ELSE q
  IN CASE s = "ENERGY" -> withStamp
       [] s = "TOTAL" -> Listed(q, "TOTAL", i)
       [] s = "ENERGY_TIMESTAMP" -> Listed(withStamp, "ENERGY_TIMESTAMP", i)
       [] s = "POWER" ->
            LET p == Listed(q, "POWER", i)
                e == IF isNew THEN Listed(Listed(p, "ENERGY", i), "ENERGY_TIMESTAMP", i) ELSE p
            IN Listed(e, "ENERGY_TIMESTAMP", i)

\* SysfsIOGroup: the source of a derived signal goes before it, under one of its
\* names.
ListedSysfs(q, s, i) ==
  IF IsDerived(s) THEN Listed(Listed(q, "ENERGY", i), s, i) ELSE Listed(q, s, i)

\* ConstConfigIOGroup with one value for all: the index is compared as it was
\* asked for and stored as 0.
ListedConst(q, s, i) ==
  IF PlaceOf(q, s, i) = 0 THEN Append(q, [sig |-> Object(s), idx |-> 0]) ELSE q

\* TimeIOGroup has one entry whatever is pushed.
ListedTime(q) == IF q = <<>> THEN <<[sig |-> "ENERGY", idx |-> 0]>> ELSE q

SlotsAfter(s, i) ==
  CASE sigGroup = "LEVELZERO" -> ListedLevelZero(slots, s, i)
    [] sigGroup = "SYSFS" -> ListedSysfs(slots, s, i)
    [] sigGroup = "CONST_CONFIG" -> ListedConst(slots, s, i)
    [] sigGroup = "TIME" -> ListedTime(slots)
    [] Ways.slots \in {"map", "table"} -> slots
    [] OTHER -> Listed(slots, s, i)

\* The index that push_signal() returns.
Answer(q, s, i) ==
  CASE sigGroup = "TIME" -> 1
    [] sigGroup = "CONST_CONFIG" -> IF PlaceOf(slots, s, i) = 0 THEN Len(q) ELSE PlaceOf(slots, s, i)
    [] OTHER -> PlaceOf(q, s, i)

PushOne(s, i) ==
  /\ batch.state # "reading" /\ ~IsClosed /\ Cardinality(answers) < MaxAsk
  /\ s \in Available /\ i \in DomainOf
  /\ LET q == SlotsAfter(s, i)
         k == Answer(q, s, i)
     IN /\ slots' = q
        /\ stored' = [j \in DOMAIN q |-> IF j \in DOMAIN stored THEN stored[j] ELSE Unread]
        /\ answers' = answers \union {[sig |-> s, idx |-> i, slot |-> k]}
        /\ doRead' = IF Ways.slots \in {"map", "table"} THEN doRead \union {k} ELSE DOMAIN q
  /\ UNCHANGED <<sigGroup, stamp, batch, now>>

----------------------------------------------------------------------------
(* read_batch() and read_signal() *)

\* A derivative is not read: it is computed from the samples of its parts.
IsRead(k) == k \in doRead /\ ~IsDerived(slots[k].sig) /\ Ways.reads # "none"

ReadBatch ==
  /\ batch.state # "reading" /\ batch.count < MaxReads
  /\ batch' = [left |-> {k \in DOMAIN slots : IsRead(k)}, begin |-> now,
               count |-> batch.count + 1, state |-> "reading"]
  /\ UNCHANGED <<sigGroup, slots, doRead, stored, stamp, answers, now>>

\* LevelZeroImp::energy_pair() keeps the time stamp that came with the value, and
\* energy_timestamp() returns it.
Device(s, i) == IF s = "ENERGY_TIMESTAMP" THEN stamp[i] ELSE now

Stamped(s, i) ==
  IF sigGroup = "LEVELZERO" /\ Object(s) = "ENERGY" THEN [stamp EXCEPT ![i] = now] ELSE stamp

ReadOne ==
  /\ batch.state = "reading" /\ Ways.reads = "each" /\ batch.left # {}
  /\ LET k == Min(batch.left)
     IN /\ stored' = [stored EXCEPT ![k] = Device(slots[k].sig, slots[k].idx)]
        /\ stamp' = Stamped(slots[k].sig, slots[k].idx)
  /\ batch' = [batch EXCEPT !.left = @ \ {Min(@)}]
  /\ UNCHANGED <<sigGroup, slots, doRead, answers, now>>

\* MSRIO, SSTIO and the clock are read at once.
ReadAll ==
  /\ batch.state = "reading" /\ Ways.reads = "once" /\ batch.left # {}
  /\ stored' = [k \in DOMAIN stored |-> IF k \in batch.left THEN now ELSE stored[k]]
  /\ batch' = [batch EXCEPT !.left = {}]
  /\ UNCHANGED <<sigGroup, slots, doRead, stamp, answers, now>>

\* The device refuses a read: the exception leaves the rest as it was.
ReadFails ==
  /\ batch.state = "reading" /\ batch.left # {} /\ sigGroup # "TIME"
  /\ batch' = [batch EXCEPT !.left = {}, !.state = "failed"]
  /\ UNCHANGED <<sigGroup, slots, doRead, stored, stamp, answers, now>>

EndBatch ==
  /\ batch.state = "reading" /\ batch.left = {}
  /\ batch' = [batch EXCEPT !.state = "done"]
  /\ UNCHANGED <<sigGroup, slots, doRead, stored, stamp, answers, now>>

\* read_signal() stores nothing; LevelZeroIOGroup answers NAN for a time stamp
\* and reads the device for the rest, as the derivative does eight times.
ReadSignal(s, i) ==
  /\ batch.state # "reading"
  /\ s \in Available /\ i \in DomainOf
  /\ s # "ENERGY_TIMESTAMP"
  /\ stamp' = Stamped(IF IsDerived(s) THEN "ENERGY" ELSE s, i)
  /\ UNCHANGED <<sigGroup, slots, doRead, stored, answers, batch, now>>

Pass ==
  /\ now < MaxTime
  /\ now' = now + 1
  /\ UNCHANGED <<sigGroup, slots, doRead, stored, stamp, answers, batch>>

SignalNext ==
  \/ \E s \in Available, i \in Index : PushOne(s, i) \/ ReadSignal(s, i)
  \/ ReadBatch \/ ReadOne \/ ReadAll \/ ReadFails \/ EndBatch \/ Pass

SignalSpec == SignalInit /\ [][SignalNext]_sigVars

----------------------------------------------------------------------------
(* sample() *)

CanSample(k) ==
  /\ k \in DOMAIN slots
  /\ CASE Ways.opens = "always" -> TRUE
       [] Ways.opens = "enter" -> batch.count > 0
       [] Ways.opens = "success" -> batch.state = "done"

\* The value, or for a derivative the times of the value and of the clock that
\* go into its next point.
SampleSignal(k) ==
  LET e == slots[k]
  IN CASE Ways.reads = "none" -> <<now>>
       [] IsDerived(e.sig) /\ sigGroup = "LEVELZERO" ->
            <<stored[PlaceOf(slots, "ENERGY", e.idx)], stored[PlaceOf(slots, "ENERGY_TIMESTAMP", e.idx)]>>
       [] IsDerived(e.sig) /\ sigGroup # "LEVELZERO" -> <<stored[PlaceOf(slots, "ENERGY", e.idx)]>>
       [] OTHER -> <<stored[k]>>

\* The type invariant.
SignalTypeOK ==
  /\ sigGroup \in GroupNames
  /\ slots \in Seq([sig : Available, idx : Index])
  /\ doRead \subseteq DOMAIN slots
  /\ stored \in [DOMAIN slots -> {Unread} \union 0..MaxTime]
  /\ stamp \in [Index -> {Unread} \union 0..MaxTime]
  /\ answers \subseteq [sig : Available, idx : Index, slot : DOMAIN slots]
  /\ batch.state \in {"idle", "reading", "done", "failed"}
  /\ now \in 0..MaxTime

\* The energy and the time stamp that a control loop samples belong together,
\* and so do the two points from which the power is derived, whichever of the
\* signals were pushed, in which order and under which name (push_signal() of
\* LevelZeroIOGroup with the stamps that LevelZeroImp keeps).
PairsMatch ==
  sigGroup = "LEVELZERO" /\ batch.state = "done" =>
    \A j, k \in DOMAIN slots :
      /\ slots[j].sig = "ENERGY" /\ slots[k] = [sig |-> "ENERGY_TIMESTAMP", idx |-> slots[j].idx]
           => SampleSignal(j) = SampleSignal(k)
      /\ IsDerived(slots[j].sig) => SampleSignal(j)[1] = SampleSignal(j)[2]

\* After a read_batch() that returned, sample() has for every request that was
\* pushed before it a value that the device had during that call, and direct
\* reads in between change none of them.
SampleOfLastRead ==
  batch.state = "done" /\ Ways.reads # "none" =>
    \A a \in answers :
      (a.slot \in DOMAIN stored /\ stored[a.slot] # Unread) \/ IsDerived(slots[a.slot].sig) =>
        \A v \in ToSet(SampleSignal(a.slot)) : v >= batch.begin

\* The index of a request stands for that request, whatever was pushed since.
IndexNamesRequest ==
  \A a \in answers :
    LET e == slots[a.slot]
    IN /\ e.sig = Object(a.sig) \/ sigGroup = "TIME"
       /\ e.idx = a.idx \/ sigGroup \in {"TIME", "CONST_CONFIG"}

\* Pushing a request again returns the same index: not so for a constant that
\* has one value for all, asked for on another domain index than 0.
SameIndex ==
  \A a, b \in answers : a.sig = b.sig /\ a.idx = b.idx => a.slot = b.slot

\* After read_batch() threw nothing of it can be sampled: not so for the groups
\* that note the call before they read.
FailedReadIsNotSampled ==
  batch.state = "failed" => \A k \in DOMAIN slots : CanSample(k) => stored[k] = Unread \/ stored[k] < batch.begin
=============================================================================
