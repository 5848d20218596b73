---------------------- MODULE ApplicationProfile_proofs ----------------------
(***************************************************************************)
(* Proofs about ApplicationProfile, for any number of processes, any       *)
(* regions, any size of the record table and any number of calls: the      *)
(* controller survives what processes that never saw an error write        *)
(* (ControllerSurvives), no visit of a region is lost or counted twice     *)
(* (VisitsConserved), and the short region events of the sampler's buffer  *)
(* name the short regions of all processes in order (HandlesMatch).        *)
(*                                                                         *)
(* The induction hypothesis says what a log between two dumps looks like,  *)
(* seen by the validator and by the map of regions entered since the last  *)
(* dump that the writer keeps and the reader does not know of.             *)
(***************************************************************************)
EXTENDS ApplicationProfile, NumberSetTheorems, TLAPS

(* The types of the records, also of a process one of whose calls has      *)
(* thrown.                                                                 *)

Entry == [record_idx : Int, region_idx : Int, is_short : BOOLEAN]

Region == [hash : Hash, num_complete : Nat]

LogRecord == [event : Event, signal : Hash \cup Nat]

Log == [records : Seq(LogRecord), regions : Seq(Region),
        enter_map : [Hash -> Entry], entered : Hash \cup {NoHash},
        epochs : Nat, overrun : BOOLEAN]

BufferRecord == [event : Event, signal : Hash \cup Nat, process : Process]

Sampler == [buffer : Seq(BufferRecord),
            shorts : Seq(Region), clients : SUBSET Process, client_pids : SUBSET Process,
            num_registered : Int, do_shutdown : BOOLEAN]

\* The signal of an entry or an exit is a region, that of a short region event
\* or an epoch a number.
Signals(records) ==
    \A i \in DOMAIN records :
      /\ records[i].event \in {"ENTRY", "EXIT"} => records[i].signal \in Hash
      /\ records[i].event \in {"SHORT", "EPOCH"} => records[i].signal \in Nat

Types ==
    /\ phase \in [Process -> {"new", "registered", "on", "leaving", "off", "dead"}]
    /\ registered \subseteq Process /\ threw \subseteq Process
    /\ current \in [Process -> Hash \cup {Unmarked}]
    /\ hint_stack \in [Process -> Seq(Hash)] /\ nest \in [Process -> Seq(Hash)]
    /\ log \in [Process -> Log]
    /\ \A p \in Process : Len(log[p].records) <= MaxRecord /\ Signals(log[p].records)
    /\ pc \in {"connect", "dump", "digest", "check", "done", "failed"}
    /\ todo \subseteq Process /\ io_pids \subseteq Process
    /\ sampler \in Sampler /\ Signals(sampler.buffer)
    /\ DOMAIN valid = Process
    /\ counts \in [Process -> [Hash -> Nat]] /\ visits \in [Process -> [Hash -> Nat]]

-----------------------------------------------------------------------------
(* One log.                                                                *)

\* The places of the records of an event.
At(records, event) == {i \in DOMAIN records : records[i].event = event}

Has(records, event) == At(records, event) # {}

\* The short region events of a log name its short regions, in order and each
\* of them once, and no two short regions are of the same hash.
Shorts(records, regions) ==
    /\ \A i \in At(records, "SHORT") : records[i].signal \in 0 .. Len(regions) - 1
    /\ \A i, j \in At(records, "SHORT") : i < j => records[i].signal < records[j].signal
    /\ \A r \in 0 .. Len(regions) - 1 : \E i \in At(records, "SHORT") : records[i].signal = r

Distinct(regions) ==
    \A r, s \in DOMAIN regions : regions[r].hash = regions[s].hash => r = s

\* What an entry of m_hash_region_enter_map says of its region: nothing, the
\* process is in it and has left it before the last dump, its entry record has
\* no later entry, exit or short region record, or it has a short region.
\* The map has no entry of a region that ended with the last dump.
Carried(l, h) ==
    /\ l.entered = h
    /\ l.enter_map[h] = [record_idx |-> -1, region_idx |-> -1, is_short |-> TRUE]

Open(l, h) ==
    LET e == l.enter_map[h]
    IN  /\ l.entered = h /\ ~e.is_short /\ e.region_idx = -1
        /\ e.record_idx + 1 \in DOMAIN l.records
        /\ l.records[e.record_idx + 1] = Rec("ENTRY", h)
        /\ \A i \in DOMAIN l.records :
             i > e.record_idx + 1 => l.records[i].event \notin {"ENTRY", "EXIT", "SHORT"}

Listed(l, h) ==
    LET e == l.enter_map[h]
    IN  /\ e.is_short /\ e.record_idx >= 0 /\ e.region_idx + 1 \in DOMAIN l.regions
        /\ l.regions[e.region_idx + 1].hash = h

NoRegion(l, h) == \A r \in DOMAIN l.regions : l.regions[r].hash # h

MapExact(l) ==
    \A h \in Hash :
      \/ (l.enter_map[h] = NoEntry \/ Carried(l, h) \/ Open(l, h)) /\ NoRegion(l, h)
      \/ Listed(l, h)

\* The region the validator is in at the end of the log.
Unfinished(l) == IF l.entered # NoHash /\ ~l.enter_map[l.entered].is_short THEN l.entered ELSE NoHash

\* The log of a process none of whose calls has thrown, seen by a validator
\* that holds v.
ResetExact(v, l) ==
        /\ l.records = <<>> => l.regions = <<>>
        /\ Shorts(l.records, l.regions) /\ Distinct(l.regions) /\ MapExact(l)
        /\ Checked(v, l.records).ok
        /\ Checked(v, l.records).epoch = l.epochs
        /\ Checked(v, l.records).hash = Unfinished(l)

LogExact(v, l) == ResetExact(v, CheckReset(l))

-----------------------------------------------------------------------------
(* One process.                                                            *)

ProcessExact(p) ==
    /\ hint_stack[p] = nest[p]
    /\ current[p] = IF nest[p] = <<>> THEN Unmarked ELSE Head(nest[p])
    /\ log[p].entered = IF nest[p] = <<>> THEN NoHash ELSE Head(nest[p])
    /\ phase[p] \in {"new", "registered"} => log[p] = NewLog
    /\ LogExact(valid[p], log[p])

Buffered == pc \in {"dump", "digest"}

Mine(p, event) == {i \in InBuffer(event) : sampler.buffer[i].process = p}

\* The stop record of p is written once, after the process has left, and not
\* digested before it is written.
StopOnce(p) ==
    /\ \A i, j \in At(log[p].records, "STOP") : i = j
    /\ Has(log[p].records, "STOP") => phase[p] \in {"off", "dead"}
    /\ p \in sampler.clients /\ (Has(log[p].records, "STOP") \/ phase[p] \notin {"off", "dead"})
         => p \in sampler.client_pids
    /\ Buffered =>
         /\ \A i, j \in Mine(p, "STOP") : i = j
         /\ Mine(p, "STOP") # {} => /\ p \in sampler.client_pids /\ phase[p] \in {"off", "dead"}
                                    /\ ~Has(log[p].records, "STOP") /\ ~Has(log[p].records, "START")

\* The short region events of p in the buffer.
OwnShorts(p) ==
    Buffered =>
      /\ \A i \in Mine(p, "SHORT") : sampler.buffer[i].signal < Len(sampler.shorts)
      /\ \A i, j \in Mine(p, "SHORT") :
           sampler.shorts[sampler.buffer[i].signal + 1].hash
             = sampler.shorts[sampler.buffer[j].signal + 1].hash => i = j

Conserved(p) ==
    pc # "failed" =>
      \A h \in Hash :
        visits[p][h] = counts[p][h] + NumExit(p, h) + NumShort(p, h)
                       + (IF Buffered THEN Completed(p, h) ELSE 0)

-----------------------------------------------------------------------------
(* The sampler.                                                            *)

Order ==
    /\ pc = "connect" => /\ sampler.clients = {} /\ sampler.buffer = <<>>
                         /\ sampler.shorts = <<>> /\ sampler.num_registered = 0
    /\ todo \subseteq sampler.clients
    /\ pc = "dump" => todo # {}
    /\ pc = "digest" => todo = {}
    /\ pc \notin {"connect", "failed"} => sampler.clients # {}
    /\ pc = "dump" => \A i \in DOMAIN sampler.buffer : sampler.buffer[i].process \notin todo

\* The processes whose start record is counted and whose stop record may come.
Owed == {p \in sampler.client_pids :
           /\ phase[p] \in {"on", "leaving"} \/ Has(log[p].records, "STOP")
                \/ (Buffered /\ Mine(p, "STOP") # {})
           /\ ~Has(log[p].records, "START")
           /\ Buffered => Mine(p, "START") = {}}

Starts(p) == 
    /\ pc = "connect" /\ phase[p] \in {"on", "leaving"} => Has(log[p].records, "START")
    /\ pc = "connect" /\ Has(log[p].records, "STOP") => Has(log[p].records, "START")

\* When no call has thrown
Together ==
    threw = {} =>
      /\ pc = "failed" => sampler.clients = {}
      /\ sampler.client_pids \subseteq sampler.clients
      /\ Cardinality(Owed) <= sampler.num_registered
      /\ Buffered => Shorts(sampler.buffer, sampler.shorts)

\* A process none of whose calls has thrown.
Fine(p) == ProcessExact(p) /\ StopOnce(p) /\ OwnShorts(p) /\ Conserved(p) /\ Starts(p)

\* The inductive invariant.
Inv == Types /\ Order /\ Together /\ \A p \in Process \ threw : Fine(p)
-----------------------------------------------------------------------------
(* What the validator holds after one more record, and after a record that *)
(* was changed.                                                            *)

\* The last record of a kind is the greatest index, and there is one.
LEMMA LastOfSome ==
    ASSUME NEW n \in Int, NEW S, S \subseteq 1 .. n, S # {}
    PROVE  Max(S) \in S /\ \A y \in S : Max(S) >= y
  <1>1. IsFiniteSet(1 .. n) /\ S \subseteq Int
    BY FS_Interval
  <1>2. IsFiniteSet(S)
    BY <1>1, FS_Subset
  <1> QED BY <1>1, <1>2, GreatestNumber

\* An index that no other exceeds is the last.
LEMMA LastIs ==
    ASSUME NEW n \in Int, NEW S, S \subseteq 1 .. n, n \in S
    PROVE  Max(S) = n
  <1>1. Max(S) \in S /\ \A y \in S : Max(S) >= y
    BY LastOfSome
  <1> DEFINE m == Max(S)
  <1>2. m \in 1 .. n /\ m >= n
    BY <1>1
  <1> HIDE DEF m
  <1>3. m = n
    BY <1>2
  <1> QED BY <1>3 DEF m

\* Records that agree before i leave the validator in the same state at i.
LEMMA CheckLocal ==
    ASSUME NEW v, NEW r, NEW s, NEW i \in Nat, i > 0,
           \A j \in 1 .. i - 1 : r[j] = s[j]
    PROVE  RegionAt(v, r, i) = RegionAt(v, s, i) /\ EpochAt(v, r, i) = EpochAt(v, s, i)
  <1> DEFINE R(q) == {j \in 1 .. i - 1 : q[j].event \in {"ENTRY", "EXIT"}}
             E(q) == {j \in 1 .. i - 1 : q[j].event = "EPOCH"}
  <1>1. R(r) = R(s) /\ E(r) = E(s)
    OBVIOUS
  <1>2. R(r) \subseteq 1 .. i - 1 /\ E(r) \subseteq 1 .. i - 1 /\ i - 1 \in Int
    OBVIOUS
  <1>3. /\ R(r) # {} => Max(R(r)) \in 1 .. i - 1
        /\ E(r) # {} => Max(E(r)) \in 1 .. i - 1
    <2> HIDE DEF R, E
    <2> QED BY <1>2, LastOfSome
  <1> QED BY <1>1, <1>3 DEF RegionAt, EpochAt

\* One record further.
LEMMA CheckStep ==
    ASSUME NEW v, NEW r, NEW i \in Nat, i > 0
    PROVE  /\ RegionAt(v, r, i + 1) = IF r[i].event = "ENTRY" THEN r[i].signal
                                      ELSE IF r[i].event = "EXIT" THEN NoHash
                                      ELSE RegionAt(v, r, i)
           /\ EpochAt(v, r, i + 1) = IF r[i].event = "EPOCH" THEN r[i].signal ELSE EpochAt(v, r, i)
  <1> DEFINE R(k) == {j \in 1 .. k - 1 : r[j].event \in {"ENTRY", "EXIT"}}
             E(k) == {j \in 1 .. k - 1 : r[j].event = "EPOCH"}
  <1>2. RegionAt(v, r, i + 1) = IF r[i].event = "ENTRY" THEN r[i].signal
                                ELSE IF r[i].event = "EXIT" THEN NoHash ELSE RegionAt(v, r, i)
    <2>1. CASE r[i].event \in {"ENTRY", "EXIT"}
      <3>1. R(i + 1) \subseteq 1 .. i /\ i \in R(i + 1)
        BY <2>1
      <3>2. Max(R(i + 1)) = i
        <4> HIDE DEF R
        <4> QED BY <3>1, LastIs
      <3> QED BY <2>1, <3>1, <3>2 DEF RegionAt
    <2>2. CASE r[i].event \notin {"ENTRY", "EXIT"}
      <3>1. R(i + 1) = R(i)
        BY <2>2
      <3> QED BY <2>2, <3>1 DEF RegionAt
    <2> QED BY <2>1, <2>2
  <1>3. EpochAt(v, r, i + 1) = IF r[i].event = "EPOCH" THEN r[i].signal ELSE EpochAt(v, r, i)
    <2>1. CASE r[i].event = "EPOCH"
      <3>1. E(i + 1) \subseteq 1 .. i /\ i \in E(i + 1)
        BY <2>1
      <3>2. Max(E(i + 1)) = i
        <4> HIDE DEF E
        <4> QED BY <3>1, LastIs
      <3> QED BY <2>1, <3>1, <3>2 DEF EpochAt
    <2>2. CASE r[i].event # "EPOCH"
      <3>1. E(i + 1) = E(i)
        BY <2>2
      <3> QED BY <2>2, <3>1 DEF EpochAt
    <2> QED BY <2>1, <2>2
  <1> QED BY <1>2, <1>3

\* A dump of no records leaves the validator as it is.
LEMMA CheckedEmpty ==
    ASSUME NEW v
    PROVE  /\ Checked(v, <<>>).epoch = v.epoch /\ Checked(v, <<>>).hash = v.hash
           /\ Checked(v, <<>>).ok <=> v.ok
  <1>1. \A S : S \in SUBSET (1 .. Len(<<>>) + 1 - 1) => S = {}
    OBVIOUS
  <1>2. RegionAt(v, <<>>, Len(<<>>) + 1) = v.hash /\ EpochAt(v, <<>>, Len(<<>>) + 1) = v.epoch
    BY DEF RegionAt, EpochAt
  <1>3. DOMAIN <<>> = {}
    OBVIOUS
  <1> QED BY <1>2, <1>3 DEF Checked

\* One record more.
LEMMA CheckedAppend ==
    ASSUME NEW v, NEW R, NEW r \in Seq(R), NEW x \in R
    PROVE  LET c == Checked(v, r)
               d == Checked(v, Append(r, x))
           IN  /\ d.ok <=> /\ c.ok
                           /\ x.event = "ENTRY" => c.hash = NoHash
                           /\ x.event = "EXIT" => c.hash = x.signal
                           /\ x.event = "EPOCH" => x.signal = c.epoch + 1
               /\ d.hash = IF x.event = "ENTRY" THEN x.signal
                           ELSE IF x.event = "EXIT" THEN NoHash ELSE c.hash
               /\ d.epoch = IF x.event = "EPOCH" THEN x.signal ELSE c.epoch
  <1> DEFINE s == Append(r, x)
             n == Len(r) + 1
  <1>1. n \in Nat /\ n > 0 /\ Len(s) = n /\ s[n] = x /\ DOMAIN s = 1 .. n /\ DOMAIN r = 1 .. n - 1
    OBVIOUS
  <1>2. \A j \in 1 .. n - 1 : s[j] = r[j]
    OBVIOUS
  <1> HIDE DEF s, n
  <1>3. \A i \in 1 .. n : RegionAt(v, s, i) = RegionAt(v, r, i) /\ EpochAt(v, s, i) = EpochAt(v, r, i)
    <2> SUFFICES ASSUME NEW i \in 1 .. n
                 PROVE  RegionAt(v, s, i) = RegionAt(v, r, i) /\ EpochAt(v, s, i) = EpochAt(v, r, i)
      OBVIOUS
    <2>1. i \in Nat /\ i > 0 /\ \A j \in 1 .. i - 1 : s[j] = r[j]
      BY <1>1, <1>2
    <2> QED BY <2>1, CheckLocal
  <1>4. /\ RegionAt(v, s, n + 1) = IF x.event = "ENTRY" THEN x.signal
                                   ELSE IF x.event = "EXIT" THEN NoHash ELSE RegionAt(v, r, n)
        /\ EpochAt(v, s, n + 1) = IF x.event = "EPOCH" THEN x.signal ELSE EpochAt(v, r, n)
    <2>1. n \in 1 .. n
      BY <1>1
    <2> QED BY <1>1, <1>3, <2>1, CheckStep
  <1>5. \A i \in 1 .. n - 1 : Check(v, s, i) <=> Check(v, r, i)
    BY <1>1, <1>2, <1>3 DEF Check
  <1>6. Check(v, s, n) <=> /\ x.event = "ENTRY" => RegionAt(v, r, n) = NoHash
                           /\ x.event = "EXIT" => RegionAt(v, r, n) = x.signal
                           /\ x.event = "EPOCH" => x.signal = EpochAt(v, r, n) + 1
    BY <1>1, <1>3 DEF Check
  <1>7. 1 .. n = (1 .. n - 1) \cup {n}
    BY <1>1
  <1>8. /\ Checked(v, r).hash = RegionAt(v, r, n) /\ Checked(v, r).epoch = EpochAt(v, r, n)
        /\ Checked(v, r).ok <=> v.ok /\ \A i \in 1 .. n - 1 : Check(v, r, i)
    BY <1>1 DEF Checked, n
  <1>9. /\ Checked(v, s).hash = RegionAt(v, s, n + 1) /\ Checked(v, s).epoch = EpochAt(v, s, n + 1)
        /\ Checked(v, s).ok <=> v.ok /\ \A i \in 1 .. n : Check(v, s, i)
    BY <1>1 DEF Checked
  <1>10. Checked(v, s).ok <=> Checked(v, r).ok /\ Check(v, s, n)
    BY <1>5, <1>7, <1>8, <1>9
  <1> QED BY <1>4, <1>6, <1>8, <1>9, <1>10 DEF s

\* The entry record of the region that the process is in becomes a short region
\* record: the validator then never enters the region.
LEMMA CheckedConvert ==
    ASSUME NEW v, NEW R, NEW r \in Seq(R), NEW k \in DOMAIN r, NEW x \in R,
           r[k].event = "ENTRY", x.event = "SHORT",
           \A i \in DOMAIN r : i > k => r[i].event \notin {"ENTRY", "EXIT"},
           Checked(v, r).ok
    PROVE  LET d == Checked(v, [r EXCEPT ![k] = x])
           IN  d.ok /\ d.hash = NoHash /\ d.epoch = Checked(v, r).epoch
  <1> DEFINE s == [r EXCEPT ![k] = x]
             n == Len(r) + 1
  <1>1. /\ n \in Nat /\ n > 0 /\ Len(s) = n - 1 /\ DOMAIN s = 1 .. n - 1 /\ DOMAIN r = 1 .. n - 1
        /\ k \in Nat /\ k > 0 /\ k < n /\ s[k] = x
    OBVIOUS
  <1>2. \A j \in 1 .. n - 1 : j # k => s[j] = r[j]
    OBVIOUS
  <1>a. /\ Checked(v, r).epoch = EpochAt(v, r, n)
        /\ Checked(v, r).ok <=> v.ok /\ \A i \in 1 .. n - 1 : Check(v, r, i)
    BY <1>1 DEF Checked
  <1> HIDE DEF s, n
  <1>b. /\ Checked(v, s).hash = RegionAt(v, s, n) /\ Checked(v, s).epoch = EpochAt(v, s, n)
        /\ Checked(v, s).ok <=> v.ok /\ \A i \in 1 .. n - 1 : Check(v, s, i)
    <2>1. Len(s) + 1 = n
      BY <1>1
    <2> QED BY <1>1, <2>1 DEF Checked
  <1>3. \A i \in 1 .. n : EpochAt(v, s, i) = EpochAt(v, r, i)
    <2> SUFFICES ASSUME NEW i \in 1 .. n PROVE EpochAt(v, s, i) = EpochAt(v, r, i)
      OBVIOUS
    <2> DEFINE E(q) == {j \in 1 .. i - 1 : q[j].event = "EPOCH"}
    <2>1. \A j \in 1 .. i - 1 : s[j].event = "EPOCH" <=> r[j].event = "EPOCH"
      BY <1>1, <1>2
    <2>2. E(s) = E(r)
      BY <2>1
    <2>3. E(r) # {} => Max(E(r)) \in E(r)
      <3>1. E(r) \subseteq 1 .. i - 1 /\ i - 1 \in Int
        BY <1>1
      <3> HIDE DEF E
      <3> QED BY <3>1, LastOfSome
    <2>4. E(r) # {} => s[Max(E(r))] = r[Max(E(r))]
      BY <1>1, <1>2, <2>3
    <2> QED BY <2>2, <2>4 DEF EpochAt
  <1>4. \A i \in 1 .. k : RegionAt(v, s, i) = RegionAt(v, r, i)
    <2> SUFFICES ASSUME NEW i \in 1 .. k PROVE RegionAt(v, s, i) = RegionAt(v, r, i)
      OBVIOUS
    <2>1. i \in Nat /\ i > 0 /\ \A j \in 1 .. i - 1 : s[j] = r[j]
      BY <1>1, <1>2
    <2> QED BY <2>1, CheckLocal
  <1>5. RegionAt(v, r, k) = NoHash
    BY <1>1, <1>a DEF Check
  <1>6. \A i \in k .. n : RegionAt(v, s, i) = NoHash
    <2> SUFFICES ASSUME NEW i \in k .. n PROVE RegionAt(v, s, i) = NoHash
      OBVIOUS
    <2> DEFINE B(m) == {j \in 1 .. m - 1 : s[j].event \in {"ENTRY", "EXIT"}}
    <2>1. \A j \in 1 .. i - 1 : s[j].event \in {"ENTRY", "EXIT"} => j < k
      BY <1>1, <1>2
    <2>2. B(i) = B(k)
      BY <1>1, <2>1
    <2>3. RegionAt(v, s, i) = RegionAt(v, s, k)
      BY <2>2 DEF RegionAt
    <2>4. k \in 1 .. k
      BY <1>1
    <2> QED BY <1>4, <1>5, <2>3, <2>4
  <1>7. ASSUME NEW i \in 1 .. n - 1 PROVE Check(v, s, i)
    <2>1. Check(v, r, i) /\ i \in 1 .. n /\ i \in Nat
      BY <1>1, <1>a
    <2>2. CASE i = k
      BY <1>1, <2>2 DEF Check
    <2>3. CASE i > k
      BY <1>1, <1>2, <1>3, <2>1, <2>3 DEF Check
    <2>4. CASE i < k
      BY <1>1, <1>2, <1>3, <1>4, <2>1, <2>4 DEF Check
    <2> QED BY <1>1, <2>1, <2>2, <2>3, <2>4
  <1>8. n \in 1 .. n /\ n \in k .. n
    BY <1>1
  <1> QED BY <1>3, <1>6, <1>7, <1>8, <1>a, <1>b DEF s

-----------------------------------------------------------------------------
(* The operations of the log, for a log that was exact.                    *)

\* The constants, as the proofs need them.
LEMMA Constants ==
    /\ NoHash \notin Hash /\ Unmarked \notin Hash /\ Unmarked # NoHash
    /\ MaxRecord \in Nat /\ MaxRecord > 0
    /\ NumProc \in Nat /\ NumProc > 0
  BY LogAssumption, ProfileAssumption

\* check_reset() leaves all but the map alone, and the map too when there are
\* records.
LEMMA ResetShape ==
    ASSUME NEW l \in Log
    PROVE  LET m == CheckReset(l)
           IN  /\ m \in Log
               /\ m.records = l.records /\ m.regions = l.regions /\ m.entered = l.entered
               /\ m.epochs = l.epochs /\ m.overrun = l.overrun
               /\ l.records # <<>> => m = l
               /\ l.records = <<>> =>
                    \A h \in Hash : m.enter_map[h] =
                      IF h = l.entered /\ l.enter_map[h].is_short
                      THEN [record_idx |-> -1, region_idx |-> -1, is_short |-> TRUE] ELSE NoEntry
  <1> DEFINE m == CheckReset(l)
             Map == [h \in Hash |->
                       IF h = l.entered /\ l.enter_map[h].is_short
                       THEN [record_idx |-> -1, region_idx |-> -1, is_short |-> TRUE] ELSE NoEntry]
  <1>1. CASE l.records # <<>>
    BY <1>1 DEF CheckReset
  <1>2. CASE l.records = <<>>
    <2>1. Map \in [Hash -> Entry]
      BY DEF Entry, NoEntry
    <2> HIDE DEF Map
    <2>2. m = [l EXCEPT !.enter_map = Map]
      BY <1>2 DEF CheckReset, Map
    <2> HIDE DEF m
    <2>3. /\ m \in Log /\ m.enter_map = Map
          /\ m.records = l.records /\ m.regions = l.regions /\ m.entered = l.entered
          /\ m.epochs = l.epochs /\ m.overrun = l.overrun
      BY <2>1, <2>2 DEF Log
    <2> QED BY <1>2, <2>3 DEF m, Map
  <1> QED BY <1>1, <1>2

\* A log with records is not reset.
LEMMA ExactWithRecords ==
    ASSUME NEW v, NEW l, l.records # <<>>
    PROVE  LogExact(v, l) <=> ResetExact(v, l)
  BY DEF LogExact, CheckReset

\* Only the short region events matter.
LEMMA ShortsSame ==
    ASSUME NEW r, NEW s, NEW g, Shorts(r, g), At(s, "SHORT") = At(r, "SHORT"),
           \A i \in At(r, "SHORT") : s[i] = r[i]
    PROVE  Shorts(s, g)
  <1> DEFINE A == At(r, "SHORT")
             n == Len(g) - 1
  <1>1. /\ \A i \in A : r[i].signal \in 0 .. n
        /\ \A i, j \in A : i < j => r[i].signal < r[j].signal
        /\ \A k \in 0 .. n : \E i \in A : r[i].signal = k
    BY DEF Shorts
  <1>2. \A i \in A : s[i].signal = r[i].signal
    OBVIOUS
  <1> HIDE DEF A, n
  <1>3. /\ \A i \in A : s[i].signal \in 0 .. n
        /\ \A i, j \in A : i < j => s[i].signal < s[j].signal
        /\ \A k \in 0 .. n : \E i \in A : s[i].signal = k
    BY <1>1, <1>2
  <1> QED BY <1>3 DEF Shorts, A, n

\* A record that is none of a region may follow in any exact log.
LEMMA QuietAppend ==
    ASSUME NEW v, NEW l \in Log, NEW m \in Log, NEW x \in LogRecord,
           LogExact(v, l), x.event \notin {"ENTRY", "EXIT", "SHORT"},
           m.records = Append(l.records, x), m.regions = l.regions, m.entered = l.entered,
           m.enter_map = CheckReset(l).enter_map,
           m.epochs = IF x.event = "EPOCH" THEN x.signal ELSE l.epochs,
           x.event = "EPOCH" => x.signal = l.epochs + 1
    PROVE  LogExact(v, m)
  <1> DEFINE q == CheckReset(l)
  <1>1. /\ q \in Log /\ q.records = l.records /\ q.regions = l.regions
        /\ q.entered = l.entered /\ q.epochs = l.epochs /\ ResetExact(v, q)
    BY ResetShape DEF LogExact
  <1> HIDE DEF q
  <1>2. /\ q.records \in Seq(LogRecord) /\ m.records = Append(q.records, x)
        /\ m.records # <<>> /\ m.regions = q.regions /\ m.entered = q.entered
        /\ m.enter_map = q.enter_map
    <2>1. q.records \in Seq(LogRecord) /\ m.enter_map = q.enter_map
      BY <1>1 DEF Log, q
    <2>2. Append(q.records, x) # <<>>
      BY <2>1
    <2> QED BY <1>1, <2>1, <2>2
  <1>3. /\ DOMAIN m.records = 1 .. Len(q.records) + 1 /\ DOMAIN q.records = 1 .. Len(q.records)
        /\ Len(q.records) \in Nat
        /\ m.records[Len(q.records) + 1] = x
        /\ \A i \in DOMAIN q.records : m.records[i] = q.records[i]
    BY <1>2
  <1>4. At(m.records, "SHORT") = At(q.records, "SHORT")
    BY <1>3 DEF At
  <1>5. Shorts(m.records, m.regions) /\ Distinct(m.regions)
    <2> DEFINE s == m.records
    <2>1. At(s, "SHORT") = At(q.records, "SHORT") /\ \A i \in At(q.records, "SHORT") : s[i] = q.records[i]
      BY <1>3, <1>4 DEF At
    <2>2. Shorts(q.records, q.regions) /\ Distinct(q.regions)
      BY <1>1 DEF ResetExact
    <2>3. m.regions = q.regions
      BY <1>2
    <2> HIDE DEF s
    <2>4. Shorts(s, q.regions)
      BY <2>1, <2>2, ShortsSame
    <2> QED BY <2>2, <2>3, <2>4 DEF s
  <1>6. MapExact(m)
    <2> SUFFICES ASSUME NEW h \in Hash
                 PROVE  \/ /\ m.enter_map[h] = NoEntry \/ Carried(m, h) \/ Open(m, h)
                           /\ NoRegion(m, h)
                        \/ Listed(m, h)
      BY DEF MapExact
    <2>1. NoRegion(q, h) => NoRegion(m, h)
      BY <1>2 DEF NoRegion
    <2>2. Carried(q, h) => Carried(m, h)
      BY <1>2 DEF Carried
    <2>3. Listed(q, h) => Listed(m, h)
      BY <1>2 DEF Listed
    <2>4. Open(q, h) => Open(m, h)
      BY <1>2, <1>3 DEF Open
    <2> QED BY <1>1, <1>2, <2>1, <2>2, <2>3, <2>4 DEF ResetExact, MapExact
  <1>7. Unfinished(m) = Unfinished(q)
    BY <1>2 DEF Unfinished
  <1>8. /\ Checked(v, m.records).ok /\ Checked(v, m.records).epoch = m.epochs
        /\ Checked(v, m.records).hash = Unfinished(m)
    BY <1>1, <1>2, <1>7, CheckedAppend DEF ResetExact
  <1> QED BY <1>2, <1>5, <1>6, <1>8, ExactWithRecords DEF ResetExact

\* start_profile(), stop_profile(), affinity() and overhead() when they do not
\* throw.
LEMMA MarkExact ==
    ASSUME NEW v, NEW l \in Log, NEW e \in {"START", "STOP", "AFFINITY", "OVERHEAD"},
           ~MarkThrows(l)
    PROVE  LET m == LogMark(l, e)
           IN  /\ m \in Log /\ m.records = Append(l.records, Rec(e, 0))
               /\ m.regions = l.regions /\ m.entered = l.entered /\ m.epochs = l.epochs
               /\ LogExact(v, l) => LogExact(v, m)
  <1> DEFINE q == CheckReset(l)
             m == LogMark(l, e)
             x == Rec(e, 0)
  <1>1. /\ q \in Log /\ q.records = l.records /\ q.regions = l.regions
        /\ q.entered = l.entered /\ q.epochs = l.epochs
    BY ResetShape
  <1>2. m = [q EXCEPT !.records = Append(@, x)]
    BY <1>1 DEF LogMark, AppendRecord, IsFull, MarkThrows
  <1>3. x \in LogRecord /\ x.event = e
    BY DEF Rec, LogRecord, Event
  <1> HIDE DEF q, m, x
  <1>4. /\ m \in Log /\ m.records = Append(l.records, x) /\ m.regions = l.regions
        /\ m.entered = l.entered /\ m.epochs = l.epochs /\ m.enter_map = q.enter_map
    <2>1. Append(q.records, x) \in Seq(LogRecord)
      BY <1>1, <1>3 DEF Log
    <2> QED BY <1>1, <1>2, <2>1 DEF Log
  <1>5. LogExact(v, l) => LogExact(v, m)
    BY <1>3, <1>4, QuietAppend DEF q
  <1> QED BY <1>4, <1>5 DEF m, x

\* epoch() when it does not throw.
LEMMA EpochExact ==
    ASSUME NEW v, NEW l \in Log, ~IsFull(l)
    PROVE  LET m == LogEpoch(l)
           IN  /\ m \in Log /\ m.records = Append(l.records, Rec("EPOCH", l.epochs + 1))
               /\ m.regions = l.regions /\ m.entered = l.entered
               /\ LogExact(v, l) => LogExact(v, m)
  <1> DEFINE q == CheckReset(l)
             m == LogEpoch(l)
             x == Rec("EPOCH", l.epochs + 1)
  <1>1. /\ q \in Log /\ q.records = l.records /\ q.regions = l.regions
        /\ q.entered = l.entered /\ q.epochs = l.epochs
    BY ResetShape
  <1>2. m = [q EXCEPT !.epochs = @ + 1, !.records = Append(@, x)]
    BY <1>1 DEF LogEpoch, AppendRecord, IsFull, Log
  <1>3. x \in LogRecord /\ x.event = "EPOCH" /\ x.signal = l.epochs + 1
    BY DEF Rec, LogRecord, Event, Log
  <1> HIDE DEF q, m, x
  <1>4. /\ m \in Log /\ m.records = Append(l.records, x) /\ m.regions = l.regions
        /\ m.entered = l.entered /\ m.epochs = l.epochs + 1 /\ m.enter_map = q.enter_map
    <2>1. Append(q.records, x) \in Seq(LogRecord) /\ q.epochs + 1 \in Nat
      BY <1>1, <1>3 DEF Log
    <2>2. m \in Log
      BY <1>1, <1>2, <2>1 DEF Log
    <2> QED BY <1>1, <1>2, <2>2 DEF Log
  <1>5. LogExact(v, l) => LogExact(v, m)
    BY <1>3, <1>4, QuietAppend DEF q
  <1> QED BY <1>4, <1>5 DEF m, x

\* enter() of a process that is in no region, when it does not throw.
LEMMA EnterExact ==
    ASSUME NEW v, NEW l \in Log, NEW h \in Hash, LogExact(v, l), l.entered = NoHash,
           ~EnterThrows(l, h)
    PROVE  LET m == LogEnter(l, h)
           IN  /\ m \in Log /\ m.regions = l.regions /\ m.entered = h
               /\ m.records = l.records \/ (m.records = Append(l.records, Rec("ENTRY", h)) /\ ~IsFull(l))
               /\ LogExact(v, m)
  <1> DEFINE q == CheckReset(l)
             m == LogEnter(l, h)
             new == [record_idx |-> Len(q.records), region_idx |-> -1, is_short |-> FALSE]
             x == Rec("ENTRY", h)
             r == q.records
             s == m.records
  <1>1. /\ q \in Log /\ q.records = l.records /\ q.regions = l.regions
        /\ q.entered = NoHash /\ q.epochs = l.epochs /\ ResetExact(v, q)
    BY ResetShape DEF LogExact
  <1>2. x \in LogRecord /\ x.event = "ENTRY" /\ x.signal = h /\ NoHash # h
    BY Constants DEF Rec, LogRecord, Event
  <1>3. r \in Seq(LogRecord) /\ new \in Entry /\ Len(r) \in Nat /\ DOMAIN r = 1 .. Len(r)
    BY <1>1 DEF Log, Entry
  <1>4. /\ Shorts(r, q.regions) /\ Distinct(q.regions)
        /\ Checked(v, r).ok /\ Checked(v, r).epoch = q.epochs /\ Checked(v, r).hash = NoHash
        /\ r = <<>> => q.regions = <<>>
    BY <1>1 DEF ResetExact, Unfinished
  <1>5. ASSUME NEW g \in Hash
        PROVE  (q.enter_map[g] = NoEntry /\ NoRegion(q, g)) \/ Listed(q, g)
    <2>1. ~Carried(q, g) /\ ~Open(q, g)
      BY <1>1, Constants DEF Carried, Open
    <2> QED BY <1>1, <2>1 DEF ResetExact, MapExact
  <1>6. CASE q.enter_map[h] # NoEntry
    <2>1. m = [q EXCEPT !.entered = h]
      BY <1>6 DEF LogEnter
    <2> HIDE DEF q, m
    <2>2. /\ m \in Log /\ m.records = q.records /\ m.regions = q.regions /\ m.entered = h
          /\ m.enter_map = q.enter_map /\ m.epochs = q.epochs
      BY <1>1, <2>1 DEF Log
    <2>3. Listed(q, h)
      BY <1>5, <1>6
    <2>4. m.records # <<>>
      <3>1. q.regions # <<>>
        BY <2>3 DEF Listed
      <3> QED BY <1>4, <2>2, <3>1
    <2>5. MapExact(m)
      <3> SUFFICES ASSUME NEW g \in Hash
                   PROVE  (m.enter_map[g] = NoEntry /\ NoRegion(m, g)) \/ Listed(m, g)
        BY DEF MapExact
      <3> QED BY <1>5, <2>2 DEF Listed, NoRegion
    <2>6. Unfinished(m) = NoHash
      BY <2>2, <2>3 DEF Unfinished, Listed
    <2>7. ResetExact(v, m)
      BY <1>4, <2>2, <2>4, <2>5, <2>6 DEF ResetExact
    <2> QED BY <1>1, <2>2, <2>4, <2>7, ExactWithRecords DEF m
  <1>7. CASE q.enter_map[h] = NoEntry
    <2>1. ~IsFull(q)
      BY <1>7 DEF EnterThrows
    <2>2. m = [q EXCEPT !.enter_map[h] = new, !.records = Append(@, x), !.entered = h]
      BY <1>1, <1>7, <2>1 DEF LogEnter, AppendRecord, IsFull, Log
    <2>a. Append(r, x) \in Seq(LogRecord)
      BY <1>2, <1>3
    <2>b. q.records = r
      OBVIOUS
    <2> HIDE DEF q, m, x, new, r
    <2>3. /\ m \in Log /\ m.records = Append(r, x) /\ m.regions = q.regions /\ m.entered = h
          /\ m.enter_map = [q.enter_map EXCEPT ![h] = new] /\ m.epochs = q.epochs
      BY <1>1, <1>2, <1>3, <2>2, <2>a, <2>b DEF Log
    <2>4. /\ DOMAIN s = 1 .. Len(r) + 1 /\ s[Len(r) + 1] = x /\ s # <<>>
          /\ \A i \in DOMAIN r : s[i] = r[i]
      BY <1>2, <1>3, <2>3
    <2>5. At(s, "SHORT") = At(r, "SHORT") /\ \A i \in At(r, "SHORT") : s[i] = r[i]
      BY <1>2, <1>3, <2>4 DEF At
    <2>6. /\ Checked(v, s).ok /\ Checked(v, s).epoch = q.epochs /\ Checked(v, s).hash = h
      BY <1>2, <1>3, <1>4, <2>3, CheckedAppend
    <2> HIDE DEF s
    <2>7. Shorts(s, q.regions)
      BY <1>4, <2>5, ShortsSame
    <2>8. q.enter_map \in [Hash -> Entry]
      BY <1>1 DEF Log
    <2>9. MapExact(m)
      <3> SUFFICES ASSUME NEW g \in Hash
                   PROVE  \/ (m.enter_map[g] = NoEntry \/ Open(m, g)) /\ NoRegion(m, g)
                          \/ Listed(m, g)
        BY DEF MapExact
      <3>1. CASE g = h
        <4>1. NoRegion(q, h)
          BY <1>5, <1>7 DEF Listed, NoEntry
        <4>2. m.enter_map[h] = new /\ m.records = s
          BY <2>3, <2>8 DEF s
        <4>3. /\ new.record_idx + 1 = Len(r) + 1 /\ new.region_idx = -1 /\ ~new.is_short
              /\ Rec("ENTRY", h) = x
          BY <2>b DEF new, x
        <4>4. Open(m, h)
          BY <1>3, <2>3, <2>4, <4>2, <4>3 DEF Open
        <4> QED BY <2>3, <3>1, <4>1, <4>4 DEF NoRegion
      <3>2. CASE g # h
        <4>1. m.enter_map[g] = q.enter_map[g]
          BY <2>3, <2>8, <3>2
        <4> QED BY <1>5, <2>3, <4>1 DEF Listed, NoRegion
      <3> QED BY <3>1, <3>2
    <2>10. Unfinished(m) = h
      BY <1>2, <2>3, <2>8 DEF Unfinished, new
    <2>11. m.records = s
      BY DEF s
    <2>12. ResetExact(v, m)
      BY <1>4, <2>3, <2>4, <2>6, <2>7, <2>9, <2>10, <2>11 DEF ResetExact
    <2>13. ~IsFull(l) /\ r = l.records
      BY <1>1, <2>1, <2>b DEF IsFull
    <2> QED BY <1>1, <2>3, <2>4, <2>11, <2>12, <2>13, ExactWithRecords DEF m, x
  <1> QED BY <1>6, <1>7

-----------------------------------------------------------------------------
(* Any log, exact or not, stays a log.                                     *)

Sound(l) == l \in Log /\ Len(l.records) <= MaxRecord /\ Signals(l.records)

\* A record of the right kind.
LEMMA RecSound ==
    /\ \A h \in Hash : Rec("ENTRY", h) \in LogRecord /\ Rec("EXIT", h) \in LogRecord
    /\ \A n \in Nat : /\ Rec("SHORT", n) \in LogRecord /\ Rec("EPOCH", n) \in LogRecord
                      /\ Rec("START", n) \in LogRecord /\ Rec("STOP", n) \in LogRecord
                      /\ Rec("AFFINITY", n) \in LogRecord /\ Rec("OVERHEAD", n) \in LogRecord
    /\ \A e, n : Rec(e, n).event = e /\ Rec(e, n).signal = n
  BY DEF Rec, LogRecord, Event

\* append_record()
LEMMA AppendSound ==
    ASSUME NEW l, Sound(l), NEW x \in LogRecord,
           x.event \in {"ENTRY", "EXIT"} => x.signal \in Hash,
           x.event \in {"SHORT", "EPOCH"} => x.signal \in Nat
    PROVE  LET m == AppendRecord(l, x)
           IN  /\ Sound(m)
               /\ m.regions = l.regions /\ m.enter_map = l.enter_map /\ m.entered = l.entered
               /\ m.epochs = l.epochs
               /\ m.records = IF IsFull(l) THEN l.records ELSE Append(l.records, x)
  <1> DEFINE m == AppendRecord(l, x)
             r == l.records
  <1>1. CASE IsFull(l)
    BY <1>1 DEF AppendRecord
  <1>2. CASE ~IsFull(l)
    <2>1. m = [l EXCEPT !.records = Append(r, x)]
      BY <1>2 DEF AppendRecord
    <2>2. r \in Seq(LogRecord) /\ Len(r) < MaxRecord /\ l \in Log /\ Signals(r) /\ Len(r) \in Nat
      BY <1>2, Constants DEF Sound, Log, IsFull
    <2>3. Append(r, x) \in Seq(LogRecord) /\ Len(Append(r, x)) <= MaxRecord
      BY <2>2, Constants
    <2>4. Signals(Append(r, x))
      <3> DEFINE s == Append(r, x)
      <3>1. /\ DOMAIN s = 1 .. Len(r) + 1 /\ DOMAIN r = 1 .. Len(r)
            /\ s[Len(r) + 1] = x /\ \A i \in DOMAIN r : s[i] = r[i]
        BY <2>2
      <3> HIDE DEF s, r
      <3>2. \A i \in DOMAIN s : i \in DOMAIN r \/ i = Len(r) + 1
        BY <2>2, <3>1
      <3>3. Signals(s)
        BY <2>2, <3>1, <3>2 DEF Signals
      <3> QED BY <3>3 DEF s
    <2> HIDE DEF m, r
    <2>5. /\ m \in Log /\ m.records = Append(r, x)
          /\ m.regions = l.regions /\ m.enter_map = l.enter_map /\ m.entered = l.entered
          /\ m.epochs = l.epochs
      BY <2>1, <2>2, <2>3 DEF Log
    <2> QED BY <1>2, <2>3, <2>4, <2>5 DEF Sound, m, r
  <1> QED BY <1>1, <1>2

\* check_reset()
LEMMA ResetSound ==
    ASSUME NEW l, Sound(l)
    PROVE  Sound(CheckReset(l))
  BY ResetShape DEF Sound

\* A log with another map is a log.
LEMMA MapSound ==
    ASSUME NEW l, Sound(l), NEW e \in [Hash -> Entry]
    PROVE  Sound([l EXCEPT !.enter_map = e])
  BY DEF Sound, Log

\* The same for m_entered_region_hash.
LEMMA EnteredSound ==
    ASSUME NEW l, Sound(l), NEW h \in Hash \cup {NoHash}
    PROVE  Sound([l EXCEPT !.entered = h])
  BY DEF Sound, Log

\* enter()
LEMMA EnterSound ==
    ASSUME NEW l, Sound(l), NEW h \in Hash
    PROVE  Sound(LogEnter(l, h))
  <1> DEFINE q == CheckReset(l)
             new == [record_idx |-> Len(q.records), region_idx |-> -1, is_short |-> FALSE]
             marked == [q EXCEPT !.enter_map[h] = new]
             y == AppendRecord(marked, Rec("ENTRY", h))
  <1>1. Sound(q)
    BY ResetSound
  <1>2. new \in Entry /\ q.enter_map \in [Hash -> Entry]
    BY <1>1 DEF Sound, Log, Entry
  <1> HIDE DEF q, new
  <1>3. [q.enter_map EXCEPT ![h] = new] \in [Hash -> Entry]
    BY <1>2
  <1>4. Sound([q EXCEPT !.enter_map = [q.enter_map EXCEPT ![h] = new]])
    BY <1>1, <1>3, MapSound
  <1>5. Sound(marked)
    BY <1>1, <1>4 DEF Sound, Log
  <1> HIDE DEF marked
  <1>6. Sound(y)
    BY <1>5, RecSound, AppendSound
  <1> HIDE DEF y
  <1>7. Sound([q EXCEPT !.entered = h]) /\ Sound([y EXCEPT !.entered = h])
    BY <1>1, <1>6, EnteredSound
  <1> QED BY <1>1, <1>5, <1>7 DEF LogEnter, q, new, marked, y

\* epoch()
LEMMA EpochSound ==
    ASSUME NEW l, Sound(l)
    PROVE  Sound(LogEpoch(l)) /\ LogEpoch(l).epochs = l.epochs + 1
  <1> DEFINE q == CheckReset(l)
             y == [q EXCEPT !.epochs = @ + 1]
  <1>1. Sound(q) /\ q \in Log /\ q.epochs = l.epochs /\ q.epochs + 1 \in Nat
    BY ResetSound, ResetShape DEF Sound, Log
  <1> HIDE DEF q
  <1>2. y \in Log /\ y.records = q.records /\ y.epochs = q.epochs + 1
    BY <1>1 DEF Log
  <1>3. Sound(y)
    BY <1>1, <1>2 DEF Sound
  <1> HIDE DEF y
  <1> DEFINE x == Rec("EPOCH", y.epochs)
  <1>4. x \in LogRecord /\ x.event = "EPOCH" /\ x.signal \in Nat
    BY <1>1, <1>2, RecSound
  <1> HIDE DEF x
  <1>5. Sound(AppendRecord(y, x)) /\ AppendRecord(y, x).epochs = y.epochs
    BY <1>3, <1>4, AppendSound
  <1> QED BY <1>1, <1>2, <1>5 DEF LogEpoch, q, y, x

\* affinity(), start_profile(), stop_profile() and overhead()
LEMMA MarkSound ==
    ASSUME NEW l, Sound(l), NEW e \in {"START", "STOP", "AFFINITY", "OVERHEAD"}
    PROVE  Sound(LogMark(l, e))
  <1>1. Rec(e, 0) \in LogRecord /\ Rec(e, 0).event = e
    BY RecSound
  <1> QED BY <1>1, ResetSound, AppendSound DEF LogMark

\* dump()
LEMMA DumpSound ==
    ASSUME NEW l, Sound(l)
    PROVE  /\ Sound(Dumped(l)) /\ Dumped(l).records = <<>> /\ Dumped(l).regions = <<>>
           /\ Dumped(l).entered = l.entered /\ Dumped(l).epochs = l.epochs
           /\ Dumped(l).enter_map = l.enter_map
  <1>1. <<>> \in Seq(LogRecord) /\ <<>> \in Seq(Region) /\ Len(<<>>) <= MaxRecord /\ Signals(<<>>)
    BY Constants DEF Signals
  <1> QED BY <1>1 DEF Sound, Log, Dumped

\* A record of a log is replaced.
LEMMA ReplaceSound ==
    ASSUME NEW r \in Seq(LogRecord), Signals(r), NEW k \in Int, NEW x \in LogRecord,
           x.event = "SHORT", x.signal \in Nat
    PROVE  LET s == [r EXCEPT ![k] = x]
           IN  s \in Seq(LogRecord) /\ Len(s) = Len(r) /\ DOMAIN s = DOMAIN r /\ Signals(s)
  <1> DEFINE s == [r EXCEPT ![k] = x]
  <1>0. /\ DOMAIN s = 1 .. Len(r) /\ DOMAIN r = 1 .. Len(r) /\ Len(r) \in Nat
        /\ s = [i \in DOMAIN r |-> IF i = k THEN x ELSE r[i]]
    OBVIOUS
  <1>2. \A i \in DOMAIN r : s[i] = (IF i = k THEN x ELSE r[i]) /\ r[i] \in LogRecord
    OBVIOUS
  <1> HIDE DEF s
  <1>1. s \in Seq(LogRecord) /\ Len(s) = Len(r) /\ DOMAIN s = DOMAIN r
    BY <1>0, <1>2
  <1>3. Signals(s)
    BY <1>1, <1>2 DEF Signals
  <1> QED BY <1>1, <1>3 DEF s

\* exit(), the region gets a short region.
LEMMA ConvertSound ==
    ASSUME NEW l, Sound(l), NEW h \in Hash
    PROVE  LET m == ConvertToShort(l, h)
               n == Len(l.regions)
               at == l.enter_map[h].record_idx + 1
           IN  /\ Sound(m) /\ m.entered = l.entered /\ m.epochs = l.epochs
               /\ m.regions = Append(l.regions, [hash |-> h, num_complete |-> 0])
               /\ m.enter_map = [l.enter_map EXCEPT ![h] = [l.enter_map[h] EXCEPT !.region_idx = n]]
               /\ at \in DOMAIN l.records => m.records = [l.records EXCEPT ![at] = Rec("SHORT", n)]
  <1> DEFINE m == ConvertToShort(l, h)
             r == l.records
             g == l.regions
             e == l.enter_map
             n == Len(g)
             at == e[h].record_idx + 1
             x == Rec("SHORT", n)
             s == [r EXCEPT ![at] = x]
             t == IF at <= Len(r) THEN s ELSE r
             f == [e EXCEPT ![h] = [e[h] EXCEPT !.region_idx = n]]
             k == Append(g, [hash |-> h, num_complete |-> 0])
             b == l.overrun \/ ~(at <= Len(r)) \/ n >= MaxRegion
  <1>1. /\ l \in Log /\ r \in Seq(LogRecord) /\ g \in Seq(Region) /\ e \in [Hash -> Entry]
        /\ Len(r) <= MaxRecord /\ Signals(r)
    BY DEF Sound, Log
  <1>2. n \in Nat /\ at \in Int /\ Len(r) \in Nat /\ DOMAIN r = 1 .. Len(r)
    BY <1>1 DEF Entry
  <1>3. x \in LogRecord /\ x.event = "SHORT" /\ x.signal = n
    BY <1>2, RecSound
  <1>4. m = [l EXCEPT !.enter_map = f, !.regions = k, !.records = t, !.overrun = b]
    BY <1>1 DEF ConvertToShort, Log
  <1> HIDE DEF n, at, x
  <1>5. s \in Seq(LogRecord) /\ Len(s) = Len(r) /\ Signals(s)
    BY <1>1, <1>2, <1>3, ReplaceSound
  <1>6. f \in [Hash -> Entry]
    BY SMTT(30), <1>1, <1>2 DEF Entry
  <1>7. k \in Seq(Region)
    BY <1>1 DEF Region
  <1>8. t \in Seq(LogRecord) /\ Len(t) = Len(r) /\ Signals(t)
    BY <1>1, <1>5
  <1>9. at \in DOMAIN r => t = s
    BY <1>2
  <1>10. b \in BOOLEAN
    OBVIOUS
  <1> HIDE DEF m, s, t, f, k, b
  <1>11. /\ m \in Log /\ m.records = t /\ m.regions = k /\ m.enter_map = f
         /\ m.entered = l.entered /\ m.epochs = l.epochs
    BY <1>1, <1>4, <1>6, <1>7, <1>8, <1>10 DEF Log
  <1> QED BY <1>1, <1>8, <1>9, <1>11 DEF Sound, m, s, f, k, n, at, x

\* exit(), the region is marked as short, and listed when it has no record.
ExitShort(l, h) == [l EXCEPT !.enter_map[h].is_short = TRUE]

ExitListed(l, h) ==
    IF l.enter_map[h].record_idx = -1
    THEN [AppendRecord(ExitShort(l, h), Rec("ENTRY", h)) EXCEPT !.enter_map[h].record_idx = Len(l.records)]
    ELSE ExitShort(l, h)

ExitCounted(l, h) ==
    IF ExitListed(l, h).enter_map[h].region_idx = -1 THEN ConvertToShort(ExitListed(l, h), h)
    ELSE ExitListed(l, h)

\* exit(), the short region is complete once more.
ExitComplete(l, h) == [l EXCEPT !.regions[l.enter_map[h].region_idx + 1].num_complete = @ + 1,
                                !.entered = NoHash]

\* The steps of exit().
LEMMA ExitSteps ==
    ASSUME NEW l, NEW h
    PROVE  LET q == CheckReset(l)
           IN  LogExit(l, h) =
                 IF q.enter_map[h] = NoEntry
                 THEN IF IsFull(q) THEN q
                      ELSE [AppendRecord(q, Rec("EXIT", h)) EXCEPT !.entered = NoHash]
                 ELSE IF ExitThrows(l, h) THEN ExitListed(q, h)
                 ELSE ExitComplete(ExitCounted(q, h), h)
  BY DEF LogExit, ExitShort, ExitListed, ExitCounted, ExitComplete

\* One more completion of a short region.
LEMMA CountSound ==
    ASSUME NEW g \in Seq(Region), NEW k \in Int
    PROVE  LET f == [g EXCEPT ![k].num_complete = @ + 1]
           IN  /\ f \in Seq(Region) /\ Len(f) = Len(g) /\ DOMAIN f = DOMAIN g
               /\ \A i \in DOMAIN g : f[i] = IF i = k THEN [g[i] EXCEPT !.num_complete = @ + 1] ELSE g[i]
  <1> DEFINE f == [g EXCEPT ![k].num_complete = @ + 1]
  <1>1. DOMAIN f = DOMAIN g /\ \A i \in DOMAIN g : f[i] = IF i = k THEN [g[i] EXCEPT !.num_complete = @ + 1] ELSE g[i]
    OBVIOUS
  <1>2. \A i \in DOMAIN g : f[i] \in Region
    <2>1. \A i \in DOMAIN g : g[i] \in Region
      OBVIOUS
    <2>2. \A e \in Region : [e EXCEPT !.num_complete = @ + 1] \in Region
      BY DEF Region
    <2> HIDE DEF f
    <2> QED BY <1>1, <2>1, <2>2
  <1>3. DOMAIN g = 1 .. Len(g) /\ Len(g) \in Nat
    OBVIOUS
  <1> HIDE DEF f
  <1>4. f = [i \in 1 .. Len(g) |-> f[i]]
    BY <1>1, <1>3 DEF f
  <1>5. f \in Seq(Region)
    BY <1>2, <1>3, <1>4
  <1>6. Len(f) = Len(g)
    BY <1>1, <1>3, <1>5
  <1> QED BY <1>1, <1>5, <1>6 DEF f

\* An entry that is marked as short, and one that also has a record.
LEMMA EntryForms ==
    ASSUME NEW a \in Entry, NEW n \in Int
    PROVE  /\ [a EXCEPT !.is_short = TRUE]
                = [record_idx |-> a.record_idx, region_idx |-> a.region_idx, is_short |-> TRUE]
           /\ [[a EXCEPT !.is_short = TRUE] EXCEPT !.record_idx = n]
                = [record_idx |-> n, region_idx |-> a.region_idx, is_short |-> TRUE]
           /\ [a EXCEPT !.is_short = TRUE] \in Entry
           /\ [record_idx |-> n, region_idx |-> a.region_idx, is_short |-> TRUE] \in Entry
  <1>1. \A c, d \in Entry : /\ c.record_idx = d.record_idx /\ c.region_idx = d.region_idx
                            /\ c.is_short = d.is_short
                            => c = d
    BY DEF Entry
  <1>2. /\ [record_idx |-> a.record_idx, region_idx |-> a.region_idx, is_short |-> TRUE] \in Entry
        /\ [record_idx |-> n, region_idx |-> a.region_idx, is_short |-> TRUE] \in Entry
    BY DEF Entry
  <1> DEFINE b == [a EXCEPT !.is_short = TRUE]
             c == [b EXCEPT !.record_idx = n]
  <1>3. /\ b \in Entry /\ b.record_idx = a.record_idx /\ b.region_idx = a.region_idx
        /\ b.is_short = TRUE
    BY DEF Entry
  <1> HIDE DEF b
  <1>4. c \in Entry /\ c.record_idx = n /\ c.region_idx = a.region_idx /\ c.is_short = TRUE
    BY <1>3 DEF Entry
  <1> HIDE DEF c
  <1> QED BY <1>1, <1>2, <1>3, <1>4 DEF b, c

\* An entry that was short before.
LEMMA EntryShort ==
    ASSUME NEW a \in Entry, a.is_short
    PROVE  a = [record_idx |-> a.record_idx, region_idx |-> a.region_idx, is_short |-> TRUE]
  BY DEF Entry

\* exit(), up to the completed region.
LEMMA ListedSound ==
    ASSUME NEW l, Sound(l), NEW h \in Hash
    PROVE  LET m == ExitListed(l, h)
               fresh == l.enter_map[h].record_idx = -1
               idx == IF fresh THEN Len(l.records) ELSE l.enter_map[h].record_idx
           IN  /\ Sound(m) /\ m.entered = l.entered /\ m.epochs = l.epochs /\ m.regions = l.regions
               /\ m.records = IF fresh /\ ~IsFull(l) THEN Append(l.records, Rec("ENTRY", h)) ELSE l.records
               /\ m.enter_map = [l.enter_map EXCEPT ![h] =
                     [record_idx |-> idx, region_idx |-> l.enter_map[h].region_idx, is_short |-> TRUE]]
  <1> DEFINE e == l.enter_map
             r == l.records
             y == ExitShort(l, h)
             x == Rec("ENTRY", h)
             z == AppendRecord(y, x)
             f == [e EXCEPT ![h] = [e[h] EXCEPT !.is_short = TRUE]]
             i == [e EXCEPT ![h] = [record_idx |-> Len(r), region_idx |-> e[h].region_idx, is_short |-> TRUE]]
  <1>1. l \in Log /\ r \in Seq(LogRecord) /\ e \in [Hash -> Entry] /\ Len(r) \in Nat
    BY DEF Sound, Log
  <1>a. /\ [e[h] EXCEPT !.is_short = TRUE]
             = [record_idx |-> e[h].record_idx, region_idx |-> e[h].region_idx, is_short |-> TRUE]
        /\ [[e[h] EXCEPT !.is_short = TRUE] EXCEPT !.record_idx = Len(r)]
             = [record_idx |-> Len(r), region_idx |-> e[h].region_idx, is_short |-> TRUE]
        /\ [e[h] EXCEPT !.is_short = TRUE] \in Entry
        /\ [record_idx |-> Len(r), region_idx |-> e[h].region_idx, is_short |-> TRUE] \in Entry
    <2>1. e[h] \in Entry /\ Len(r) \in Int
      BY <1>1
    <2> QED BY <2>1, EntryForms
  <1>2. f \in [Hash -> Entry] /\ i \in [Hash -> Entry]
    BY <1>1, <1>a
  <1>3. y = [l EXCEPT !.enter_map = f]
    BY <1>1 DEF ExitShort, Log
  <1>4. x \in LogRecord /\ x.event = "ENTRY" /\ x.signal = h
    BY RecSound
  <1>f. f = [e EXCEPT ![h] = [record_idx |-> e[h].record_idx, region_idx |-> e[h].region_idx, is_short |-> TRUE]]
    BY <1>a
  <1>g. [f EXCEPT ![h].record_idx = Len(r)] = i
    <2>1. f[h] = [e[h] EXCEPT !.is_short = TRUE] /\ DOMAIN f = Hash
      BY <1>1
    <2>2. [f EXCEPT ![h].record_idx = Len(r)] = [f EXCEPT ![h] = [f[h] EXCEPT !.record_idx = Len(r)]]
      OBVIOUS
    <2>3. [f[h] EXCEPT !.record_idx = Len(r)] = i[h]
      BY <1>1, <1>a, <2>1
    <2>4. \A g \in Hash : [f EXCEPT ![h] = i[h]][g] = i[g]
      BY <1>1
    <2> QED BY <1>1, <2>2, <2>3, <2>4
  <1> HIDE DEF f, y, x, i
  <1>5. /\ Sound(y) /\ y.records = r /\ y.regions = l.regions /\ y.entered = l.entered
        /\ y.epochs = l.epochs /\ y.enter_map = f
    <2>1. Sound(y)
      BY <1>2, <1>3, MapSound
    <2> QED BY <1>1, <1>3, <2>1 DEF Log
  <1>6. CASE e[h].record_idx # -1
    <2>1. ExitListed(l, h) = y
      BY <1>6 DEF ExitListed, y
    <2> QED BY <1>5, <1>6, <1>f, <2>1
  <1>7. CASE e[h].record_idx = -1
    <2>1. /\ Sound(z) /\ z.regions = l.regions /\ z.enter_map = f /\ z.entered = l.entered
          /\ z.epochs = l.epochs /\ z.records = IF IsFull(l) THEN r ELSE Append(r, x)
      <3>1. IsFull(y) <=> IsFull(l)
        BY <1>5 DEF IsFull
      <3> QED BY <1>4, <1>5, <3>1, AppendSound
    <2> HIDE DEF z
    <2> DEFINE m == ExitListed(l, h)
    <2>2. m = [z EXCEPT !.enter_map[h].record_idx = Len(r)]
      BY <1>7 DEF ExitListed, y, x, z
    <2>3. m = [z EXCEPT !.enter_map = i]
      BY <1>g, <2>1, <2>2 DEF Sound, Log
    <2> HIDE DEF m
    <2>4. Sound(m)
      BY <1>2, <2>1, <2>3, MapSound
    <2>5. /\ m.regions = l.regions /\ m.enter_map = i /\ m.entered = l.entered
          /\ m.epochs = l.epochs /\ m.records = IF IsFull(l) THEN r ELSE Append(r, x)
      BY <2>1, <2>3 DEF Sound, Log
    <2> QED BY <1>7, <2>4, <2>5 DEF m, i, x
  <1> QED BY <1>6, <1>7

\* exit(), once the region is listed.
LEMMA CompleteSound ==
    ASSUME NEW l, Sound(l), NEW h \in Hash
    PROVE  LET j == l.enter_map[h].region_idx + 1
               m == ExitComplete(l, h)
           IN  /\ Sound(m) /\ m.records = l.records /\ m.enter_map = l.enter_map
               /\ m.entered = NoHash /\ m.epochs = l.epochs
               /\ m.regions = [l.regions EXCEPT ![j].num_complete = @ + 1]
  <1> DEFINE j == l.enter_map[h].region_idx + 1
             g == l.regions
             f == [g EXCEPT ![j].num_complete = @ + 1]
             m == ExitComplete(l, h)
  <1>1. l \in Log /\ g \in Seq(Region) /\ j \in Int
    BY DEF Sound, Log, Entry
  <1>2. m = [l EXCEPT !.regions = f, !.entered = NoHash]
    BY <1>1 DEF Log, ExitComplete
  <1> HIDE DEF j
  <1>3. f \in Seq(Region)
    BY <1>1, CountSound
  <1> HIDE DEF f, m
  <1>4. /\ m \in Log /\ m.records = l.records /\ m.enter_map = l.enter_map
        /\ m.entered = NoHash /\ m.epochs = l.epochs /\ m.regions = f
    BY <1>1, <1>2, <1>3 DEF Log
  <1> QED BY <1>4 DEF Sound, j, f, m

\* exit()
LEMMA ExitSound ==
    ASSUME NEW l, Sound(l), NEW h \in Hash
    PROVE  Sound(LogExit(l, h))
  <1> DEFINE q == CheckReset(l)
             c == ExitCounted(q, h)
             y == AppendRecord(q, Rec("EXIT", h))
             m == ExitComplete(c, h)
  <1>1. Sound(q)
    BY ResetSound
  <1> HIDE DEF q
  <1>2. Sound(y)
    BY <1>1, RecSound, AppendSound
  <1> HIDE DEF y
  <1>3. Sound([y EXCEPT !.entered = NoHash])
    BY <1>2, EnteredSound
  <1>4. Sound(ExitListed(q, h))
    BY <1>1, ListedSound
  <1>5. Sound(c)
    BY <1>4, ConvertSound DEF ExitCounted
  <1> HIDE DEF c
  <1>6. Sound(m)
    BY <1>5, CompleteSound
  <1> QED BY <1>1, <1>3, <1>4, <1>6, ExitSteps DEF q, c, y

-----------------------------------------------------------------------------
(* The visits in a log.                                                    *)

ExitCount(records, h) == Cardinality({i \in DOMAIN records : records[i] = Rec("EXIT", h)})

ShortCount(regions, h) ==
    LET complete == [i \in DOMAIN regions |-> regions[i].num_complete]
    IN  SumFunctionOnSet(complete, {i \in DOMAIN regions : regions[i].hash = h})

\* The sets of records are finite.
LEMMA PlacesFinite ==
    ASSUME NEW R, NEW r \in Seq(R), NEW S, S \subseteq DOMAIN r
    PROVE  IsFiniteSet(S) /\ Cardinality(S) \in Nat
  <1>1. DOMAIN r = 1 .. Len(r) /\ Len(r) \in Nat
    OBVIOUS
  <1>2. IsFiniteSet(DOMAIN r)
    BY <1>1, FS_Interval
  <1> QED BY <1>2, FS_Subset, FS_CardinalityType

\* One more record.
LEMMA ExitCountAppend ==
    ASSUME NEW R, NEW r \in Seq(R), NEW x \in R, NEW h
    PROVE  /\ ExitCount(r, h) \in Nat
           /\ ExitCount(Append(r, x), h) = ExitCount(r, h) + IF x = Rec("EXIT", h) THEN 1 ELSE 0
  <1> DEFINE s == Append(r, x)
             n == Len(r) + 1
             S == {i \in DOMAIN r : r[i] = Rec("EXIT", h)}
             T == {i \in DOMAIN s : s[i] = Rec("EXIT", h)}
  <1>1. /\ DOMAIN s = 1 .. n /\ DOMAIN r = 1 .. n - 1 /\ n \in Nat /\ n > 0
        /\ s[n] = x /\ \A i \in DOMAIN r : s[i] = r[i]
    OBVIOUS
  <1>2. IsFiniteSet(S) /\ Cardinality(S) \in Nat
    BY PlacesFinite
  <1>3. n \notin S /\ DOMAIN s = DOMAIN r \cup {n}
    BY <1>1
  <1> HIDE DEF s, n
  <1>4. /\ x = Rec("EXIT", h) => T = S \cup {n}
        /\ x # Rec("EXIT", h) => T = S
    BY <1>1, <1>3
  <1>5. Cardinality(S \cup {n}) = Cardinality(S) + 1
    BY <1>2, <1>3, FS_AddElement
  <1>6. ExitCount(r, h) = Cardinality(S) /\ ExitCount(s, h) = Cardinality(T)
    BY DEF ExitCount
  <1> HIDE DEF S, T
  <1>7. ExitCount(s, h) = ExitCount(r, h) + IF x = Rec("EXIT", h) THEN 1 ELSE 0
    <2>1. CASE x = Rec("EXIT", h)
      BY <1>2, <1>4, <1>5, <1>6, <2>1
    <2>2. CASE x # Rec("EXIT", h)
      BY <1>2, <1>4, <1>6, <2>2
    <2> QED BY <2>1, <2>2
  <1> QED BY <1>2, <1>6, <1>7 DEF s

\* An entry record that becomes a short region record.
LEMMA ExitCountReplace ==
    ASSUME NEW r \in Seq(LogRecord), NEW k \in DOMAIN r, NEW x \in LogRecord, NEW h,
           r[k].event = "ENTRY", x.event = "SHORT"
    PROVE  ExitCount([r EXCEPT ![k] = x], h) = ExitCount(r, h)
  <1> DEFINE s == [r EXCEPT ![k] = x]
  <1>1. DOMAIN s = DOMAIN r /\ \A i \in DOMAIN r : s[i] = IF i = k THEN x ELSE r[i]
    OBVIOUS
  <1>2. x # Rec("EXIT", h) /\ r[k] # Rec("EXIT", h)
    BY RecSound
  <1> HIDE DEF s
  <1>3. {i \in DOMAIN s : s[i] = Rec("EXIT", h)} = {i \in DOMAIN r : r[i] = Rec("EXIT", h)}
    BY <1>1, <1>2
  <1> QED BY <1>3 DEF ExitCount, s

\* No short region of a hash, or one.
LEMMA ShortCountIs ==
    ASSUME NEW g \in Seq(Region), NEW h
    PROVE  /\ ShortCount(g, h) \in Nat
           /\ (\A i \in DOMAIN g : g[i].hash # h) => ShortCount(g, h) = 0
           /\ Distinct(g) => \A k \in DOMAIN g : g[k].hash = h => ShortCount(g, h) = g[k].num_complete
  <1> DEFINE f == [i \in DOMAIN g |-> g[i].num_complete]
             S == {i \in DOMAIN g : g[i].hash = h}
  <1>1. \A i \in DOMAIN g : f[i] \in Nat /\ f[i] = g[i].num_complete
    <2>1. \A i \in DOMAIN g : g[i] \in Region
      OBVIOUS
    <2>2. \A e \in Region : e.num_complete \in Nat
      BY DEF Region
    <2> QED BY <2>1, <2>2
  <1>2. IsFiniteSet(S) /\ \A i \in S : f[i] \in Nat
    BY <1>1, PlacesFinite
  <1>3. ShortCount(g, h) = SumFunctionOnSet(f, S)
    BY DEF ShortCount
  <1>4. (\A i \in DOMAIN g : g[i].hash # h) => S = {}
    OBVIOUS
  <1>5. Distinct(g) => \A k \in DOMAIN g : g[k].hash = h => S = {k}
    BY DEF Distinct
  <1> HIDE DEF f, S
  <1>6. SumFunctionOnSet(f, S) \in Nat
    BY <1>2, SumNatural
  <1>7. ASSUME NEW k \in DOMAIN g PROVE SumFunctionOnSet(f, {k}) = g[k].num_complete
    <2>1. f[k] \in Int /\ f[k] = g[k].num_complete
      BY <1>1
    <2> QED BY <2>1, SumOfOne
  <1> QED BY <1>3, <1>4, <1>5, <1>6, <1>7, SumOfNone

\* A new short region that is complete once.
LEMMA ShortCountAppend ==
    ASSUME NEW g \in Seq(Region), NEW h \in Hash, Distinct(g), \A i \in DOMAIN g : g[i].hash # h
    PROVE  LET f == Append(g, [hash |-> h, num_complete |-> 1])
           IN  /\ f \in Seq(Region) /\ Distinct(f)
               /\ \A c \in Hash : ShortCount(f, c) = ShortCount(g, c) + IF c = h THEN 1 ELSE 0
  <1> DEFINE x == [hash |-> h, num_complete |-> 1]
             f == Append(g, x)
             n == Len(g) + 1
  <1>1. x \in Region /\ x.hash = h /\ x.num_complete = 1
    BY DEF Region
  <1> HIDE DEF x
  <1>2. /\ DOMAIN f = 1 .. n /\ DOMAIN g = 1 .. n - 1 /\ n \in Nat /\ n > 0
        /\ f[n] = x /\ \A i \in DOMAIN g : f[i] = g[i]
    BY <1>1
  <1>3. f \in Seq(Region)
    BY <1>1
  <1> HIDE DEF f, n
  <1>4. DOMAIN f = DOMAIN g \cup {n} /\ n \notin DOMAIN g
    BY <1>2
  <1>5. Distinct(f)
    BY <1>1, <1>2, <1>4 DEF Distinct
  <1>6. ASSUME NEW c \in Hash
        PROVE  ShortCount(f, c) = ShortCount(g, c) + IF c = h THEN 1 ELSE 0
    <2>1. CASE c = h
      <3>1. ShortCount(g, c) = 0
        BY <2>1, ShortCountIs
      <3>2. ShortCount(f, c) = 1
        BY <1>1, <1>2, <1>3, <1>4, <1>5, <2>1, ShortCountIs
      <3> QED BY <2>1, <3>1, <3>2
    <2>2. CASE c # h /\ \E k \in DOMAIN g : g[k].hash = c
      <3>1. PICK k \in DOMAIN g : g[k].hash = c
        BY <2>2
      <3>2. k \in DOMAIN f /\ f[k] = g[k]
        BY <1>2, <1>4
      <3>3. ShortCount(g, c) = g[k].num_complete /\ ShortCount(g, c) \in Nat
        BY <3>1, ShortCountIs
      <3>4. ShortCount(f, c) = f[k].num_complete
        BY <1>3, <1>5, <3>1, <3>2, ShortCountIs
      <3> QED BY <2>2, <3>2, <3>3, <3>4
    <2>3. CASE c # h /\ \A k \in DOMAIN g : g[k].hash # c
      <3>1. \A k \in DOMAIN f : f[k].hash # c
        BY <1>1, <1>2, <1>4, <2>3
      <3>2. ShortCount(g, c) = 0 /\ ShortCount(f, c) = 0
        BY <1>3, <2>3, <3>1, ShortCountIs
      <3> QED BY <2>3, <3>2
    <2> QED BY <2>1, <2>2, <2>3
  <1> QED BY <1>3, <1>5, <1>6 DEF f, x

\* One more completion of a short region.
LEMMA ShortCountMore ==
    ASSUME NEW g \in Seq(Region), NEW k \in DOMAIN g, Distinct(g)
    PROVE  LET f == [g EXCEPT ![k].num_complete = @ + 1]
           IN  /\ Distinct(f)
               /\ \A c \in Hash : ShortCount(f, c) = ShortCount(g, c) + IF c = g[k].hash THEN 1 ELSE 0
  <1> DEFINE f == [g EXCEPT ![k].num_complete = @ + 1]
  <1>0. k \in Int /\ \A i \in DOMAIN g : g[i] \in Region
    OBVIOUS
  <1>1. /\ f \in Seq(Region) /\ DOMAIN f = DOMAIN g
        /\ \A i \in DOMAIN g : f[i] = IF i = k THEN [g[i] EXCEPT !.num_complete = @ + 1] ELSE g[i]
    BY <1>0, CountSound
  <1> HIDE DEF f
  <1>2. \A i \in DOMAIN g : /\ f[i].hash = g[i].hash
                            /\ f[i].num_complete = g[i].num_complete + IF i = k THEN 1 ELSE 0
    BY <1>0, <1>1 DEF Region
  <1>3. Distinct(f)
    BY <1>1, <1>2 DEF Distinct
  <1>4. ASSUME NEW c \in Hash
        PROVE  ShortCount(f, c) = ShortCount(g, c) + IF c = g[k].hash THEN 1 ELSE 0
    <2>1. CASE \E i \in DOMAIN g : g[i].hash = c
      <3>1. PICK i \in DOMAIN g : g[i].hash = c
        BY <2>1
      <3>2. ShortCount(g, c) = g[i].num_complete
        BY <3>1, ShortCountIs
      <3>3. ShortCount(f, c) = f[i].num_complete
        BY <1>1, <1>2, <1>3, <3>1, ShortCountIs
      <3>4. i = k <=> c = g[k].hash
        BY <3>1 DEF Distinct
      <3> QED BY <1>2, <3>2, <3>3, <3>4
    <2>2. CASE \A i \in DOMAIN g : g[i].hash # c
      <3>1. ShortCount(g, c) = 0 /\ ShortCount(f, c) = 0 /\ c # g[k].hash
        BY <1>1, <1>2, <2>2, ShortCountIs
      <3> QED BY <3>1
    <2> QED BY <2>1, <2>2
  <1> QED BY <1>3, <1>4 DEF f

-----------------------------------------------------------------------------
(* exit() of a process that is in the region.                              *)

\* A short region event that comes after all others, for a new short region.
LEMMA ShortsMore ==
    ASSUME NEW r, NEW s, NEW g, NEW f, Shorts(r, g), NEW k \in Int,
           At(r, "SHORT") \subseteq Int,
           At(s, "SHORT") = At(r, "SHORT") \cup {k},
           \A i \in At(r, "SHORT") : i < k /\ s[i] = r[i],
           s[k].signal = Len(g), Len(g) \in Nat, Len(f) = Len(g) + 1
    PROVE  Shorts(s, f)
  <1> DEFINE A == At(r, "SHORT")
             n == Len(g)
  <1>1. /\ \A i \in A : r[i].signal \in 0 .. n - 1
        /\ \A i, j \in A : i < j => r[i].signal < r[j].signal
        /\ \A m \in 0 .. n - 1 : \E i \in A : r[i].signal = m
    BY DEF Shorts
  <1>2. /\ \A i \in A : s[i].signal = r[i].signal /\ i < k /\ i \in Int
        /\ s[k].signal = n /\ n \in Nat
    OBVIOUS
  <1> HIDE DEF A, n
  <1>3. \A i \in A \cup {k} : s[i].signal \in 0 .. (n + 1) - 1
    BY <1>1, <1>2
  <1>4. \A i, j \in A \cup {k} : i < j => s[i].signal < s[j].signal
    BY SMTT(30), <1>1, <1>2
  <1>5. \A m \in 0 .. (n + 1) - 1 : \E i \in A \cup {k} : s[i].signal = m
    <2> SUFFICES ASSUME NEW m \in 0 .. (n + 1) - 1
                 PROVE  \E i \in A \cup {k} : s[i].signal = m
      OBVIOUS
    <2>1. m = n \/ m \in 0 .. n - 1
      BY <1>2
    <2> QED BY <1>1, <1>2, <2>1
  <1> QED BY <1>3, <1>4, <1>5 DEF Shorts, A, n

\* The two records of START and STOP stay where they are.
Marks(r, s) == \A e \in {"START", "STOP"} : At(r, e) = At(s, e)

\* The entry record of the region that the process leaves becomes a short
\* region record.
LEMMA ConvertExact ==
    ASSUME NEW v, NEW y, Sound(y), NEW h \in Hash, NEW k \in DOMAIN y.records,
           k = y.enter_map[h].record_idx + 1,
           y.enter_map[h].is_short, y.enter_map[h].region_idx = -1,
           y.records[k] = Rec("ENTRY", h),
           \A i \in DOMAIN y.records : i > k => y.records[i].event \notin {"ENTRY", "EXIT", "SHORT"},
           Shorts(y.records, y.regions), Distinct(y.regions), NoRegion(y, h),
           \A g \in Hash \ {h} : (y.enter_map[g] = NoEntry /\ NoRegion(y, g)) \/ Listed(y, g),
           Checked(v, y.records).ok, Checked(v, y.records).epoch = y.epochs
    PROVE  LET c == ConvertToShort(y, h)
               m == ExitComplete(c, h)
           IN  /\ LogExact(v, m) /\ m.entered = NoHash /\ Marks(y.records, m.records)
               /\ \A g \in Hash : ExitCount(m.records, g) + ShortCount(m.regions, g)
                                  = ExitCount(y.records, g) + ShortCount(y.regions, g)
                                    + IF g = h THEN 1 ELSE 0
  <1> DEFINE c == ConvertToShort(y, h)
             m == ExitComplete(c, h)
             r == y.records
             g == y.regions
             n == Len(g)
             x == Rec("SHORT", n)
             s == [r EXCEPT ![k] = x]
             one == [hash |-> h, num_complete |-> 1]
             f == Append(g, one)
             e == [y.enter_map[h] EXCEPT !.region_idx = n]
  <1>1. /\ y \in Log /\ r \in Seq(LogRecord) /\ g \in Seq(Region) /\ n \in Nat
        /\ y.enter_map \in [Hash -> Entry] /\ y.enter_map[h] \in Entry
        /\ DOMAIN r = 1 .. Len(r) /\ Len(r) \in Nat /\ DOMAIN g = 1 .. n /\ Signals(r)
    BY DEF Sound, Log
  <1>2. x \in LogRecord /\ x.event = "SHORT" /\ x.signal = n /\ r[k].event = "ENTRY"
    BY <1>1, RecSound
  <1>3. e \in Entry /\ e.region_idx = n /\ e.record_idx = y.enter_map[h].record_idx /\ e.is_short
    <2>1. \A a \in Entry : LET b == [a EXCEPT !.region_idx = n]
                          IN  /\ b \in Entry /\ b.region_idx = n /\ b.record_idx = a.record_idx
                              /\ b.is_short = a.is_short
      BY <1>1 DEF Entry
    <2> QED BY <1>1, <2>1
  <1>4. /\ Sound(c) /\ c.regions = Append(g, [hash |-> h, num_complete |-> 0])
        /\ c.records = s /\ c.epochs = y.epochs /\ c.enter_map = [y.enter_map EXCEPT ![h] = e]
    BY <1>1, ConvertSound
  <1>5. c.enter_map[h].region_idx + 1 = n + 1
    BY <1>1, <1>3, <1>4
  <1> HIDE DEF c
  <1>6. /\ Sound(m) /\ m.records = s /\ m.entered = NoHash /\ m.epochs = y.epochs
        /\ m.enter_map = [y.enter_map EXCEPT ![h] = e]
        /\ m.regions = [c.regions EXCEPT ![n + 1].num_complete = @ + 1]
    <2> DEFINE j == c.enter_map[h].region_idx + 1
    <2>1. /\ Sound(m) /\ m.records = c.records /\ m.enter_map = c.enter_map
          /\ m.entered = NoHash /\ m.epochs = c.epochs
          /\ m.regions = [c.regions EXCEPT ![j].num_complete = @ + 1]
      <3>1. Sound(c)
        BY <1>4
      <3> QED BY <3>1, CompleteSound
    <2>2. j = n + 1
      BY <1>5
    <2> HIDE DEF j, m
    <2> QED BY <1>4, <2>1, <2>2
  <1> HIDE DEF m, e
  <1>7. m.regions = f
    <2> DEFINE zero == [hash |-> h, num_complete |-> 0]
               a == Append(g, zero)
               b == [a EXCEPT ![n + 1].num_complete = @ + 1]
    <2>1. zero \in Region /\ one \in Region /\ [zero EXCEPT !.num_complete = @ + 1] = one
      BY DEF Region
    <2> HIDE DEF zero, one
    <2>2. a \in Seq(Region) /\ DOMAIN a = 1 .. n + 1 /\ a[n + 1] = zero /\ \A i \in 1 .. n : a[i] = g[i]
      BY <1>1, <2>1
    <2>3. f \in Seq(Region) /\ DOMAIN f = 1 .. n + 1 /\ f[n + 1] = one /\ \A i \in 1 .. n : f[i] = g[i]
      BY <1>1, <2>1
    <2> HIDE DEF a, f
    <2>4. b \in Seq(Region) /\ DOMAIN b = DOMAIN a /\ \A i \in DOMAIN a : b[i] = IF i = n + 1 THEN one ELSE a[i]
      <3>1. n + 1 \in Int
        BY <1>1
      <3>2. /\ b \in Seq(Region) /\ DOMAIN b = DOMAIN a
            /\ \A i \in DOMAIN a : b[i] = IF i = n + 1 THEN [a[i] EXCEPT !.num_complete = @ + 1] ELSE a[i]
        BY <2>2, <3>1, CountSound
      <3> HIDE DEF b
      <3> QED BY <2>1, <2>2, <3>2
    <2>5. \A i \in 1 .. n + 1 : i = n + 1 \/ i \in 1 .. n
      BY <1>1
    <2> HIDE DEF b
    <2>6. \A i \in 1 .. n + 1 : b[i] = f[i]
      BY <1>1, <2>2, <2>3, <2>4, <2>5
    <2>7. b = f
      <3>1. b = [i \in 1 .. n + 1 |-> b[i]] /\ f = [i \in 1 .. n + 1 |-> f[i]]
        BY <2>2, <2>3, <2>4
      <3> QED BY <2>6, <3>1
    <2> QED BY <1>4, <1>6, <2>7 DEF a, b, zero
  <1>8. /\ f \in Seq(Region) /\ Distinct(f)
        /\ \A a \in Hash : ShortCount(f, a) = ShortCount(g, a) + IF a = h THEN 1 ELSE 0
    BY <1>1, ShortCountAppend DEF NoRegion
  <1>9. /\ Len(f) = n + 1 /\ DOMAIN f = 1 .. n + 1 /\ f[n + 1] = one /\ \A i \in 1 .. n : f[i] = g[i]
    <2>1. one \in Region
      BY DEF Region
    <2> HIDE DEF one
    <2> QED BY <1>1, <2>1
  <1>10. /\ DOMAIN s = DOMAIN r /\ s[k] = x /\ \A i \in DOMAIN r : i # k => s[i] = r[i]
         /\ s # <<>>
    BY <1>1
  <1>11. \A a \in Hash : ExitCount(s, a) = ExitCount(r, a)
    BY <1>1, <1>2, ExitCountReplace
  <1>12. /\ Checked(v, s).ok /\ Checked(v, s).hash = NoHash /\ Checked(v, s).epoch = Checked(v, r).epoch
    <2>1. \A i \in DOMAIN r : i > k => r[i].event \notin {"ENTRY", "EXIT"}
      OBVIOUS
    <2>2. r \in Seq(LogRecord) /\ k \in DOMAIN r /\ Checked(v, r).ok
      BY <1>1
    <2> HIDE DEF r, x
    <2> QED BY <1>2, <2>1, <2>2, CheckedConvert
  <1> HIDE DEF s, f, x
  <1>13. Shorts(s, f)
    <2>1. At(s, "SHORT") = At(r, "SHORT") \cup {k}
      BY <1>2, <1>10 DEF At
    <2>2. At(r, "SHORT") \subseteq Int /\ k \in Int
      BY <1>1 DEF At
    <2>3. \A i \in At(r, "SHORT") : i < k /\ s[i] = r[i]
      BY <1>1, <1>2, <1>10 DEF At
    <2> QED BY SMTT(30), <1>1, <1>2, <1>9, <1>10, <2>1, <2>2, <2>3, ShortsMore
  <1>14. Marks(r, s)
    BY <1>2, <1>10 DEF Marks, At
  <1>15. MapExact(m)
    <2> SUFFICES ASSUME NEW a \in Hash
                 PROVE  (m.enter_map[a] = NoEntry /\ NoRegion(m, a)) \/ Listed(m, a)
      BY DEF MapExact
    <2>1. CASE a = h
      <3>1. m.enter_map[h] = e
        BY <1>1, <1>6
      <3>2. f[n + 1].hash = h /\ n + 1 \in DOMAIN f /\ e.record_idx >= 0
        BY <1>1, <1>3, <1>9 DEF Entry
      <3> QED BY <1>3, <1>7, <2>1, <3>1, <3>2 DEF Listed
    <2>2. CASE a # h
      <3>1. m.enter_map[a] = y.enter_map[a]
        BY <1>1, <1>6, <2>2
      <3>2. NoRegion(y, a) => NoRegion(m, a)
        BY <1>1, <1>7, <1>9, <2>2 DEF NoRegion
      <3>3. Listed(y, a) => Listed(m, a)
        BY <1>1, <1>7, <1>9, <3>1 DEF Listed
      <3> QED BY <2>2, <3>1, <3>2, <3>3
    <2> QED BY <2>1, <2>2
  <1>16. Unfinished(m) = NoHash
    BY <1>6 DEF Unfinished
  <1>17. LogExact(v, m)
    <2>1. ResetExact(v, m)
      BY <1>6, <1>7, <1>8, <1>10, <1>12, <1>13, <1>15, <1>16 DEF ResetExact
    <2> QED BY <1>6, <1>10, <2>1, ExactWithRecords
  <1>18. ASSUME NEW a \in Hash
         PROVE  ExitCount(m.records, a) + ShortCount(m.regions, a)
                = ExitCount(r, a) + ShortCount(g, a) + IF a = h THEN 1 ELSE 0
    <2>1. ExitCount(r, a) \in Nat /\ ShortCount(g, a) \in Nat
      BY <1>1, <1>2, ExitCountAppend, ShortCountIs
    <2>2. ExitCount(m.records, a) = ExitCount(r, a)
      BY <1>6, <1>11
    <2>3. ShortCount(m.regions, a) = ShortCount(g, a) + IF a = h THEN 1 ELSE 0
      BY <1>7, <1>8
    <2> QED BY <2>1, <2>2, <2>3
  <1> QED BY <1>6, <1>14, <1>17, <1>18 DEF m, c

\* exit() of a process that is in the region, when it does not throw.
LEMMA ExitExact ==
    ASSUME NEW v, NEW l, Sound(l), NEW h \in Hash, LogExact(v, l), l.entered = h, ~ExitThrows(l, h)
    PROVE  LET m == LogExit(l, h)
           IN  /\ LogExact(v, m) /\ m.entered = NoHash /\ Marks(l.records, m.records)
               /\ \A g \in Hash : ExitCount(m.records, g) + ShortCount(m.regions, g)
                                  = ExitCount(l.records, g) + ShortCount(l.regions, g)
                                    + IF g = h THEN 1 ELSE 0
  <1> DEFINE q == CheckReset(l)
             m == LogExit(l, h)
             r == q.records
             y == ExitListed(q, h)
             a == q.enter_map[h]
  <1>1. /\ Sound(q) /\ q \in Log /\ q.records = l.records /\ q.regions = l.regions
        /\ q.entered = h /\ q.epochs = l.epochs /\ ResetExact(v, q)
    BY ResetSound, ResetShape DEF LogExact, Sound
  <1>2. a.record_idx < 0 => ~IsFull(q)
    BY DEF ExitThrows
  <1>3. m = IF a = NoEntry
            THEN IF IsFull(q) THEN q
                 ELSE [AppendRecord(q, Rec("EXIT", h)) EXCEPT !.entered = NoHash]
            ELSE ExitComplete(ExitCounted(q, h), h)
    BY ExitSteps
  <1> HIDE DEF q, m
  <1>4. /\ r \in Seq(LogRecord) /\ q.regions \in Seq(Region) /\ DOMAIN r = 1 .. Len(r) /\ Len(r) \in Nat
        /\ q.enter_map \in [Hash -> Entry] /\ a \in Entry
    BY <1>1 DEF Log
  <1>5. /\ Shorts(r, q.regions) /\ Distinct(q.regions)
        /\ Checked(v, r).ok /\ Checked(v, r).epoch = q.epochs /\ Checked(v, r).hash = Unfinished(q)
        /\ r = <<>> => q.regions = <<>>
    BY <1>1 DEF ResetExact
  <1>6. ASSUME NEW g \in Hash, g # h
        PROVE  (q.enter_map[g] = NoEntry /\ NoRegion(q, g)) \/ Listed(q, g)
    <2>1. ~Carried(q, g) /\ ~Open(q, g)
      BY <1>1, <1>6 DEF Carried, Open
    <2> QED BY <1>1, <2>1 DEF ResetExact, MapExact
  <1>7. \/ (a = NoEntry \/ Carried(q, h) \/ Open(q, h)) /\ NoRegion(q, h)
        \/ Listed(q, h)
    BY <1>1 DEF ResetExact, MapExact
  <1>8. /\ Sound(y) /\ y.entered = h /\ y.epochs = q.epochs /\ y.regions = q.regions
        /\ y.records = IF a.record_idx = -1 /\ ~IsFull(q) THEN Append(r, Rec("ENTRY", h)) ELSE r
        /\ y.enter_map = [q.enter_map EXCEPT ![h] =
              [record_idx |-> IF a.record_idx = -1 THEN Len(r) ELSE a.record_idx,
               region_idx |-> a.region_idx, is_short |-> TRUE]]
    BY SMTT(30), <1>1, ListedSound
  <1>9. /\ y.enter_map[h] = [record_idx |-> IF a.record_idx = -1 THEN Len(r) ELSE a.record_idx,
                             region_idx |-> a.region_idx, is_short |-> TRUE]
        /\ \A g \in Hash : g # h => y.enter_map[g] = q.enter_map[g]
    BY <1>4, <1>8
  <1>10. CASE a = NoEntry
    <2> DEFINE x == Rec("EXIT", h)
               z == AppendRecord(q, x)
               s == Append(r, x)
    <2>1. a.record_idx < 0 /\ ~a.is_short
      BY <1>10 DEF NoEntry
    <2>2. NoRegion(q, h)
      BY <1>7, <1>10, <2>1 DEF Listed
    <2>3. x \in LogRecord /\ x.event = "EXIT" /\ x.signal = h
      BY RecSound
    <2>4. m = [z EXCEPT !.entered = NoHash]
      BY <1>2, <1>3, <1>10, <2>1
    <2> HIDE DEF x
    <2>5. /\ Sound(z) /\ z.regions = q.regions /\ z.enter_map = q.enter_map /\ z.epochs = q.epochs
          /\ z.records = s
      BY <1>1, <1>2, <2>1, <2>3, AppendSound
    <2> HIDE DEF z
    <2>6. /\ m.records = s /\ m.regions = q.regions /\ m.enter_map = q.enter_map
          /\ m.epochs = q.epochs /\ m.entered = NoHash
      BY <2>4, <2>5 DEF Sound, Log
    <2>7. Unfinished(q) = h /\ Unfinished(m) = NoHash
      BY <1>1, <2>1, <2>6, Constants DEF Unfinished
    <2>8. Checked(v, s).ok /\ Checked(v, s).hash = NoHash /\ Checked(v, s).epoch = q.epochs
      BY <1>4, <1>5, <2>3, <2>7, CheckedAppend
    <2>9. /\ DOMAIN s = 1 .. Len(r) + 1 /\ s[Len(r) + 1] = x /\ s # <<>>
          /\ \A i \in DOMAIN r : s[i] = r[i]
      BY <1>4, <2>3
    <2>10. \A c : ExitCount(s, c) = ExitCount(r, c) + (IF x = Rec("EXIT", c) THEN 1 ELSE 0) /\ ExitCount(r, c) \in Nat
      BY <1>4, <2>3, ExitCountAppend
    <2> HIDE DEF s
    <2>11. /\ At(s, "SHORT") = At(r, "SHORT") /\ \A i \in At(r, "SHORT") : s[i] = r[i]
           /\ Marks(r, s)
      BY <1>4, <2>3, <2>9 DEF At, Marks
    <2>12. Shorts(s, q.regions)
      BY <1>5, <2>11, ShortsSame
    <2>13. MapExact(m)
      <3> SUFFICES ASSUME NEW g \in Hash
                   PROVE  (m.enter_map[g] = NoEntry /\ NoRegion(m, g)) \/ Listed(m, g)
        BY DEF MapExact
      <3>1. (q.enter_map[g] = NoEntry /\ NoRegion(q, g)) \/ Listed(q, g)
        BY <1>6, <1>10, <2>2
      <3>2. /\ NoRegion(q, g) => NoRegion(m, g)
            /\ Listed(q, g) => Listed(m, g)
        BY <2>6 DEF NoRegion, Listed
      <3> QED BY <2>6, <3>1, <3>2
    <2>14. ResetExact(v, m)
      BY <1>5, <2>6, <2>7, <2>8, <2>9, <2>12, <2>13 DEF ResetExact
    <2>15. LogExact(v, m)
      BY <2>6, <2>9, <2>14, ExactWithRecords
    <2>16. ASSUME NEW c \in Hash
           PROVE  ExitCount(m.records, c) + ShortCount(m.regions, c)
                  = ExitCount(l.records, c) + ShortCount(l.regions, c) + IF c = h THEN 1 ELSE 0
      <3>1. x = Rec("EXIT", c) <=> c = h
        BY <2>3, RecSound DEF x
      <3>2. ShortCount(q.regions, c) \in Nat /\ ExitCount(r, c) \in Nat
        BY <1>4, <2>10, ShortCountIs
      <3>3. ExitCount(s, c) = ExitCount(r, c) + IF c = h THEN 1 ELSE 0
        BY <2>10, <3>1
      <3> QED BY <1>1, <2>6, <3>2, <3>3
    <2> QED BY <1>1, <2>6, <2>11, <2>15, <2>16 DEF m
  <1>11. CASE Carried(q, h) /\ NoRegion(q, h)
    <2> DEFINE x == Rec("ENTRY", h)
               s == Append(r, x)
               k == Len(r) + 1
    <2>1. a.record_idx = -1 /\ a.region_idx = -1 /\ a # NoEntry /\ a.is_short
      BY <1>11 DEF Carried, NoEntry
    <2>2. x \in LogRecord /\ x.event = "ENTRY" /\ x.signal = h /\ Rec("ENTRY", h) = x
      BY RecSound
    <2>3. /\ y.records = s
          /\ y.enter_map[h] = [record_idx |-> Len(r), region_idx |-> -1, is_short |-> TRUE]
      BY <1>2, <1>8, <1>9, <2>1
    <2> HIDE DEF x
    <2>4. Unfinished(q) = NoHash
      BY <1>1, <2>1 DEF Unfinished
    <2>5. Checked(v, s).ok /\ Checked(v, s).epoch = q.epochs
      BY <1>4, <1>5, <2>2, <2>4, CheckedAppend
    <2>6. /\ DOMAIN s = 1 .. k /\ s[k] = x /\ \A i \in DOMAIN r : s[i] = r[i]
      BY <1>4, <2>2
    <2>7. \A c : ExitCount(s, c) = ExitCount(r, c)
      <3>1. \A c : x # Rec("EXIT", c)
        BY <2>2, RecSound
      <3>2. \A c : /\ ExitCount(s, c) = ExitCount(r, c) + (IF x = Rec("EXIT", c) THEN 1 ELSE 0)
                   /\ ExitCount(r, c) \in Nat
        BY <1>4, <2>2, ExitCountAppend
      <3> QED BY <3>1, <3>2
    <2> HIDE DEF s
    <2>8. /\ At(s, "SHORT") = At(r, "SHORT") /\ \A i \in At(r, "SHORT") : s[i] = r[i]
          /\ Marks(r, s)
      BY <1>4, <2>2, <2>6 DEF At, Marks
    <2>9. Shorts(s, q.regions)
      BY <1>5, <2>8, ShortsSame
    <2>10. m = ExitComplete(ConvertToShort(y, h), h)
      BY <1>3, <2>1, <2>3 DEF ExitCounted
    <2>11. /\ k \in DOMAIN y.records /\ k = y.enter_map[h].record_idx + 1
           /\ y.enter_map[h].is_short /\ y.enter_map[h].region_idx = -1
           /\ y.records[k] = Rec("ENTRY", h)
           /\ \A i \in DOMAIN y.records : i > k => y.records[i].event \notin {"ENTRY", "EXIT", "SHORT"}
      BY <1>4, <2>2, <2>3, <2>6
    <2>12. /\ Shorts(y.records, y.regions) /\ Distinct(y.regions) /\ NoRegion(y, h)
           /\ Checked(v, y.records).ok /\ Checked(v, y.records).epoch = y.epochs
      BY <1>5, <1>8, <1>11, <2>3, <2>5, <2>9 DEF NoRegion
    <2>13. \A g \in Hash \ {h} : (y.enter_map[g] = NoEntry /\ NoRegion(y, g)) \/ Listed(y, g)
      BY <1>6, <1>8, <1>9 DEF NoRegion, Listed
    <2> HIDE DEF y, k
    <2>14. /\ LogExact(v, m) /\ m.entered = NoHash /\ Marks(y.records, m.records)
           /\ \A g \in Hash : ExitCount(m.records, g) + ShortCount(m.regions, g)
                              = ExitCount(y.records, g) + ShortCount(y.regions, g)
                                + IF g = h THEN 1 ELSE 0
      <3>1. Sound(y)
        BY <1>8
      <3> HIDE DEF r, a
      <3> QED BY <2>10, <2>11, <2>12, <2>13, <3>1, ConvertExact
    <2>15. Marks(l.records, m.records)
      BY <1>1, <2>3, <2>8, <2>14 DEF Marks
    <2>16. \A g \in Hash : ExitCount(m.records, g) + ShortCount(m.regions, g)
                              = ExitCount(l.records, g) + ShortCount(l.regions, g)
                                + IF g = h THEN 1 ELSE 0
      BY <1>1, <1>8, <2>3, <2>7, <2>14
    <2> QED BY <2>14, <2>15, <2>16 DEF m
  <1>12. CASE Open(q, h) /\ NoRegion(q, h)
    <2> DEFINE k == a.record_idx + 1
    <2>1. /\ a.record_idx >= 0 /\ a.region_idx = -1 /\ a # NoEntry /\ ~a.is_short
          /\ k \in DOMAIN r /\ r[k] = Rec("ENTRY", h)
          /\ \A i \in DOMAIN r : i > k => r[i].event \notin {"ENTRY", "EXIT", "SHORT"}
      BY <1>4, <1>12 DEF Open, NoEntry, Entry
    <2>2. /\ y.records = r
          /\ y.enter_map[h] = [record_idx |-> a.record_idx, region_idx |-> -1, is_short |-> TRUE]
      <3>1. a.record_idx # -1
        BY <1>4, <2>1 DEF Entry
      <3> QED BY <1>8, <1>9, <2>1, <3>1
    <2>3. m = ExitComplete(ConvertToShort(y, h), h)
      BY <1>3, <2>1, <2>2 DEF ExitCounted
    <2>4. /\ k \in DOMAIN y.records /\ k = y.enter_map[h].record_idx + 1
          /\ y.enter_map[h].is_short /\ y.enter_map[h].region_idx = -1
          /\ y.records[k] = Rec("ENTRY", h)
          /\ \A i \in DOMAIN y.records : i > k => y.records[i].event \notin {"ENTRY", "EXIT", "SHORT"}
      BY <2>1, <2>2
    <2>5. /\ Shorts(y.records, y.regions) /\ Distinct(y.regions) /\ NoRegion(y, h)
          /\ Checked(v, y.records).ok /\ Checked(v, y.records).epoch = y.epochs
      BY <1>5, <1>8, <1>12, <2>2 DEF NoRegion
    <2>6. \A g \in Hash \ {h} : (y.enter_map[g] = NoEntry /\ NoRegion(y, g)) \/ Listed(y, g)
      BY <1>6, <1>8, <1>9 DEF NoRegion, Listed
    <2> HIDE DEF y, k
    <2>7. /\ LogExact(v, m) /\ m.entered = NoHash /\ Marks(y.records, m.records)
          /\ \A g \in Hash : ExitCount(m.records, g) + ShortCount(m.regions, g)
                             = ExitCount(y.records, g) + ShortCount(y.regions, g)
                               + IF g = h THEN 1 ELSE 0
      <3>1. Sound(y)
        BY <1>8
      <3> HIDE DEF r, a
      <3> QED BY <2>3, <2>4, <2>5, <2>6, <3>1, ConvertExact
    <2> QED BY <1>1, <1>8, <2>2, <2>7 DEF m
  <1>13. CASE Listed(q, h)
    <2> DEFINE j == a.region_idx + 1
               g == q.regions
               f == [g EXCEPT ![j].num_complete = @ + 1]
    <2>1. /\ a.record_idx >= 0 /\ a.region_idx >= 0 /\ a # NoEntry /\ a.is_short
          /\ j \in DOMAIN g /\ g[j].hash = h /\ r # <<>>
      <3>1. /\ a.record_idx >= 0 /\ a.is_short /\ j \in DOMAIN g /\ g[j].hash = h
        BY <1>13 DEF Listed
      <3>2. j > 0 /\ a.region_idx \in Int
        BY <1>4, <3>1 DEF Entry
      <3>3. g # <<>>
        BY <3>1
      <3> QED BY <1>5, <3>1, <3>2, <3>3 DEF NoEntry
    <2>2. /\ y.records = r
          /\ y.enter_map[h] = [record_idx |-> a.record_idx, region_idx |-> a.region_idx, is_short |-> TRUE]
      <3>1. a.record_idx # -1
        BY <1>4, <2>1 DEF Entry
      <3> QED BY <1>8, <1>9, <3>1
    <2>3. y.enter_map[h] = a
      BY <1>4, <2>1, <2>2, EntryShort
    <2>4. m = ExitComplete(y, h)
      BY <1>3, <1>4, <2>1, <2>3 DEF ExitCounted, Entry
    <2>5. /\ m.records = r /\ m.enter_map = y.enter_map /\ m.entered = NoHash /\ m.epochs = q.epochs
          /\ m.regions = f
      <3> DEFINE i == y.enter_map[h].region_idx + 1
                 c == ExitComplete(y, h)
      <3>1. Sound(y) /\ y.regions = g /\ y.epochs = q.epochs
        BY <1>8
      <3>2. i = j
        BY <2>3
      <3> HIDE DEF y, r, a
      <3>3. /\ c.records = y.records /\ c.enter_map = y.enter_map /\ c.entered = NoHash
            /\ c.epochs = y.epochs /\ c.regions = [y.regions EXCEPT ![i].num_complete = @ + 1]
        <4> HIDE DEF g, f, m
        <4> QED BY SMTT(30), <3>1, CompleteSound
      <3> HIDE DEF i, j, c
      <3> QED BY <2>2, <2>4, <3>1, <3>2, <3>3 DEF c
    <2>6. \A b \in Hash : y.enter_map[b] = q.enter_map[b]
      BY <1>9, <2>3
    <2>7. /\ Distinct(f) /\ DOMAIN f = DOMAIN g /\ Len(f) = Len(g)
          /\ \A i \in DOMAIN g : f[i].hash = g[i].hash
          /\ \A c \in Hash : ShortCount(f, c) = ShortCount(g, c) + IF c = h THEN 1 ELSE 0
      <3>1. /\ Distinct(f)
            /\ \A c \in Hash : ShortCount(f, c) = ShortCount(g, c) + IF c = h THEN 1 ELSE 0
        BY SMTT(30), <1>4, <1>5, <2>1, ShortCountMore
      <3>2. j \in Int /\ g \in Seq(Region)
        BY <1>4, <2>1
      <3>3. /\ DOMAIN f = DOMAIN g /\ Len(f) = Len(g)
            /\ \A i \in DOMAIN g : f[i] = IF i = j THEN [g[i] EXCEPT !.num_complete = @ + 1] ELSE g[i]
        BY <3>2, CountSound
      <3>4. \A i \in DOMAIN g : g[i] \in Region
        BY <3>2
      <3>5. \A b \in Region : [b EXCEPT !.num_complete = @ + 1].hash = b.hash
        BY DEF Region
      <3> HIDE DEF f
      <3>6. \A i \in DOMAIN g : f[i].hash = g[i].hash
        BY <3>3, <3>4, <3>5
      <3> QED BY <3>1, <3>3, <3>6
    <2> HIDE DEF f, y
    <2>8. Shorts(r, f)
      BY <1>5, <2>7 DEF Shorts
    <2>9. MapExact(m)
      <3> SUFFICES ASSUME NEW b \in Hash
                   PROVE  (m.enter_map[b] = NoEntry /\ NoRegion(m, b)) \/ Listed(m, b)
        BY DEF MapExact
      <3>1. (q.enter_map[b] = NoEntry /\ NoRegion(q, b)) \/ Listed(q, b)
        BY <1>6, <1>13
      <3>2. /\ NoRegion(q, b) => NoRegion(m, b)
            /\ Listed(q, b) => Listed(m, b)
        BY SMTT(30), <2>5, <2>6, <2>7 DEF NoRegion, Listed
      <3> QED BY <2>5, <2>6, <3>1, <3>2
    <2>10. Unfinished(q) = NoHash /\ Unfinished(m) = NoHash
      BY <1>1, <2>1, <2>5 DEF Unfinished
    <2>11. ResetExact(v, m)
      BY <1>5, <2>1, <2>5, <2>7, <2>8, <2>9, <2>10 DEF ResetExact
    <2>12. LogExact(v, m)
      BY <2>1, <2>5, <2>11, ExactWithRecords
    <2>13. ASSUME NEW c \in Hash
           PROVE  ExitCount(m.records, c) + ShortCount(m.regions, c)
                  = ExitCount(l.records, c) + ShortCount(l.regions, c) + IF c = h THEN 1 ELSE 0
      <3>1. ShortCount(g, c) \in Nat /\ ExitCount(r, c) \in Nat
        BY <1>4, RecSound, ShortCountIs, ExitCountAppend
      <3>2. ShortCount(f, c) = ShortCount(g, c) + IF c = h THEN 1 ELSE 0
        BY <2>7
      <3> QED BY <1>1, <2>5, <3>1, <3>2
    <2> QED BY <1>1, <2>5, <2>12, <2>13 DEF m, Marks
  <1> QED BY <1>7, <1>10, <1>11, <1>12, <1>13

-----------------------------------------------------------------------------
(* dump(), and the buffers of the sampler.                                 *)

\* After a dump the log is exact for the validator that has seen its records.
LEMMA DumpExact ==
    ASSUME NEW v, NEW l, Sound(l), LogExact(v, l)
    PROVE  Checked(v, l.records).ok /\ LogExact(Checked(v, l.records), Dumped(l))
  <1> DEFINE q == CheckReset(l)
             c == Checked(v, l.records)
             d == Dumped(l)
             m == CheckReset(d)
  <1>1. /\ q \in Log /\ q.records = l.records /\ q.entered = l.entered /\ q.epochs = l.epochs
        /\ ResetExact(v, q) /\ l \in Log
        /\ l.records # <<>> => q = l
        /\ l.records = <<>> => \A h \in Hash : q.enter_map[h].is_short <=> h = l.entered /\ l.enter_map[h].is_short
    <2>1. l \in Log
      BY DEF Sound
    <2>2. NoEntry.is_short = FALSE
      BY DEF NoEntry
    <2> QED BY <2>1, <2>2, ResetShape DEF LogExact
  <1>2. /\ Sound(d) /\ d.records = <<>> /\ d.regions = <<>> /\ d.entered = l.entered
        /\ d.epochs = l.epochs /\ d.enter_map = l.enter_map
    BY DumpSound
  <1> HIDE DEF d, q
  <1>3. /\ m \in Log /\ m.records = <<>> /\ m.regions = <<>> /\ m.entered = l.entered
        /\ m.epochs = l.epochs
        /\ \A h \in Hash : m.enter_map[h] =
             IF h = l.entered /\ l.enter_map[h].is_short
             THEN [record_idx |-> -1, region_idx |-> -1, is_short |-> TRUE] ELSE NoEntry
    <2>1. d \in Log
      BY <1>2 DEF Sound
    <2> QED BY <1>2, <2>1, ResetShape
  <1> HIDE DEF m
  <1>4. c.ok /\ c.epoch = l.epochs /\ c.hash = Unfinished(q)
    BY <1>1 DEF ResetExact
  <1>5. Unfinished(m) = Unfinished(q)
    <2>1. CASE l.entered = NoHash
      BY <1>1, <1>3, <2>1 DEF Unfinished
    <2>2. CASE l.entered # NoHash
      <3>1. l.entered \in Hash
        BY <1>1, <2>2 DEF Log
      <3>2. m.enter_map[l.entered].is_short <=> l.enter_map[l.entered].is_short
        BY <1>3, <3>1 DEF NoEntry
      <3>3. q.enter_map[l.entered].is_short <=> l.enter_map[l.entered].is_short
        BY <1>1, <3>1
      <3> QED BY <1>1, <1>3, <2>2, <3>2, <3>3 DEF Unfinished
    <2> QED BY <2>1, <2>2
  <1>6. Shorts(<<>>, <<>>) /\ Distinct(<<>>)
    <2>1. At(<<>>, "SHORT") = {} /\ 0 .. Len(<<>>) - 1 = {} /\ DOMAIN <<>> = {}
      BY DEF At
    <2> QED BY <2>1 DEF Shorts, Distinct
  <1>7. MapExact(m)
    <2>1. \A h \in Hash : NoRegion(m, h) /\ (m.enter_map[h] = NoEntry \/ Carried(m, h))
      BY <1>3 DEF NoRegion, Carried
    <2> QED BY <2>1 DEF MapExact
  <1>8. Checked(c, <<>>).ok /\ Checked(c, <<>>).epoch = l.epochs /\ Checked(c, <<>>).hash = Unfinished(m)
    BY <1>4, <1>5, CheckedEmpty
  <1> HIDE DEF c
  <1>9. ResetExact(c, m)
    BY <1>3, <1>6, <1>7, <1>8 DEF ResetExact
  <1> QED BY <1>4, <1>9 DEF LogExact, m, d, c

\* The number of short region events before one of them is its signal.
LEMMA ShortsRank ==
    ASSUME NEW R, NEW r \in Seq(R), NEW G, NEW g \in Seq(G), Shorts(r, g)
    PROVE  /\ \A i \in At(r, "SHORT") : Cardinality({j \in At(r, "SHORT") : j < i}) = r[i].signal
           /\ Cardinality(At(r, "SHORT")) = Len(g)
  <1> DEFINE A == At(r, "SHORT")
  <1>0. A \subseteq DOMAIN r /\ A \subseteq Int /\ Len(g) \in Nat
    BY DEF At
  <1>1. /\ \A i \in A : r[i].signal \in 0 .. Len(g) - 1
        /\ \A i, j \in A : i < j => r[i].signal < r[j].signal
        /\ \A m \in 0 .. Len(g) - 1 : \E i \in A : r[i].signal = m
    BY DEF Shorts
  <1> HIDE DEF A
  <1>2. ASSUME NEW S, S \subseteq A, NEW n \in Nat, n <= Len(g),
               \A i \in A : i \in S <=> r[i].signal < n
        PROVE  Cardinality(S) = n
    <2> DEFINE f == [i \in S |-> r[i].signal]
               T == 0 .. n - 1
    <2>1. IsFiniteSet(S)
      BY <1>0, <1>2, PlacesFinite
    <2>2. f \in [S -> T]
      BY <1>0, <1>1, <1>2
    <2>3. \A i, j \in S : f[i] = f[j] => i = j
      BY SMTT(30), <1>0, <1>1, <1>2
    <2>4. \A m \in T : \E i \in S : f[i] = m
      <3> SUFFICES ASSUME NEW m \in T PROVE \E i \in S : f[i] = m
        OBVIOUS
      <3>1. m \in 0 .. Len(g) - 1 /\ m < n
        BY <1>0, <1>2
      <3>2. PICK i \in A : r[i].signal = m
        BY <1>1, <3>1
      <3> QED BY <1>2, <3>1, <3>2
    <2> HIDE DEF T, f
    <2>5. f \in Bijection(S, T)
      BY <2>2, <2>3, <2>4 DEF Bijection, Injection, Surjection, IsInjective
    <2>6. Cardinality(T) = Cardinality(S)
      BY <2>1, <2>5, FS_Bijection DEF ExistsBijection
    <2>7. Cardinality(T) = n
      BY FS_Interval DEF T
    <2> QED BY <2>6, <2>7
  <1>3. ASSUME NEW i \in A PROVE Cardinality({j \in A : j < i}) = r[i].signal
    <2> DEFINE S == {j \in A : j < i}
    <2>1. r[i].signal \in Nat /\ r[i].signal <= Len(g)
      BY <1>0, <1>1
    <2>2. \A j \in A : j \in S <=> r[j].signal < r[i].signal
      BY <1>0, <1>1
    <2>3. S \subseteq A
      OBVIOUS
    <2> HIDE DEF S
    <2>4. Cardinality(S) = r[i].signal
      BY <1>2, <2>1, <2>2, <2>3
    <2> QED BY <2>4 DEF S
  <1>4. Cardinality(A) = Len(g)
    <2>1. \A j \in A : j \in A <=> r[j].signal < Len(g)
      BY <1>0, <1>1
    <2> QED BY <1>0, <1>2, <2>1
  <1> QED BY <1>3, <1>4 DEF A

\* The records that a dump of the log of p adds to the buffer.
Tagged(records, p) ==
    [i \in DOMAIN records |->
       [event |-> records[i].event, signal |-> records[i].signal, process |-> p]]

\* The records b are those of r, with the process p and perhaps other signals of
\* their short region events; shifted by off, when all handles are moved.
Copied(r, b, p) ==
    /\ b \in Seq(BufferRecord) /\ Signals(b) /\ DOMAIN b = DOMAIN r
    /\ \A i \in DOMAIN r : /\ b[i].event = r[i].event /\ b[i].process = p
                           /\ r[i].event # "SHORT" => b[i].signal = r[i].signal

Shifted(r, b, off) == \A i \in At(r, "SHORT") : b[i].signal = r[i].signal + off

\* The loop that moves the handles, for any log and for an exact one.
LEMMA ReindexIs ==
    ASSUME NEW r \in Seq(LogRecord), Signals(r), NEW p \in Process,
           NEW g \in Seq(Region), NEW off \in Nat
    PROVE  LET b == Reindex(Tagged(r, p), Len(g), off)
           IN  Copied(r, b, p) /\ (Shorts(r, g) => Shifted(r, b, off))
  <1> DEFINE t == Tagged(r, p)
             b == Reindex(t, Len(g), off)
             before(i) == {j \in 1 .. i - 1 : t[j].event = "SHORT"}
             moved(i) == t[i].event = "SHORT" /\ Cardinality(before(i)) < Len(g)
  <1>1. \A x \in LogRecord : x.event \in Event /\ x.signal \in Hash \cup Nat
    BY DEF LogRecord
  <1>2. /\ DOMAIN r = 1 .. Len(r) /\ Len(r) \in Nat /\ \A i \in DOMAIN r : r[i] \in LogRecord
    OBVIOUS
  <1>3. DOMAIN t = DOMAIN r /\ \A i \in DOMAIN r :
            /\ t[i] \in BufferRecord /\ t[i].event = r[i].event /\ t[i].signal = r[i].signal
            /\ t[i].process = p
    BY <1>1, <1>2 DEF Tagged, BufferRecord
  <1> HIDE DEF t
  <1>4. DOMAIN b = DOMAIN r /\ \A i \in DOMAIN r :
          b[i] = IF moved(i) THEN [t[i] EXCEPT !.signal = @ + off] ELSE t[i]
    BY <1>3 DEF Reindex
  <1> HIDE DEF b, moved
  <1>5. ASSUME NEW x \in BufferRecord, x.signal \in Nat
        PROVE  LET y == [x EXCEPT !.signal = @ + off]
               IN  /\ y \in BufferRecord /\ y.event = x.event /\ y.process = x.process
                   /\ y.signal = x.signal + off /\ y.signal \in Nat
    BY <1>5 DEF BufferRecord
  <1>6. ASSUME NEW i \in DOMAIN r
        PROVE  /\ b[i] \in BufferRecord /\ b[i].event = r[i].event /\ b[i].process = p
               /\ r[i].event # "SHORT" => b[i].signal = r[i].signal
               /\ r[i].event = "SHORT" => b[i].signal \in Nat
               /\ moved(i) => b[i].signal = r[i].signal + off
    <2>1. CASE moved(i)
      <3>1. r[i].event = "SHORT" /\ t[i].signal \in Nat
        BY <1>3, <2>1 DEF moved, Signals
      <3>2. b[i] = [t[i] EXCEPT !.signal = @ + off]
        BY <1>4, <2>1
      <3> QED BY <1>3, <1>5, <3>1, <3>2
    <2>2. CASE ~moved(i)
      BY <1>3, <1>4, <2>2 DEF Signals
    <2> QED BY <2>1, <2>2
  <1>7. b \in Seq(BufferRecord)
    <2>1. b = [i \in 1 .. Len(r) |-> b[i]]
      BY <1>2, <1>4 DEF b, Reindex
    <2> QED BY <1>2, <1>4, <1>6, <2>1
  <1>8. Signals(b)
    BY <1>4, <1>6 DEF Signals
  <1>9. ASSUME Shorts(r, g) PROVE Shifted(r, b, off)
    <2> SUFFICES ASSUME NEW i \in At(r, "SHORT") PROVE moved(i)
      BY <1>6 DEF Shifted, At
    <2>1. i \in DOMAIN r /\ r[i].event = "SHORT" /\ r[i].signal < Len(g)
      BY <1>9 DEF At, Shorts
    <2>2. before(i) = {j \in At(r, "SHORT") : j < i}
      BY <1>2, <1>3, <2>1 DEF At
    <2>3. Cardinality({j \in At(r, "SHORT") : j < i}) = r[i].signal
      BY <1>9, ShortsRank
    <2> QED BY <1>3, <2>1, <2>2, <2>3 DEF moved
  <1> QED BY <1>4, <1>6, <1>7, <1>8, <1>9 DEF Copied, b, t

\* What the buffer B holds of process p, as the aggregator reads it.
Own(B, p, event) == {i \in At(B, event) : B[i].process = p}

OwnIn(B, S, p) ==
    /\ \A i \in Own(B, p, "SHORT") : B[i].signal < Len(S)
    /\ \A i, j \in Own(B, p, "SHORT") : S[B[i].signal + 1].hash = S[B[j].signal + 1].hash => i = j

BufExit(B, p, h) == Cardinality({i \in Own(B, p, "EXIT") : B[i].signal = h})

BufShort(B, S, p, h) ==
    LET complete == [i \in Own(B, p, "SHORT") |-> S[B[i].signal + 1].num_complete]
    IN  SumFunctionOnSet(complete, {i \in Own(B, p, "SHORT") : S[B[i].signal + 1].hash = h})

\* Both are numbers when no handle is past the short regions.
LEMMA BufNatural ==
    ASSUME NEW B \in Seq(BufferRecord), NEW S \in Seq(Region), Signals(B), NEW p, NEW h,
           \A i \in Own(B, p, "SHORT") : B[i].signal < Len(S)
    PROVE  BufExit(B, p, h) \in Nat /\ BufShort(B, S, p, h) \in Nat
  <1> DEFINE A == Own(B, p, "SHORT")
             f == [i \in A |-> S[B[i].signal + 1].num_complete]
             T == {i \in A : S[B[i].signal + 1].hash = h}
             E == {i \in Own(B, p, "EXIT") : B[i].signal = h}
  <1>1. E \subseteq DOMAIN B /\ T \subseteq DOMAIN B /\ T \subseteq A
    BY DEF Own, At
  <1>2. IsFiniteSet(T) /\ Cardinality(E) \in Nat
    BY <1>1, PlacesFinite
  <1>3. \A i \in A : f[i] \in Nat
    <2>1. \A x \in Region : x.num_complete \in Nat
      BY DEF Region
    <2>2. \A i \in A : B[i].signal \in Nat
      BY DEF Own, At, Signals
    <2>3. \A i \in A : S[B[i].signal + 1] \in Region
      BY <2>2
    <2> QED BY <2>1, <2>3
  <1>4. BufExit(B, p, h) = Cardinality(E) /\ BufShort(B, S, p, h) = SumFunctionOnSet(f, T)
    BY DEF BufExit, BufShort
  <1> HIDE DEF f, T
  <1> QED BY <1>1, <1>2, <1>3, <1>4, SumNatural

\* The buffer after a dump.
LEMMA JoinPlaces ==
    ASSUME NEW B \in Seq(BufferRecord), Signals(B), NEW r \in Seq(LogRecord), NEW b, NEW p, Copied(r, b, p)
    PROVE  LET C == B \o b
               n == Len(B)
           IN  /\ C \in Seq(BufferRecord) /\ Signals(C) /\ n \in Nat
               /\ \A i \in DOMAIN B : i \in DOMAIN C /\ C[i] = B[i] /\ i \in 1 .. n
               /\ \A i \in DOMAIN r : n + i \in DOMAIN C /\ C[n + i] = b[i] /\ i \in Nat /\ i > 0
               /\ \A k \in DOMAIN C : k \in DOMAIN B \/ (k > n /\ k - n \in DOMAIN r)
               /\ DOMAIN C \subseteq Nat
  <1> DEFINE C == B \o b
             n == Len(B)
  <1>1. b \in Seq(BufferRecord) /\ Signals(b) /\ DOMAIN b = DOMAIN r
    BY DEF Copied
  <1>2. /\ n \in Nat /\ DOMAIN B = 1 .. n /\ Len(b) \in Nat /\ DOMAIN b = 1 .. Len(b)
        /\ C \in Seq(BufferRecord) /\ DOMAIN C = 1 .. n + Len(b)
    BY <1>1
  <1>3. /\ \A i \in 1 .. n : C[i] = B[i]
        /\ \A i \in 1 .. Len(b) : C[n + i] = b[i]
    BY <1>1, <1>2
  <1> HIDE DEF C, n
  <1>4. \A k \in DOMAIN C : k \in 1 .. n \/ (k > n /\ k - n \in 1 .. Len(b) /\ k = n + (k - n))
    BY <1>2
  <1>5. Signals(C)
    BY <1>1, <1>2, <1>3, <1>4 DEF Signals
  <1> QED BY <1>1, <1>2, <1>3, <1>4, <1>5 DEF C, n

\* The records of another process keep their places.
LEMMA JoinOther ==
    ASSUME NEW B \in Seq(BufferRecord), Signals(B), NEW r \in Seq(LogRecord), NEW b, NEW p, Copied(r, b, p),
           NEW S \in Seq(Region), NEW g \in Seq(Region), NEW q, q # p
    PROVE  LET C == B \o b
               T == S \o g
           IN  /\ \A e : Own(C, q, e) = Own(B, q, e)
               /\ OwnIn(B, S, q) => /\ OwnIn(C, T, q)
                                    /\ \A h : /\ BufExit(C, q, h) = BufExit(B, q, h)
                                              /\ BufShort(C, T, q, h) = BufShort(B, S, q, h)
  <1> DEFINE C == B \o b
             T == S \o g
             n == Len(B)
  <1>1. /\ \A i \in DOMAIN B : i \in DOMAIN C /\ C[i] = B[i] /\ i \in 1 .. n
        /\ \A i \in DOMAIN r : n + i \in DOMAIN C /\ C[n + i] = b[i] /\ i \in Nat /\ i > 0
        /\ \A k \in DOMAIN C : k \in DOMAIN B \/ (k > n /\ k - n \in DOMAIN r)
        /\ n \in Nat /\ DOMAIN C \subseteq Nat
    BY JoinPlaces
  <1>2. /\ Len(S) \in Nat /\ Len(g) \in Nat /\ Len(T) = Len(S) + Len(g) /\ \A k \in 1 .. Len(S) : T[k] = S[k]
    OBVIOUS
  <1> HIDE DEF C, T, n
  <1>3. \A k \in DOMAIN C : k \in DOMAIN B \/ C[k].process = p
    <2> SUFFICES ASSUME NEW k \in DOMAIN C, k \notin DOMAIN B PROVE C[k].process = p
      OBVIOUS
    <2>1. k - n \in DOMAIN r /\ k = n + (k - n)
      BY <1>1
    <2> QED BY <1>1, <2>1 DEF Copied
  <1>4. ASSUME NEW e PROVE Own(C, q, e) = Own(B, q, e)
    BY <1>1, <1>3 DEF Own, At
  <1>5. ASSUME OwnIn(B, S, q)
        PROVE  /\ OwnIn(C, T, q)
               /\ \A h : /\ BufExit(C, q, h) = BufExit(B, q, h)
                         /\ BufShort(C, T, q, h) = BufShort(B, S, q, h)
    <2>1. \A i \in Own(B, q, "SHORT") : /\ C[i] = B[i] /\ B[i].signal \in Nat /\ B[i].signal < Len(S)
                                        /\ T[B[i].signal + 1] = S[B[i].signal + 1]
      <3>1. \A i \in Own(B, q, "SHORT") : C[i] = B[i] /\ B[i].signal \in Nat /\ B[i].signal < Len(S)
        BY <1>1, <1>5 DEF Own, At, OwnIn, Signals
      <3>2. \A i \in Own(B, q, "SHORT") : B[i].signal + 1 \in 1 .. Len(S)
        BY <1>2, <3>1
      <3> QED BY <1>2, <3>1, <3>2
    <2>2. OwnIn(C, T, q)
      <3>1. Own(C, q, "SHORT") = Own(B, q, "SHORT")
        BY <1>4
      <3>2. \A i \in Own(B, q, "SHORT") : C[i].signal < Len(T)
        BY <1>2, <2>1
      <3>3. \A i, j \in Own(B, q, "SHORT") : T[C[i].signal + 1].hash = T[C[j].signal + 1].hash => i = j
        <4>1. \A i \in Own(B, q, "SHORT") : T[C[i].signal + 1] = S[B[i].signal + 1]
          BY <2>1
        <4> QED BY <1>5, <4>1 DEF OwnIn
      <3> QED BY <3>1, <3>2, <3>3 DEF OwnIn
    <2>3. ASSUME NEW h PROVE BufExit(C, q, h) = BufExit(B, q, h)
      <3>1. \A i \in Own(B, q, "EXIT") : C[i] = B[i]
        BY <1>1 DEF Own, At
      <3>2. {i \in Own(C, q, "EXIT") : C[i].signal = h} = {i \in Own(B, q, "EXIT") : B[i].signal = h}
        BY <1>4, <3>1
      <3> QED BY <3>2 DEF BufExit
    <2>4. ASSUME NEW h PROVE BufShort(C, T, q, h) = BufShort(B, S, q, h)
      <3> DEFINE A == Own(B, q, "SHORT")
                 f == [i \in A |-> S[B[i].signal + 1].num_complete]
                 k == [i \in A |-> T[C[i].signal + 1].num_complete]
                 U == {i \in A : S[B[i].signal + 1].hash = h}
                 V == {i \in A : T[C[i].signal + 1].hash = h}
      <3>1. U = V /\ \A i \in U : k[i] = f[i]
        BY <2>1
      <3>2. IsFiniteSet(U)
        <4>1. U \subseteq DOMAIN B
          BY DEF Own, At
        <4> QED BY <4>1, PlacesFinite
      <3>3. BufShort(B, S, q, h) = SumFunctionOnSet(f, U)
        BY DEF BufShort
      <3>4. BufShort(C, T, q, h) = SumFunctionOnSet(k, V)
        BY <1>4 DEF BufShort
      <3> HIDE DEF U, V, f, k
      <3> QED BY <3>1, <3>2, <3>3, <3>4, SumSame
    <2> QED BY <2>2, <2>3, <2>4
  <1> QED BY <1>4, <1>5 DEF C, T

\* The records of the process whose log is dumped.
LEMMA JoinOwn ==
    ASSUME NEW B \in Seq(BufferRecord), Signals(B), NEW r \in Seq(LogRecord), NEW b, NEW p, Copied(r, b, p),
           \A i \in DOMAIN B : B[i].process # p
    PROVE  LET C == B \o b
           IN  /\ \A e : Own(C, p, e) = {Len(B) + i : i \in At(r, e)}
               /\ \A h : BufExit(C, p, h) = ExitCount(r, h)
  <1> DEFINE C == B \o b
             n == Len(B)
  <1>1. /\ \A i \in DOMAIN B : i \in DOMAIN C /\ C[i] = B[i] /\ i \in 1 .. n
        /\ \A i \in DOMAIN r : n + i \in DOMAIN C /\ C[n + i] = b[i] /\ i \in Nat /\ i > 0
        /\ \A k \in DOMAIN C : k \in DOMAIN B \/ (k > n /\ k - n \in DOMAIN r)
        /\ n \in Nat /\ DOMAIN C \subseteq Nat
    BY JoinPlaces
  <1>2. \A i \in DOMAIN r : /\ b[i].event = r[i].event /\ b[i].process = p
                            /\ r[i].event # "SHORT" => b[i].signal = r[i].signal
    BY DEF Copied
  <1> HIDE DEF C, n
  <1>3. ASSUME NEW e PROVE Own(C, p, e) = {n + i : i \in At(r, e)}
    <2>1. ASSUME NEW i \in At(r, e) PROVE n + i \in Own(C, p, e)
      <3>1. i \in DOMAIN r /\ r[i].event = e
        BY DEF At
      <3>2. n + i \in DOMAIN C /\ C[n + i].event = e /\ C[n + i].process = p
        BY <1>1, <1>2, <3>1
      <3>3. n + i \in At(C, e)
        BY <3>2 DEF At
      <3> QED BY <3>2, <3>3 DEF Own
    <2>2. ASSUME NEW k \in Own(C, p, e) PROVE \E i \in At(r, e) : k = n + i
      <3>1. k \in DOMAIN C /\ C[k].process = p /\ C[k].event = e /\ k \in Nat
        BY <1>1 DEF Own, At
      <3>2. k - n \in DOMAIN r /\ k = n + (k - n)
        BY <1>1, <3>1
      <3>3. k - n \in At(r, e)
        BY <1>1, <1>2, <3>1, <3>2 DEF At
      <3> QED BY <3>2, <3>3
    <2> QED BY <2>1, <2>2
  <1>4. ASSUME NEW h PROVE BufExit(C, p, h) = ExitCount(r, h)
    <2> DEFINE S == {i \in DOMAIN r : r[i] = Rec("EXIT", h)}
               T == {k \in Own(C, p, "EXIT") : C[k].signal = h}
               f == [i \in S |-> n + i]
    <2>0. \A i \in DOMAIN r : r[i] = Rec("EXIT", h) <=> r[i].event = "EXIT" /\ r[i].signal = h
      <3>1. \A x \in LogRecord : x = Rec("EXIT", h) <=> x.event = "EXIT" /\ x.signal = h
        BY DEF LogRecord, Rec
      <3>2. \A i \in DOMAIN r : r[i] \in LogRecord
        OBVIOUS
      <3> QED BY <3>1, <3>2
    <2>1. IsFiniteSet(S)
      BY PlacesFinite
    <2>2. \A i \in S : n + i \in T /\ i \in Nat
      <3>1. \A i \in S : i \in At(r, "EXIT") /\ i \in Nat /\ C[n + i].signal = h
        BY <1>1, <1>2, <2>0 DEF At
      <3> QED BY <1>3, <3>1
    <2>3. ASSUME NEW k \in T PROVE \E i \in S : k = n + i
      <3>1. PICK i \in At(r, "EXIT") : k = n + i
        BY <1>3
      <3>2. C[k] = b[i] /\ b[i].signal = r[i].signal /\ C[k].signal = h /\ i \in DOMAIN r /\ r[i].event = "EXIT"
        BY <1>1, <1>2, <3>1 DEF At
      <3> QED BY <2>0, <3>1, <3>2
    <2>4. BufExit(C, p, h) = Cardinality(T) /\ ExitCount(r, h) = Cardinality(S)
      BY DEF BufExit, ExitCount
    <2> HIDE DEF S, T
    <2>5. f \in Bijection(S, T)
      <3>1. f \in [S -> T]
        BY <2>2
      <3>2. \A i, j \in S : f[i] = f[j] => i = j
        BY <1>1, <2>2
      <3>3. \A k \in T : \E i \in S : f[i] = k
        BY <2>3
      <3> HIDE DEF f
      <3> QED BY <3>1, <3>2, <3>3 DEF Bijection, Injection, Surjection, IsInjective
    <2> QED BY <2>1, <2>4, <2>5, FS_Bijection DEF ExistsBijection
  <1> QED BY <1>3, <1>4 DEF C, n

\* Its short region events name its short regions.
LEMMA JoinOwnShorts ==
    ASSUME NEW B \in Seq(BufferRecord), Signals(B), NEW r \in Seq(LogRecord), NEW b, NEW p, Copied(r, b, p),
           \A i \in DOMAIN B : B[i].process # p,
           NEW S \in Seq(Region), NEW g \in Seq(Region), Shorts(r, g), Distinct(g), Shifted(r, b, Len(S))
    PROVE  LET C == B \o b
               T == S \o g
           IN  OwnIn(C, T, p) /\ \A h : BufShort(C, T, p, h) = ShortCount(g, h)
  <1> DEFINE C == B \o b
             T == S \o g
             n == Len(B)
             m == Len(S)
             A == At(r, "SHORT")
  <1>1. /\ n \in Nat /\ Own(C, p, "SHORT") = {n + i : i \in A}
        /\ \A i \in DOMAIN r : C[n + i] = b[i] /\ i \in Nat
    <2>1. n \in Nat /\ \A i \in DOMAIN r : C[n + i] = b[i] /\ i \in Nat
      BY JoinPlaces
    <2>2. \A e : Own(C, p, e) = {n + i : i \in At(r, e)}
      BY JoinOwn
    <2> QED BY <2>1, <2>2
  <1>2. /\ m \in Nat /\ Len(g) \in Nat /\ Len(T) = m + Len(g) /\ \A k \in 1 .. Len(g) : T[m + k] = g[k]
        /\ DOMAIN g = 1 .. Len(g)
    OBVIOUS
  <1>3. /\ \A i \in A : i \in DOMAIN r /\ b[i].signal = r[i].signal + m /\ r[i].signal \in 0 .. Len(g) - 1
        /\ \A i, j \in A : i < j => r[i].signal < r[j].signal
        /\ \A k \in 0 .. Len(g) - 1 : \E i \in A : r[i].signal = k
    BY DEF Shorts, Shifted, At
  <1> HIDE DEF C, T, n, m, A
  <1>4. ASSUME NEW i \in A
        PROVE  /\ n + i \in Own(C, p, "SHORT") /\ i \in Nat
               /\ C[n + i].signal = m + r[i].signal /\ C[n + i].signal < Len(T)
               /\ T[C[n + i].signal + 1] = g[r[i].signal + 1] /\ r[i].signal + 1 \in DOMAIN g
    <2>1. C[n + i].signal = m + r[i].signal /\ r[i].signal + 1 \in 1 .. Len(g) /\ r[i].signal \in Nat
      <3>1. i \in DOMAIN r /\ C[n + i] = b[i] /\ b[i].signal = r[i].signal + m
        BY <1>1, <1>3
      <3>2. r[i].signal \in 0 .. Len(g) - 1
        BY <1>3
      <3>3. r[i].signal + 1 \in 1 .. Len(g) /\ r[i].signal \in Nat
        BY <1>2, <3>2
      <3> QED BY <1>2, <3>1, <3>3
    <2>2. (m + r[i].signal) + 1 = m + (r[i].signal + 1) /\ m + r[i].signal < m + Len(g)
      <3>1. \A a, c, k \in Nat : k + 1 \in 1 .. c => (a + k) + 1 = a + (k + 1) /\ a + k < a + c
        OBVIOUS
      <3> QED BY <1>2, <2>1, <3>1
    <2>3. T[m + (r[i].signal + 1)] = g[r[i].signal + 1] /\ r[i].signal + 1 \in DOMAIN g
      BY <1>2, <2>1
    <2>4. n + i \in Own(C, p, "SHORT") /\ i \in Nat
      BY <1>1, <1>3
    <2> QED BY <1>2, <2>1, <2>2, <2>3, <2>4
  <1>5. ASSUME NEW i \in A, NEW j \in A, g[r[i].signal + 1].hash = g[r[j].signal + 1].hash
        PROVE  i = j
    <2>1. r[i].signal + 1 = r[j].signal + 1
      BY <1>4, <1>5 DEF Distinct
    <2>2. ~(i < j) /\ ~(j < i)
      BY SMTT(30), <1>2, <1>3, <2>1
    <2> QED BY <1>4, <2>2
  <1>6. OwnIn(C, T, p)
    <2>1. \A k \in Own(C, p, "SHORT") : \E i \in A : k = n + i
      BY <1>1
    <2>2. \A k \in Own(C, p, "SHORT") : C[k].signal < Len(T)
      BY <1>4, <2>1
    <2>3. ASSUME NEW k \in Own(C, p, "SHORT"), NEW l \in Own(C, p, "SHORT"),
                 T[C[k].signal + 1].hash = T[C[l].signal + 1].hash
          PROVE  k = l
      <3>1. PICK i \in A : k = n + i
        BY <2>1
      <3>2. PICK j \in A : l = n + j
        BY <2>1
      <3>3. i = j
        <4>1. T[C[k].signal + 1] = g[r[i].signal + 1] /\ T[C[l].signal + 1] = g[r[j].signal + 1]
          BY <1>4, <3>1, <3>2
        <4> QED BY <1>5, <2>3, <4>1
      <3> QED BY <3>1, <3>2, <3>3
    <2> QED BY <2>2, <2>3 DEF OwnIn
  <1>7. ASSUME NEW h PROVE BufShort(C, T, p, h) = ShortCount(g, h)
    <2> DEFINE P == Own(C, p, "SHORT")
               f == [k \in P |-> T[C[k].signal + 1].num_complete]
               U == {k \in P : T[C[k].signal + 1].hash = h}
    <2>1. BufShort(C, T, p, h) = SumFunctionOnSet(f, U)
      BY DEF BufShort
    <2>2. CASE \E k \in DOMAIN g : g[k].hash = h
      <3>1. PICK k \in DOMAIN g : g[k].hash = h
        BY <2>2
      <3>2. k - 1 \in 0 .. Len(g) - 1 /\ (k - 1) + 1 = k
        BY <1>2
      <3>3. PICK i \in A : r[i].signal = k - 1
        BY <1>3, <3>2
      <3>4. T[C[n + i].signal + 1] = g[k] /\ n + i \in P
        BY <1>4, <3>2, <3>3
      <3>5. U = {n + i}
        <4>1. n + i \in U
          BY <3>1, <3>4
        <4>2. \A l \in U : l = n + i
          BY <1>6, <3>1, <3>4 DEF OwnIn
        <4> QED BY <4>1, <4>2
      <3>6. f[n + i] = g[k].num_complete
        BY <3>4
      <3>7. g[k].num_complete \in Int
        <4>1. g[k] \in Region
          OBVIOUS
        <4> QED BY <4>1 DEF Region
      <3>8. ShortCount(g, h) = g[k].num_complete
        BY <3>1, ShortCountIs
      <3> HIDE DEF f, U
      <3> QED BY <2>1, <3>5, <3>6, <3>7, <3>8, SumOfOne
    <2>3. CASE \A k \in DOMAIN g : g[k].hash # h
      <3>1. \A k \in P : \E i \in A : k = n + i
        BY <1>1
      <3>2. U = {}
        BY <1>4, <2>3, <3>1
      <3>3. ShortCount(g, h) = 0
        BY <2>3, ShortCountIs
      <3> HIDE DEF f, U
      <3> QED BY <2>1, <3>2, <3>3, SumOfNone
    <2> QED BY <2>2, <2>3
  <1> QED BY <1>6, <1>7 DEF C, T

\* The handles of the whole buffer.
LEMMA JoinShorts ==
    ASSUME NEW B \in Seq(BufferRecord), Signals(B), NEW r \in Seq(LogRecord), NEW b, NEW p, Copied(r, b, p),
           NEW S \in Seq(Region), NEW g \in Seq(Region), Shorts(B, S), Shorts(r, g), Shifted(r, b, Len(S))
    PROVE  Shorts(B \o b, S \o g)
  <1> DEFINE C == B \o b
             T == S \o g
             n == Len(B)
             m == Len(S)
             d == Len(g)
             A == At(r, "SHORT")
             D == At(B, "SHORT")
             E == At(C, "SHORT")
  <1>1. /\ \A i \in DOMAIN B : i \in DOMAIN C /\ C[i] = B[i] /\ i \in 1 .. n
        /\ \A i \in DOMAIN r : n + i \in DOMAIN C /\ C[n + i] = b[i] /\ i \in Nat /\ i > 0
        /\ \A k \in DOMAIN C : k \in DOMAIN B \/ (k > n /\ k - n \in DOMAIN r)
        /\ n \in Nat /\ DOMAIN C \subseteq Nat
    BY JoinPlaces
  <1>2. m \in Nat /\ d \in Nat /\ Len(T) = m + d
    OBVIOUS
  <1>3. /\ \A i \in A : i \in DOMAIN r /\ b[i].signal = r[i].signal + m /\ r[i].signal \in 0 .. d - 1
        /\ \A i, j \in A : i < j => r[i].signal < r[j].signal
        /\ \A k \in 0 .. d - 1 : \E i \in A : r[i].signal = k
    BY DEF Shorts, Shifted, At
  <1>4. /\ \A i \in D : i \in DOMAIN B /\ B[i].signal \in 0 .. m - 1
        /\ \A i, j \in D : i < j => B[i].signal < B[j].signal
        /\ \A k \in 0 .. m - 1 : \E i \in D : B[i].signal = k
    BY DEF Shorts, At
  <1>5. /\ \A i \in D : i \in E
        /\ \A i \in A : n + i \in E
        /\ \A k \in E : k \in D \/ (k > n /\ k - n \in A /\ k = n + (k - n)) 
    <2>1. \A i \in DOMAIN r : b[i].event = r[i].event
      BY DEF Copied
    <2> HIDE DEF C, n
    <2>2. \A i \in D : i \in E
      BY <1>1 DEF At
    <2>3. \A i \in A : n + i \in E
      BY <1>1, <2>1 DEF At
    <2>4. ASSUME NEW k \in E, k \notin D PROVE k > n /\ k - n \in A /\ k = n + (k - n)
      <3>1. k \in DOMAIN C /\ C[k].event = "SHORT"
        BY DEF At
      <3>2. k \notin DOMAIN B
        BY <1>1, <2>4, <3>1 DEF At
      <3>3. k > n /\ k - n \in DOMAIN r /\ k = n + (k - n)
        BY <1>1, <3>1, <3>2
      <3> QED BY <1>1, <2>1, <3>1, <3>3 DEF At
    <2> QED BY <2>2, <2>3, <2>4
  <1> HIDE DEF C, T, n, m, d, A, D, E
  <1>6. /\ \A i \in D : C[i].signal = B[i].signal /\ i \in 1 .. n
        /\ \A i \in A : C[n + i].signal = m + r[i].signal /\ i \in Nat /\ i > 0
    <2>1. \A i \in D : C[i].signal = B[i].signal /\ i \in 1 .. n
      BY <1>1, <1>4
    <2>2. ASSUME NEW i \in A PROVE C[n + i].signal = m + r[i].signal /\ i \in Nat /\ i > 0
      <3>1. i \in DOMAIN r /\ C[n + i] = b[i] /\ b[i].signal = r[i].signal + m /\ i \in Nat /\ i > 0
        BY <1>1, <1>3
      <3>2. r[i].signal \in 0 .. d - 1
        BY <1>3
      <3> QED BY <1>2, <3>1, <3>2
    <2> QED BY <2>1, <2>2
  <1>7. ASSUME NEW k \in E PROVE C[k].signal \in 0 .. (m + d) - 1
    <2>1. CASE k \in D
      BY <1>2, <1>4, <1>6, <2>1
    <2>2. CASE k \notin D
      <3>1. k - n \in A /\ k = n + (k - n)
        BY <1>5, <2>2
      <3>2. C[k].signal = m + r[k - n].signal /\ r[k - n].signal \in 0 .. d - 1
        BY <1>3, <1>6, <3>1
      <3> QED BY SMTT(30), <1>2, <3>2
    <2> QED BY <2>1, <2>2
  <1>8. ASSUME NEW i \in E, NEW j \in E, i < j PROVE C[i].signal < C[j].signal
    <2>1. CASE i \in D /\ j \in D
      BY <1>4, <1>6, <1>8, <2>1
    <2>2. CASE i \in D /\ j \notin D
      <3>1. j - n \in A /\ j = n + (j - n)
        BY <1>5, <2>2
      <3>2. C[j].signal = m + r[j - n].signal /\ r[j - n].signal \in 0 .. d - 1
        BY <1>3, <1>6, <3>1
      <3>3. C[i].signal \in 0 .. m - 1
        BY <1>4, <1>6, <2>2
      <3> QED BY SMTT(30), <1>2, <3>2, <3>3
    <2>3. CASE i \notin D /\ j \notin D
      <3>1. i - n \in A /\ j - n \in A /\ i = n + (i - n) /\ j = n + (j - n) /\ i > n /\ j > n
        BY <1>5, <2>3
      <3>2. i - n < j - n
        BY <1>1, <1>6, <1>8, <3>1
      <3>3. r[i - n].signal < r[j - n].signal
        BY <1>3, <3>1, <3>2
      <3>4. /\ C[j].signal = m + r[j - n].signal /\ r[j - n].signal \in 0 .. d - 1
            /\ C[i].signal = m + r[i - n].signal /\ r[i - n].signal \in 0 .. d - 1
        BY <1>3, <1>6, <3>1
      <3> QED BY SMTT(30), <1>2, <3>3, <3>4
    <2>4. CASE i \notin D /\ j \in D
      <3>1. i > n /\ j <= n /\ i - n \in A /\ i = n + (i - n)
        BY <1>1, <1>5, <1>6, <2>4
      <3>2. i \in Nat
        BY <1>1, <1>6, <3>1
      <3>3. j \in D
        BY <2>4
      <3>4. j \in 1 .. n /\ n \in Nat
        BY <1>1, <1>6, <3>3
      <3> QED BY <1>8, <3>1, <3>2, <3>4
    <2> QED BY <2>1, <2>2, <2>3, <2>4
  <1>9. ASSUME NEW k \in 0 .. (m + d) - 1 PROVE \E i \in E : C[i].signal = k
    <2>1. CASE k \in 0 .. m - 1
      BY <1>4, <1>5, <1>6, <2>1
    <2>2. CASE k \notin 0 .. m - 1
      <3>1. k - m \in 0 .. d - 1 /\ m + (k - m) = k
        BY <1>2, <2>2
      <3>2. PICK i \in A : r[i].signal = k - m
        BY <1>3, <3>1
      <3> QED BY <1>5, <1>6, <3>1, <3>2
    <2> QED BY <2>1, <2>2
  <1>10. Shorts(C, T)
    BY <1>2, <1>7, <1>8, <1>9 DEF Shorts, E
  <1> QED BY <1>10 DEF C, T

-----------------------------------------------------------------------------
(* The state in terms of one log and of the buffer.                        *)

\* What the aggregator would add for p, and what is still in its log.
LEMMA CountForms ==
    ASSUME NEW p, NEW h
    PROVE  /\ Completed(p, h) = BufExit(sampler.buffer, p, h) + BufShort(sampler.buffer, sampler.shorts, p, h)
           /\ Completed(p, h)' = BufExit(sampler'.buffer, p, h) + BufShort(sampler'.buffer, sampler'.shorts, p, h)
           /\ NumExit(p, h) = ExitCount(log[p].records, h) /\ NumShort(p, h) = ShortCount(log[p].regions, h)
           /\ NumExit(p, h)' = ExitCount(log'[p].records, h) /\ NumShort(p, h)' = ShortCount(log'[p].regions, h)
  <1>1. /\ Completed(p, h) = BufExit(sampler.buffer, p, h) + BufShort(sampler.buffer, sampler.shorts, p, h)
        /\ Completed(p, h)' = BufExit(sampler'.buffer, p, h) + BufShort(sampler'.buffer, sampler'.shorts, p, h)
    BY DEF Completed, InBuffer, BufExit, BufShort, Own, At
  <1>2. /\ NumExit(p, h) = ExitCount(log[p].records, h) /\ NumShort(p, h) = ShortCount(log[p].regions, h)
        /\ NumExit(p, h)' = ExitCount(log'[p].records, h) /\ NumShort(p, h)' = ShortCount(log'[p].regions, h)
    BY DEF NumExit, NumShort, ExitCount, ShortCount
  <1> QED BY <1>1, <1>2

\* The places of the buffer.
LEMMA BufferForms ==
    ASSUME NEW p, NEW e
    PROVE  /\ InBuffer(e) = At(sampler.buffer, e) /\ InBuffer(e)' = At(sampler'.buffer, e)
           /\ Mine(p, e) = Own(sampler.buffer, p, e) /\ Mine(p, e)' = Own(sampler'.buffer, p, e)
           /\ OwnShorts(p) <=> (Buffered => OwnIn(sampler.buffer, sampler.shorts, p))
           /\ OwnShorts(p)' <=> (Buffered' => OwnIn(sampler'.buffer, sampler'.shorts, p))
  <1>1. /\ InBuffer(e) = At(sampler.buffer, e) /\ InBuffer(e)' = At(sampler'.buffer, e)
        /\ Mine(p, e) = Own(sampler.buffer, p, e) /\ Mine(p, e)' = Own(sampler'.buffer, p, e)
    BY DEF InBuffer, Mine, Own, At
  <1>2. /\ OwnShorts(p) <=> (Buffered => OwnIn(sampler.buffer, sampler.shorts, p))
        /\ OwnShorts(p)' <=> (Buffered' => OwnIn(sampler'.buffer, sampler'.shorts, p))
    BY DEF OwnShorts, OwnIn, InBuffer, Mine, Own, At
  <1> QED BY <1>1, <1>2

\* The counts are numbers.
LEMMA CountsNatural ==
    ASSUME Types, NEW p \in Process, NEW h
    PROVE  /\ ExitCount(log[p].records, h) \in Nat /\ ShortCount(log[p].regions, h) \in Nat
           /\ Buffered /\ OwnShorts(p) => Completed(p, h) \in Nat
  <1> DEFINE r == log[p].records
             g == log[p].regions
             B == sampler.buffer
             S == sampler.shorts
  <1>1. r \in Seq(LogRecord) /\ g \in Seq(Region) /\ B \in Seq(BufferRecord) /\ S \in Seq(Region) /\ Signals(B)
    BY DEF Types, Log, Sampler
  <1> HIDE DEF r, g, B, S
  <1>2. ShortCount(g, h) \in Nat
    BY <1>1, ShortCountIs
  <1>3. ExitCount(r, h) \in Nat
    <2>1. {i \in DOMAIN r : r[i] = Rec("EXIT", h)} \subseteq DOMAIN r
      OBVIOUS
    <2> QED BY <1>1, <2>1, PlacesFinite DEF ExitCount
  <1>4. ASSUME OwnIn(B, S, p) PROVE BufExit(B, p, h) + BufShort(B, S, p, h) \in Nat
    <2>1. \A i \in Own(B, p, "SHORT") : B[i].signal < Len(S)
      BY <1>4 DEF OwnIn
    <2>2. BufExit(B, p, h) \in Nat /\ BufShort(B, S, p, h) \in Nat
      BY <1>1, <2>1, BufNatural
    <2> QED BY <2>2
  <1>5. Buffered /\ OwnShorts(p) => OwnIn(B, S, p)
    BY BufferForms DEF B, S
  <1>6. Completed(p, h) = BufExit(B, p, h) + BufShort(B, S, p, h)
    BY CountForms DEF B, S
  <1> QED BY <1>2, <1>3, <1>4, <1>5, <1>6 DEF r, g

\* The set of owed processes is finite, and the bound on it holds when it does
\* not grow.
LEMMA OwedFinite ==
    ASSUME Types
    PROVE  IsFiniteSet(Owed) /\ Cardinality(Owed) \in Nat
  <1>1. IsFiniteSet(Process)
    BY Constants, FS_Interval DEF Process
  <1>2. Owed \subseteq Process
    BY DEF Owed, Types, Sampler
  <1> QED BY <1>1, <1>2, FS_Subset, FS_CardinalityType

-----------------------------------------------------------------------------
(* The calls of a process.                                                 *)

\* What a call of p may do to its phase, from a to b, and to the marks of its
\* records, from r to s.
MarkStep(a, r, b, s) ==
    \/ /\ Marks(r, s)
       /\ a = b \/ (a = "new" /\ b = "registered") \/ (a = "on" /\ b = "leaving") \/ b = "dead"
    \/ /\ a = "registered" /\ b = "on" /\ Has(s, "START") /\ ~Has(r, "STOP") /\ ~Has(s, "STOP")
    \/ /\ a = "leaving" /\ b = "off" /\ At(r, "START") = At(s, "START")
       /\ \A i, j \in At(s, "STOP") : i = j

\* A process that takes no part in a step.
LEMMA OtherFine ==
    ASSUME NEW q \in Process, Fine(q), pc' = pc, sampler' = sampler, valid' = valid, counts' = counts,
           phase'[q] = phase[q], log'[q] = log[q], hint_stack'[q] = hint_stack[q], nest'[q] = nest[q],
           current'[q] = current[q], visits'[q] = visits[q]
    PROVE  Fine(q)'
  <1>1. ProcessExact(q)'
    BY DEF Fine, ProcessExact
  <1>2. StopOnce(q)'
    BY DEF Fine, StopOnce, Buffered, Mine, InBuffer
  <1>3. OwnShorts(q)'
    BY DEF Fine, OwnShorts, Buffered, Mine, InBuffer
  <1>4. Conserved(q)'
    BY CountForms DEF Fine, Conserved, Buffered
  <1>5. Starts(q)'
    BY DEF Fine, Starts
  <1> QED BY <1>1, <1>2, <1>3, <1>4, <1>5 DEF Fine

\* A step of one process that keeps its own log exact and its visits conserved.
LEMMA ApplicationStep ==
    ASSUME Inv, Types', NEW p \in Process, UNCHANGED ctlVars, threw \subseteq threw',
           \A q \in Process \ {p} :
             /\ phase'[q] = phase[q] /\ log'[q] = log[q] /\ hint_stack'[q] = hint_stack[q]
             /\ nest'[q] = nest[q] /\ current'[q] = current[q] /\ visits'[q] = visits[q],
           p \notin threw' =>
             /\ ProcessExact(p)' /\ MarkStep(phase[p], log[p].records, phase'[p], log'[p].records)
             /\ \A h \in Hash :
                  visits'[p][h] + (ExitCount(log[p].records, h) + ShortCount(log[p].regions, h))
                  = visits[p][h] + (ExitCount(log'[p].records, h) + ShortCount(log'[p].regions, h))
    PROVE  Inv'
  <1>1. /\ pc' = pc /\ sampler' = sampler /\ valid' = valid /\ counts' = counts /\ todo' = todo
        /\ io_pids' = io_pids /\ last' = last
    BY DEF ctlVars
  <1>2. Types /\ Order /\ Together /\ \A q \in Process \ threw : Fine(q)
    BY DEF Inv
  <1>3. Order'
    BY <1>1, <1>2 DEF Order
  <1>4. \A e : Mine(p, e)' = Mine(p, e)
    BY <1>1 DEF Mine, InBuffer
  <1>5. ASSUME p \notin threw' PROVE Fine(p)'
    <2> DEFINE a == phase[p]
               b == phase'[p]
               r == log[p].records
               s == log'[p].records
    <2>1. Fine(p) /\ ProcessExact(p)' /\ MarkStep(a, r, b, s)
      BY <1>2, <1>5
    <2>2. StopOnce(p) /\ Starts(p)
      BY <2>1 DEF Fine
    <2>3. StopOnce(p)'
      <3> HIDE DEF a, b, r, s
      <3>1. /\ \A i, j \in At(r, "STOP") : i = j
            /\ Has(r, "STOP") => a \in {"off", "dead"}
            /\ p \in sampler.clients /\ (Has(r, "STOP") \/ a \notin {"off", "dead"}) => p \in sampler.client_pids
            /\ Buffered =>
                 /\ \A i, j \in Mine(p, "STOP") : i = j
                 /\ Mine(p, "STOP") # {} => /\ p \in sampler.client_pids /\ a \in {"off", "dead"}
                                            /\ ~Has(r, "STOP") /\ ~Has(r, "START")
        BY <2>2 DEF StopOnce, a, r
      <3>2. /\ \A i, j \in At(s, "STOP") : i = j
            /\ Has(s, "STOP") => b \in {"off", "dead"}
            /\ p \in sampler.clients /\ (Has(s, "STOP") \/ b \notin {"off", "dead"}) => p \in sampler.client_pids
            /\ Buffered =>
                 /\ \A i, j \in Mine(p, "STOP") : i = j
                 /\ Mine(p, "STOP") # {} => /\ p \in sampler.client_pids /\ b \in {"off", "dead"}
                                            /\ ~Has(s, "STOP") /\ ~Has(s, "START")
        BY <2>1, <3>1 DEF MarkStep, Marks, Has
      <3>3. Mine(p, "STOP")' = Mine(p, "STOP") /\ (Buffered' <=> Buffered)
        BY <1>1, <1>4 DEF Buffered
      <3> QED BY <1>1, <3>2, <3>3 DEF StopOnce, b, s
    <2>4. OwnShorts(p)'
      BY <1>1, <2>1 DEF Fine, OwnShorts, Buffered, Mine, InBuffer
    <2>5. Starts(p)'
      <3>1. /\ pc = "connect" /\ a \in {"on", "leaving"} => Has(r, "START")
            /\ pc = "connect" /\ Has(r, "STOP") => Has(r, "START")
        BY <2>2 DEF Starts
      <3> HIDE DEF a, b, r, s
      <3>2. /\ pc = "connect" /\ b \in {"on", "leaving"} => Has(s, "START")
            /\ pc = "connect" /\ Has(s, "STOP") => Has(s, "START")
        BY <2>1, <3>1 DEF MarkStep, Marks, Has
      <3> QED BY <1>1, <3>2 DEF Starts, b, s
    <2>6. Conserved(p)'
      <3> SUFFICES ASSUME pc # "failed", NEW h \in Hash
                   PROVE  visits'[p][h] = counts[p][h] + ExitCount(s, h) + ShortCount(log'[p].regions, h)
                                          + (IF Buffered THEN Completed(p, h) ELSE 0)
        <4>1. Buffered' <=> Buffered
          BY <1>1 DEF Buffered
        <4>2. ASSUME NEW h \in Hash PROVE Completed(p, h)' = Completed(p, h)
          BY <1>1, CountForms
        <4>3. ASSUME NEW h \in Hash
              PROVE  NumExit(p, h)' = ExitCount(s, h) /\ NumShort(p, h)' = ShortCount(log'[p].regions, h)
          BY CountForms
        <4> HIDE DEF s
        <4> QED BY <1>1, <4>1, <4>2, <4>3 DEF Conserved
      <3> DEFINE x == IF Buffered THEN Completed(p, h) ELSE 0
                 n == ExitCount(r, h)
                 m == ShortCount(log[p].regions, h)
                 n2 == ExitCount(s, h)
                 m2 == ShortCount(log'[p].regions, h)
      <3>1. n \in Nat /\ m \in Nat /\ x \in Nat
        <4>1. OwnShorts(p)
          BY <2>1 DEF Fine
        <4> QED BY <1>2, <4>1, CountsNatural
      <3>2. n2 \in Nat /\ m2 \in Nat
        <4>1. log'[p] \in Log
          BY DEF Types
        <4>2. s \in Seq(LogRecord) /\ log'[p].regions \in Seq(Region)
          BY <4>1 DEF Log
        <4> HIDE DEF s
        <4>3. {i \in DOMAIN s : s[i] = Rec("EXIT", h)} \subseteq DOMAIN s
          OBVIOUS
        <4>4. n2 \in Nat
          BY <4>2, <4>3, PlacesFinite DEF ExitCount
        <4> QED BY <4>2, <4>4, ShortCountIs
      <3>3. visits[p][h] = counts[p][h] + n + m + x
        BY <2>1, CountForms DEF Fine, Conserved
      <3>4. visits'[p][h] + (n + m) = visits[p][h] + (n2 + m2)
        BY <1>5
      <3>5. visits'[p][h] \in Nat /\ visits[p][h] \in Nat /\ counts[p][h] \in Nat
        BY <1>2 DEF Types
      <3> HIDE DEF n, m, n2, m2, x
      <3>6. visits'[p][h] = counts[p][h] + n2 + m2 + x
        BY <3>1, <3>2, <3>3, <3>4, <3>5
      <3> QED BY <3>6 DEF n2, m2, x
    <2> QED BY <2>1, <2>3, <2>4, <2>5, <2>6 DEF Fine
  <1>6. \A q \in Process \ threw' : Fine(q)'
    <2> SUFFICES ASSUME NEW q \in Process \ threw', q # p PROVE Fine(q)'
      BY <1>5
    <2>1. Fine(q)
      BY <1>2
    <2> QED BY <1>1, <2>1, OtherFine
  <1>7. Together'
    <2> SUFFICES ASSUME threw' = {} PROVE Together'
      BY DEF Together
    <2>1. threw = {} /\ p \notin threw'
      OBVIOUS
    <2>2. /\ pc = "failed" => sampler.clients = {}
          /\ sampler.client_pids \subseteq sampler.clients
          /\ Cardinality(Owed) <= sampler.num_registered
          /\ Buffered => Shorts(sampler.buffer, sampler.shorts)
      BY <1>2, <2>1 DEF Together
    <2>3. ASSUME NEW q \in Owed' PROVE q \in Owed
      <3>1. q \in Process
        BY <1>1, <1>2 DEF Owed, Types, Sampler
      <3>2. CASE q # p
        BY <1>1, <3>1, <3>2 DEF Owed, Buffered, Mine, InBuffer
      <3>3. CASE q = p
        <4> DEFINE a == phase[p]
                   b == phase'[p]
                   r == log[p].records
                   s == log'[p].records
        <4>1. MarkStep(a, r, b, s)
          BY <2>1
        <4>2. StopOnce(p)
          BY <1>2, <2>1 DEF Fine
        <4>3. Has(r, "STOP") => a \in {"off", "dead"}
          BY <4>2 DEF StopOnce
        <4>4. /\ p \in sampler.client_pids
              /\ b \in {"on", "leaving"} \/ Has(s, "STOP") \/ (Buffered /\ Mine(p, "STOP") # {})
              /\ ~Has(s, "START") /\ (Buffered => Mine(p, "START") = {})
          BY <1>1, <1>4, <3>3 DEF Owed, Buffered
        <4> HIDE DEF a, b, r, s
        <4>5. /\ a \in {"on", "leaving"} \/ Has(r, "STOP") \/ (Buffered /\ Mine(p, "STOP") # {})
              /\ ~Has(r, "START")
          BY <4>1, <4>3, <4>4 DEF MarkStep, Marks, Has
        <4> QED BY <3>3, <4>4, <4>5 DEF Owed, a, r
      <3> QED BY <3>2, <3>3
    <2>4. Cardinality(Owed') <= Cardinality(Owed) /\ Cardinality(Owed') \in Nat /\ Cardinality(Owed) \in Nat
      <3>1. Owed' \subseteq Owed
        BY <2>3
      <3>2. IsFiniteSet(Owed) /\ Cardinality(Owed) \in Nat
        BY <1>2, OwedFinite
      <3> QED BY <3>1, <3>2, FS_Subset, FS_CardinalityType
    <2>5. sampler.num_registered \in Int
      BY <1>2 DEF Types, Sampler
    <2>6. Cardinality(Owed)' <= sampler'.num_registered
      BY <1>1, <2>2, <2>4, <2>5
    <2> QED BY <1>1, <2>2, <2>6 DEF Together, Buffered
  <1> QED BY <1>3, <1>6, <1>7 DEF Inv

\* One more record and the marks.
LEMMA AppendAt ==
    ASSUME NEW R, NEW r \in Seq(R), NEW x \in R, NEW e
    PROVE  At(Append(r, x), e) = IF x.event = e THEN At(r, e) \cup {Len(r) + 1} ELSE At(r, e)
  <1> DEFINE s == Append(r, x)
             n == Len(r) + 1
  <1>1. /\ DOMAIN s = 1 .. n /\ DOMAIN r = 1 .. n - 1 /\ n \in Nat /\ n > 0
        /\ s[n] = x /\ \A i \in DOMAIN r : s[i] = r[i]
    OBVIOUS
  <1> HIDE DEF s, n
  <1>2. DOMAIN s = DOMAIN r \cup {n}
    BY <1>1
  <1> QED BY <1>1, <1>2 DEF At, s, n

Phases == {"new", "registered", "on", "leaving", "off", "dead"}

\* The log and the members of one process change.
LEMMA ApplicationTypes ==
    ASSUME Types, UNCHANGED ctlVars, NEW p \in Process, NEW m, Sound(m), log' = [log EXCEPT ![p] = m],
           phase' \in [Process -> Phases], registered' \subseteq Process, threw' \subseteq Process,
           current' \in [Process -> Hash \cup {Unmarked}], hint_stack' \in [Process -> Seq(Hash)],
           nest' \in [Process -> Seq(Hash)], visits' \in [Process -> [Hash -> Nat]]
    PROVE  Types' /\ log'[p] = m /\ \A q \in Process \ {p} : log'[q] = log[q]
  <1>1. log \in [Process -> Log] /\ m \in Log
    BY DEF Types, Sound
  <1>2. log' \in [Process -> Log] /\ log'[p] = m /\ \A q \in Process \ {p} : log'[q] = log[q]
    BY <1>1
  <1>3. \A q \in Process : Len(log'[q].records) <= MaxRecord /\ Signals(log'[q].records)
    <2> SUFFICES ASSUME NEW q \in Process
                 PROVE  Len(log'[q].records) <= MaxRecord /\ Signals(log'[q].records)
      OBVIOUS
    <2>1. CASE q = p
      BY <1>2, <2>1 DEF Sound
    <2>2. CASE q # p
      BY <1>2, <2>2 DEF Types
    <2> QED BY <2>1, <2>2
  <1>4. /\ pc' = pc /\ sampler' = sampler /\ valid' = valid /\ counts' = counts /\ todo' = todo
        /\ io_pids' = io_pids
    BY DEF ctlVars
  <1> QED BY <1>2, <1>3, <1>4 DEF Types, Phases

\* A call that neither enters nor leaves a region.
LEMMA QuietStep ==
    ASSUME Inv, UNCHANGED ctlVars, UNCHANGED <<hint_stack, current, nest, visits>>,
           NEW p \in Process, NEW m, Sound(m), log' = [log EXCEPT ![p] = m],
           NEW a \in Phases, phase' = [phase EXCEPT ![p] = a],
           registered' \subseteq Process, threw \subseteq threw', threw' \subseteq Process,
           p \notin threw' =>
             /\ LogExact(valid[p], m) /\ m.entered = log[p].entered
             /\ \A h \in Hash : ExitCount(m.records, h) = ExitCount(log[p].records, h)
             /\ m.regions = log[p].regions
             /\ a \in {"new", "registered"} => m = NewLog
             /\ MarkStep(phase[p], log[p].records, a, m.records)
    PROVE  Inv'
  <1>1. Types /\ \A q \in Process \ threw : Fine(q)
    BY DEF Inv
  <1>2. /\ phase \in [Process -> Phases] /\ current \in [Process -> Hash \cup {Unmarked}]
        /\ hint_stack \in [Process -> Seq(Hash)] /\ nest \in [Process -> Seq(Hash)]
        /\ visits \in [Process -> [Hash -> Nat]]
    BY <1>1 DEF Types, Phases
  <1>3. phase' \in [Process -> Phases] /\ phase'[p] = a /\ \A q \in Process \ {p} : phase'[q] = phase[q]
    BY <1>2
  <1>4. Types' /\ log'[p] = m /\ \A q \in Process \ {p} : log'[q] = log[q]
    BY <1>1, <1>2, <1>3, ApplicationTypes
  <1>5. \A q \in Process \ {p} :
             /\ phase'[q] = phase[q] /\ log'[q] = log[q] /\ hint_stack'[q] = hint_stack[q]
             /\ nest'[q] = nest[q] /\ current'[q] = current[q] /\ visits'[q] = visits[q]
    BY <1>3, <1>4
  <1>6. ASSUME p \notin threw'
        PROVE  /\ ProcessExact(p)' /\ MarkStep(phase[p], log[p].records, phase'[p], log'[p].records)
               /\ \A h \in Hash :
                    visits'[p][h] + (ExitCount(log[p].records, h) + ShortCount(log[p].regions, h))
                    = visits[p][h] + (ExitCount(log'[p].records, h) + ShortCount(log'[p].regions, h))
    <2>1. ProcessExact(p)
      BY <1>1, <1>6 DEF Fine
    <2>2. valid' = valid
      BY DEF ctlVars
    <2>3. ProcessExact(p)'
      BY <1>3, <1>4, <1>6, <2>1, <2>2 DEF ProcessExact
    <2> QED BY <1>3, <1>4, <1>6, <2>3
  <1> QED BY <1>4, <1>5, <1>6, ApplicationStep

\* A call that leaves the log alone.
LEMMA StillStep ==
    ASSUME Inv, UNCHANGED ctlVars, UNCHANGED <<hint_stack, current, nest, visits, threw, log>>,
           NEW p \in Process, NEW a \in Phases, phase' = [phase EXCEPT ![p] = a], registered' \subseteq Process,
           a = phase[p] \/ (phase[p] = "new" /\ a = "registered") \/ (phase[p] = "on" /\ a = "leaving")
             \/ a = "dead"
    PROVE  Inv'
  <1>1. Types /\ \A q \in Process \ threw : Fine(q)
    BY DEF Inv
  <1>2. log' = [log EXCEPT ![p] = log[p]] /\ Sound(log[p]) /\ threw \subseteq Process /\ phase \in [Process -> Phases]
    BY <1>1 DEF Types, Sound, Phases
  <1>3. ASSUME p \notin threw
        PROVE  /\ LogExact(valid[p], log[p]) /\ (a \in {"new", "registered"} => log[p] = NewLog)
               /\ MarkStep(phase[p], log[p].records, a, log[p].records)
    <2>1. ProcessExact(p)
      BY <1>1, <1>3 DEF Fine
    <2>2. phase[p] \in Phases
      BY <1>2
    <2> QED BY <2>1, <2>2 DEF ProcessExact, MarkStep, Marks
  <1>4. threw \subseteq threw' /\ threw' \subseteq Process
    BY <1>2
  <1> QED BY <1>2, <1>3, <1>4, QuietStep

\* A mark e that is appended to the log l, which a validator v knows.
Marked(v, l, m, e) ==
    /\ Sound(m) /\ LogExact(v, m) /\ m.entered = l.entered /\ m.regions = l.regions
    /\ \A h \in Hash : ExitCount(m.records, h) = ExitCount(l.records, h)
    /\ \A f : At(m.records, f) = IF f = e THEN At(l.records, f) \cup {Len(l.records) + 1}
                                 ELSE At(l.records, f)
    /\ m.records # <<>>

\* The mark fits.
LEMMA MarkQuiet ==
    ASSUME NEW v, NEW l, Sound(l), NEW e \in {"START", "STOP", "AFFINITY", "OVERHEAD"}, ~MarkThrows(l),
           LogExact(v, l)
    PROVE  Marked(v, l, LogMark(l, e), e)
  <1> DEFINE m == LogMark(l, e)
             r == l.records
             x == Rec(e, 0)
  <1>1. l \in Log /\ r \in Seq(LogRecord)
    BY DEF Sound, Log
  <1>2. /\ Sound(m) /\ LogExact(v, m) /\ m.entered = l.entered /\ m.regions = l.regions
        /\ m.records = Append(r, x)
    BY <1>1, MarkExact, MarkSound
  <1>3. x \in LogRecord /\ x.event = e
    BY RecSound
  <1> HIDE DEF r, m, x
  <1>4. \A f : At(m.records, f) = IF f = e THEN At(r, f) \cup {Len(r) + 1} ELSE At(r, f)
    BY <1>1, <1>2, <1>3, AppendAt
  <1>5. ASSUME NEW h \in Hash PROVE ExitCount(m.records, h) = ExitCount(r, h)
    <2>1. x # Rec("EXIT", h)
      BY <1>3, RecSound
    <2>2. ExitCount(r, h) \in Nat /\ ExitCount(Append(r, x), h) = ExitCount(r, h)
                                       + IF x = Rec("EXIT", h) THEN 1 ELSE 0
      BY <1>1, <1>3, ExitCountAppend
    <2> QED BY <1>2, <2>1, <2>2
  <1>6. Append(r, x) # <<>>
    <2>1. Len(Append(r, x)) = Len(r) + 1 /\ Len(r) \in Nat /\ Len(<<>>) = 0
      BY <1>1, <1>3
    <2> QED BY <2>1
  <1> QED BY <1>2, <1>4, <1>5, <1>6 DEF m, r, Marked

\* A process that opens its profile session has written nothing yet.
LEMMA RegisterInv ==
    ASSUME Inv, NEW p \in Process, Register(p)
    PROVE  Inv'
  <1>1. registered \subseteq Process
    BY DEF Inv, Types
  <1> QED BY <1>1, StillStep DEF Register, appVars, Phases

\* Profile::shutdown() stops the profile before it writes its last records.
LEMMA UnregisterInv ==
    ASSUME Inv, NEW p \in Process, Unregister(p)
    PROVE  Inv'
  <1>1. registered \subseteq Process
    BY DEF Inv, Types
  <1> QED BY <1>1, StillStep DEF Unregister, appVars, Phases

\* A process that dies leaves its log as it is, locked or not.
LEMMA DieInv ==
    ASSUME Inv, NEW p \in Process, Die(p)
    PROVE  Inv'
  <1>1. registered \subseteq Process
    BY DEF Inv, Types
  <1> QED BY <1>1, StillStep DEF Die, Phases

\* Forget(), thread_init() and thread_post() leave the phase alone too.
LEMMA IdleInv ==
    ASSUME Inv, NEW p \in Process, Forget(p) \/ ThreadInit(p) \/ ThreadPost(p)
    PROVE  Inv'
  <1>1. registered \subseteq Process /\ phase \in [Process -> Phases]
    BY DEF Inv, Types, Phases
  <1>2. phase' = phase /\ phase = [phase EXCEPT ![p] = phase[p]] /\ phase[p] \in Phases
    BY <1>1 DEF Forget, ThreadInit, ThreadPost
  <1>3. /\ UNCHANGED ctlVars /\ UNCHANGED <<hint_stack, current, nest, visits, threw, log>>
        /\ registered' \subseteq Process
    BY <1>1 DEF Forget, ThreadInit, ThreadPost, appVars
  <1> QED BY <1>2, <1>3, StillStep

\* An epoch record counts one more than the one before it.
LEMMA EpochInv ==
    ASSUME Inv, NEW p \in Process, Epoch(p)
    PROVE  Inv'
  <1> DEFINE l == log[p]
             m == LogEpoch(l)
             x == Rec("EPOCH", l.epochs + 1)
  <1>1. Types /\ \A q \in Process \ threw : Fine(q)
    BY DEF Inv
  <1>2. /\ Sound(l) /\ l \in Log /\ l.records \in Seq(LogRecord) /\ l.epochs \in Nat
        /\ threw \subseteq Process /\ phase \in [Process -> Phases] /\ registered \subseteq Process
    BY <1>1 DEF Types, Sound, Log, Phases
  <1>3. /\ log' = [log EXCEPT ![p] = m] /\ phase' = phase /\ phase[p] = "on" /\ registered' = registered
        /\ threw' = IF IsFull(l) THEN threw \cup {p} ELSE threw
        /\ UNCHANGED ctlVars /\ UNCHANGED <<hint_stack, current, nest, visits>>
    BY DEF Epoch
  <1>4. phase' = [phase EXCEPT ![p] = phase[p]] /\ phase[p] \in Phases
    BY <1>2, <1>3
  <1>5. threw \subseteq threw' /\ threw' \subseteq Process
    BY <1>2, <1>3
  <1>6. Sound(m)
    BY <1>2, EpochSound
  <1>7. ASSUME p \notin threw'
        PROVE  /\ LogExact(valid[p], m) /\ m.entered = l.entered /\ m.regions = l.regions
               /\ \A h \in Hash : ExitCount(m.records, h) = ExitCount(l.records, h)
               /\ MarkStep(phase[p], l.records, phase[p], m.records)
    <2>1. ~IsFull(l) /\ LogExact(valid[p], l)
      BY <1>1, <1>3, <1>7 DEF Fine, ProcessExact
    <2>2. LogExact(valid[p], m) /\ m.entered = l.entered /\ m.regions = l.regions /\ m.records = Append(l.records, x)
      BY <1>2, <2>1, EpochExact
    <2>3. x \in LogRecord /\ x.event = "EPOCH"
      BY <1>2, RecSound
    <2> DEFINE r == l.records
    <2> HIDE DEF m, x, r
    <2>4. \A e \in {"START", "STOP"} : At(Append(r, x), e) = At(r, e)
      BY <1>2, <2>3, AppendAt DEF r
    <2>5. ASSUME NEW h \in Hash PROVE ExitCount(Append(r, x), h) = ExitCount(r, h)
      <3>1. x # Rec("EXIT", h)
        BY <2>3, RecSound
      <3>2. ExitCount(r, h) \in Nat /\ ExitCount(Append(r, x), h) = ExitCount(r, h)
                                         + IF x = Rec("EXIT", h) THEN 1 ELSE 0
        BY <1>2, <2>3, ExitCountAppend DEF r
      <3> QED BY <3>1, <3>2
    <2>6. MarkStep(phase[p], r, phase[p], m.records)
      BY <2>2, <2>4 DEF MarkStep, Marks, r
    <2> QED BY <2>2, <2>5, <2>6 DEF r
  <1>8. phase[p] \notin {"new", "registered"}
    BY <1>3
  <1> HIDE DEF m, x
  <1> QED BY <1>2, <1>3, <1>4, <1>5, <1>6, <1>7, <1>8, QuietStep

\* The records of the start and of the CPU affinity are the first of a log.
LEMMA StartInv ==
    ASSUME Inv, NEW p \in Process, Start(p)
    PROVE  Inv'
  <1> DEFINE l == log[p]
             k == LogMark(l, "START")
             m == LogMark(k, "AFFINITY")
  <1>1. Types /\ \A q \in Process \ threw : Fine(q)
    BY DEF Inv
  <1>2. /\ Sound(l) /\ threw \subseteq Process /\ phase \in [Process -> Phases] /\ registered \subseteq Process
    BY <1>1 DEF Types, Sound, Phases
  <1>3. /\ log' = [log EXCEPT ![p] = m] /\ phase' = [phase EXCEPT ![p] = "on"] /\ phase[p] = "registered"
        /\ UNCHANGED <<ctlVars, registered, threw>> /\ UNCHANGED <<hint_stack, current, nest, visits>>
    BY DEF Start, appVars
  <1>4. Sound(k) /\ Sound(m)
    BY <1>2, MarkSound
  <1>5. ASSUME p \notin threw'
        PROVE  /\ LogExact(valid[p], m) /\ m.entered = l.entered /\ m.regions = l.regions
               /\ \A h \in Hash : ExitCount(m.records, h) = ExitCount(l.records, h)
               /\ MarkStep("registered", l.records, "on", m.records)
    <2>1. l = NewLog /\ LogExact(valid[p], l)
      BY <1>1, <1>3, <1>5 DEF Fine, ProcessExact
    <2>2. l.records = <<>> /\ ~MarkThrows(l)
      <3>1. l.records = <<>> /\ Len(l.records) = 0
        BY <2>1 DEF NewLog
      <3> HIDE DEF l
      <3> QED BY <3>1, Constants DEF MarkThrows, IsFull
    <2> HIDE DEF l, k, m
    <2>3. /\ LogExact(valid[p], k) /\ k.entered = l.entered /\ k.regions = l.regions
          /\ \A h \in Hash : ExitCount(k.records, h) = ExitCount(l.records, h)
          /\ At(k.records, "STOP") = At(l.records, "STOP")
          /\ At(k.records, "START") # {} /\ k.records # <<>>
      <3>1. Marked(valid[p], l, k, "START")
        BY <1>2, <2>1, <2>2, MarkQuiet DEF k
      <3> QED BY <3>1 DEF Marked
    <2>4. ~Has(l.records, "STOP")
      BY <2>2 DEF Has, At
    <2>5. /\ LogExact(valid[p], m) /\ m.entered = l.entered /\ m.regions = l.regions
          /\ \A h \in Hash : ExitCount(m.records, h) = ExitCount(l.records, h)
          /\ At(m.records, "STOP") = At(l.records, "STOP")
          /\ At(m.records, "START") # {}
      <3>1. CASE IsFull(k)
        <4>1. CheckReset(k) = k
          BY <2>3 DEF CheckReset
        <4>2. m = k
          BY <3>1, <4>1 DEF m, LogMark, AppendRecord
        <4> QED BY <2>3, <4>2
      <3>2. CASE ~IsFull(k)
        <4>1. /\ LogExact(valid[p], m) /\ m.entered = k.entered /\ m.regions = k.regions
              /\ \A h \in Hash : ExitCount(m.records, h) = ExitCount(k.records, h)
              /\ At(m.records, "STOP") = At(k.records, "STOP")
              /\ At(m.records, "START") = At(k.records, "START")
          <5>1. Marked(valid[p], k, m, "AFFINITY")
            BY <1>4, <2>3, <3>2, MarkQuiet DEF m, MarkThrows
          <5> QED BY <5>1 DEF Marked
        <4> QED BY <2>3, <4>1
      <3> QED BY <3>1, <3>2
    <2>6. MarkStep("registered", l.records, "on", m.records)
      BY <2>4, <2>5 DEF MarkStep, Has
    <2> QED BY <2>5, <2>6
  <1>6. "on" \in Phases
    BY DEF Phases
  <1> HIDE DEF m
  <1> QED BY <1>2, <1>3, <1>4, <1>5, <1>6, QuietStep

\* The record of the stop is the last of a log, and there is one of it.
LEMMA ShutdownInv ==
    ASSUME Inv, NEW p \in Process, Shutdown(p)
    PROVE  Inv'
  <1> DEFINE l == log[p]
             k == LogMark(l, "OVERHEAD")
             m == IF MarkThrows(l) THEN k ELSE LogMark(k, "STOP")
  <1>1. Types /\ \A q \in Process \ threw : Fine(q)
    BY DEF Inv
  <1>2. /\ Sound(l) /\ threw \subseteq Process /\ phase \in [Process -> Phases] /\ registered \subseteq Process
    BY <1>1 DEF Types, Sound, Phases
  <1>3. /\ log' = [log EXCEPT ![p] = m] /\ phase' = [phase EXCEPT ![p] = "off"] /\ phase[p] = "leaving"
        /\ threw' = IF MarkThrows(l) \/ MarkThrows(k) THEN threw \cup {p} ELSE threw
        /\ UNCHANGED <<ctlVars, registered>> /\ UNCHANGED <<hint_stack, current, nest, visits>>
    BY DEF Shutdown
  <1>4. Sound(k) /\ Sound(m)
    BY <1>2, MarkSound
  <1>5. threw \subseteq threw' /\ threw' \subseteq Process
    BY <1>2, <1>3
  <1>6. ASSUME p \notin threw'
        PROVE  /\ LogExact(valid[p], m) /\ m.entered = l.entered /\ m.regions = l.regions
               /\ \A h \in Hash : ExitCount(m.records, h) = ExitCount(l.records, h)
               /\ MarkStep("leaving", l.records, "off", m.records)
    <2>1. LogExact(valid[p], l) /\ ~MarkThrows(l) /\ ~MarkThrows(k) /\ p \notin threw
      BY <1>1, <1>3, <1>6 DEF Fine, ProcessExact
    <2>2. ~Has(l.records, "STOP")
      BY <1>1, <1>3, <2>1 DEF Fine, StopOnce
    <2>3. m = LogMark(k, "STOP")
      BY <2>1
    <2> HIDE DEF l, k, m
    <2>4. /\ LogExact(valid[p], k) /\ k.entered = l.entered /\ k.regions = l.regions
          /\ \A h \in Hash : ExitCount(k.records, h) = ExitCount(l.records, h)
          /\ At(k.records, "STOP") = At(l.records, "STOP")
          /\ At(k.records, "START") = At(l.records, "START")
      <3>1. Marked(valid[p], l, k, "OVERHEAD")
        BY <1>2, <2>1, MarkQuiet DEF k
      <3> QED BY <3>1 DEF Marked
    <2>5. /\ LogExact(valid[p], m) /\ m.entered = k.entered /\ m.regions = k.regions
          /\ \A h \in Hash : ExitCount(m.records, h) = ExitCount(k.records, h)
          /\ At(m.records, "STOP") = At(k.records, "STOP") \cup {Len(k.records) + 1}
          /\ At(m.records, "START") = At(k.records, "START")
      <3>1. Marked(valid[p], k, m, "STOP")
        BY <1>4, <2>1, <2>3, <2>4, MarkQuiet
      <3> QED BY <3>1 DEF Marked
    <2>6. MarkStep("leaving", l.records, "off", m.records)
      <3>1. At(m.records, "STOP") = {Len(k.records) + 1}
        BY <2>2, <2>4, <2>5 DEF Has
      <3> QED BY <2>4, <2>5, <3>1 DEF MarkStep
    <2> QED BY <2>4, <2>5, <2>6
  <1>7. "off" \in Phases
    BY DEF Phases
  <1> HIDE DEF m, k
  <1> QED BY <1>2, <1>3, <1>4, <1>5, <1>6, <1>7, QuietStep

\* Profile::enter(): only the outermost region is written to the log.
LEMMA EnterInv ==
    ASSUME Inv, NEW p \in Process, NEW h \in Hash, Enter(p, h)
    PROVE  Inv'
  <1> DEFINE l == log[p]
             outermost == current[p] = Unmarked
             m == IF outermost THEN LogEnter(l, h) ELSE l
             throws == outermost /\ EnterThrows(l, h)
             n == nest[p]
  <1>1. Types /\ \A q \in Process \ threw : Fine(q)
    BY DEF Inv
  <1>2. /\ Sound(l) /\ l \in Log /\ threw \subseteq Process
        /\ phase \in [Process -> Phases] /\ registered \subseteq Process
        /\ nest \in [Process -> Seq(Hash)] /\ hint_stack \in [Process -> Seq(Hash)]
        /\ current \in [Process -> Hash \cup {Unmarked}] /\ visits \in [Process -> [Hash -> Nat]]
    BY <1>1 DEF Types, Sound, Phases
  <1>3. /\ log' = [log EXCEPT ![p] = m] /\ phase' = phase /\ registered' = registered /\ visits' = visits
        /\ nest' = [nest EXCEPT ![p] = Append(@, h)]
        /\ current' = [current EXCEPT ![p] = IF outermost THEN h ELSE @]
        /\ IF throws THEN threw' = threw \cup {p} /\ hint_stack' = hint_stack
                     ELSE threw' = threw /\ hint_stack' = [hint_stack EXCEPT ![p] = Append(@, h)]
        /\ UNCHANGED ctlVars /\ phase[p] = "on"
    BY DEF Enter
  <1>4. Sound(m)
    BY <1>2, EnterSound
  <1>5. threw \subseteq threw' /\ threw' \subseteq Process
    BY <1>2, <1>3
  <1>6. nest' \in [Process -> Seq(Hash)] /\ hint_stack' \in [Process -> Seq(Hash)]
    <2>1. Append(nest[p], h) \in Seq(Hash) /\ Append(hint_stack[p], h) \in Seq(Hash)
      BY <1>2
    <2>2. nest' = [nest EXCEPT ![p] = Append(nest[p], h)]
      BY <1>2, <1>3
    <2>3. hint_stack' = hint_stack \/ hint_stack' = [hint_stack EXCEPT ![p] = Append(hint_stack[p], h)]
      BY <1>2, <1>3
    <2> HIDE DEF throws, m, l
    <2> QED BY <1>2, <2>1, <2>2, <2>3
  <1>7. current' \in [Process -> Hash \cup {Unmarked}] /\ visits' \in [Process -> [Hash -> Nat]]
    BY <1>2, <1>3
  <1>8. phase' \in [Process -> Phases] /\ registered' \subseteq Process
    BY <1>2, <1>3
  <1> HIDE DEF m, throws
  <1>9. Types' /\ log'[p] = m /\ \A q \in Process \ {p} : log'[q] = log[q]
    BY <1>1, <1>3, <1>4, <1>5, <1>6, <1>7, <1>8, ApplicationTypes
  <1>10. \A q \in Process \ {p} :
             /\ phase'[q] = phase[q] /\ log'[q] = log[q] /\ hint_stack'[q] = hint_stack[q]
             /\ nest'[q] = nest[q] /\ current'[q] = current[q] /\ visits'[q] = visits[q]
    BY <1>2, <1>3, <1>9
  <1>11. ASSUME p \notin threw'
         PROVE  /\ ProcessExact(p)' /\ MarkStep(phase[p], l.records, phase'[p], log'[p].records)
                /\ \A g \in Hash :
                     visits'[p][g] + (ExitCount(l.records, g) + ShortCount(l.regions, g))
                     = visits[p][g] + (ExitCount(log'[p].records, g) + ShortCount(log'[p].regions, g))
    <2>1. /\ ~throws /\ hint_stack[p] = n /\ current[p] = (IF n = <<>> THEN Unmarked ELSE Head(n))
          /\ l.entered = (IF n = <<>> THEN NoHash ELSE Head(n)) /\ LogExact(valid[p], l)
      BY <1>1, <1>3, <1>11 DEF Fine, ProcessExact
    <2>2. n \in Seq(Hash) /\ (n # <<>> => Head(n) \in Hash)
      BY <1>2
    <2>3. /\ nest'[p] = Append(n, h) /\ hint_stack'[p] = Append(n, h)
          /\ current'[p] = (IF outermost THEN h ELSE current[p])
          /\ valid'[p] = valid[p] /\ phase'[p] = "on" /\ visits'[p] = visits[p]
      BY <1>2, <1>3, <2>1 DEF ctlVars
    <2> HIDE DEF n, l
    <2>4. outermost <=> n = <<>>
      BY <2>1, <2>2, Constants
    <2>5. Append(n, h) # <<>> /\ Head(Append(n, h)) = IF n = <<>> THEN h ELSE Head(n)
      <3>1. /\ Len(n) \in Nat /\ Len(Append(n, h)) = Len(n) + 1 /\ Append(n, h)[Len(n) + 1] = h
            /\ \A i \in 1 .. Len(n) : Append(n, h)[i] = n[i]
            /\ Append(n, h) \in Seq(Hash) /\ Len(<<>>) = 0
        BY <2>2
      <3>2. n = <<>> <=> Len(n) = 0
        BY <2>2
      <3>3. Append(n, h) # <<>> /\ Head(Append(n, h)) = Append(n, h)[1]
        BY <3>1
      <3>4. CASE n = <<>>
        BY <3>1, <3>2, <3>3, <3>4
      <3>5. CASE n # <<>>
        <4>1. 1 \in 1 .. Len(n) /\ Head(n) = n[1]
          BY <2>2, <3>1, <3>2, <3>5
        <4> QED BY <3>1, <3>3, <3>5, <4>1
      <3> QED BY <3>4, <3>5
    <2>6. /\ LogExact(valid[p], m) /\ m.entered = Head(Append(n, h)) /\ m.regions = l.regions
          /\ Marks(l.records, m.records)
          /\ \A g \in Hash : ExitCount(m.records, g) = ExitCount(l.records, g)
      <3>1. CASE outermost
        <4> DEFINE r == l.records
                   x == Rec("ENTRY", h)
        <4>1. m = LogEnter(l, h) /\ ~EnterThrows(l, h) /\ l.entered = NoHash
          BY <2>1, <2>4, <3>1 DEF m, throws
        <4>2. /\ LogExact(valid[p], m) /\ m.entered = h /\ m.regions = l.regions
              /\ m.records = r \/ m.records = Append(r, x)
          BY <1>2, <2>1, <4>1, EnterExact
        <4>3. x \in LogRecord /\ x.event = "ENTRY" /\ r \in Seq(LogRecord)
          BY <1>2, RecSound DEF Log
        <4> HIDE DEF r, x
        <4>4. \A e \in {"START", "STOP"} : At(Append(r, x), e) = At(r, e)
          BY <4>3, AppendAt
        <4>5. ASSUME NEW g \in Hash PROVE ExitCount(Append(r, x), g) = ExitCount(r, g)
          <5>1. x # Rec("EXIT", g)
            BY <4>3, RecSound
          <5>2. ExitCount(r, g) \in Nat /\ ExitCount(Append(r, x), g) = ExitCount(r, g)
                                             + IF x = Rec("EXIT", g) THEN 1 ELSE 0
            BY <4>3, ExitCountAppend
          <5> QED BY <5>1, <5>2
        <4>6. Marks(r, m.records)
          BY <4>2, <4>4 DEF Marks
        <4> QED BY <2>4, <2>5, <3>1, <4>2, <4>5, <4>6 DEF r
      <3>2. CASE ~outermost
        <4>1. m = l
          BY <3>2 DEF m
        <4> QED BY <2>1, <2>4, <2>5, <3>2, <4>1 DEF Marks
      <3> QED BY <3>1, <3>2
    <2>7. current'[p] = Head(Append(n, h))
      BY <2>1, <2>3, <2>4, <2>5
    <2>8. ProcessExact(p)'
      BY <1>9, <2>3, <2>5, <2>6, <2>7 DEF ProcessExact
    <2>9. MarkStep(phase[p], l.records, phase'[p], log'[p].records)
      BY <1>3, <1>9, <2>6 DEF MarkStep
    <2> QED BY <1>9, <2>3, <2>6, <2>8, <2>9
  <1> QED BY <1>3, <1>5, <1>9, <1>10, <1>11, ApplicationStep

\* Front() and Last() of a sequence that is not empty.
LEMMA FrontLast ==
    ASSUME NEW n \in Seq(Hash), n # <<>>
    PROVE  /\ Last(n) \in Hash /\ Front(n) \in Seq(Hash) /\ Len(n) \in Nat /\ Len(n) > 0
           /\ Front(n) = <<>> <=> Len(n) = 1
           /\ Len(n) = 1 => Last(n) = Head(n)
           /\ Front(n) # <<>> => Head(Front(n)) = Head(n)
  <1> DEFINE f == Front(n)
             k == Len(n)
  <1>1. k \in Nat /\ k > 0 /\ \A i \in 1 .. k : n[i] \in Hash
    OBVIOUS
  <1>2. Last(n) = n[k] /\ Head(n) = n[1]
    BY DEF Last
  <1>3. f \in Seq(Hash) /\ Len(f) = k - 1 /\ \A i \in 1 .. k - 1 : f[i] = n[i]
    <2>1. f = SubSeq(n, 1, k - 1)
      BY DEF Front
    <2>2. 1 \in Nat /\ k - 1 \in Nat /\ k - 1 <= Len(n)
      BY <1>1
    <2>3. SubSeq(n, 1, k - 1) = [i \in 1 .. (k - 1) - 1 + 1 |-> n[i + 1 - 1]]
      OBVIOUS
    <2>4. (k - 1) - 1 + 1 = k - 1 /\ \A i \in 1 .. k - 1 : i + 1 - 1 = i /\ i \in 1 .. k
      BY <1>1
    <2> HIDE DEF f, k
    <2>5. f = [i \in 1 .. k - 1 |-> n[i]]
      BY <2>1, <2>3, <2>4
    <2> QED BY <1>1, <2>2, <2>4, <2>5
  <1> HIDE DEF f, k
  <1>4. f = <<>> <=> k = 1
    BY <1>1, <1>3
  <1>5. f # <<>> => Head(f) = f[1] /\ 1 \in 1 .. k - 1
    BY <1>1, <1>3, <1>4
  <1> QED BY <1>1, <1>2, <1>3, <1>4, <1>5 DEF f, k

\* The alternatives of exit(), with the log that they leave behind.
ExitNested(p) ==
    /\ hint_stack[p] # <<>> /\ Front(hint_stack[p]) # <<>>
    /\ hint_stack' = [hint_stack EXCEPT ![p] = Front(hint_stack[p])]
    /\ UNCHANGED <<log, current, threw>>

ExitOuter(p, h) ==
    /\ hint_stack[p] # <<>> /\ Front(hint_stack[p]) = <<>>
    /\ hint_stack' = [hint_stack EXCEPT ![p] = Front(hint_stack[p])]
    /\ log' = [log EXCEPT ![p] = LogExit(log[p], h)]
    /\ ~ExitThrows(log[p], h) /\ current' = [current EXCEPT ![p] = Unmarked] /\ UNCHANGED threw

ExitFails(p, h) ==
    /\ threw' = threw \cup {p} /\ UNCHANGED current
    /\ \/ UNCHANGED <<hint_stack, log>>
       \/ /\ hint_stack[p] # <<>>
          /\ hint_stack' = [hint_stack EXCEPT ![p] = Front(hint_stack[p])]
          /\ log' = [log EXCEPT ![p] = LogExit(log[p], h)]

\* exit() is one of them.
LEMMA ExitForms ==
    ASSUME Types, NEW p \in Process, Exit(p)
    PROVE  LET h == Last(nest[p])
           IN  /\ phase[p] = "on" /\ nest[p] # <<>>
               /\ nest' = [nest EXCEPT ![p] = Front(nest[p])]
               /\ visits' = [visits EXCEPT ![p][h] = IF Len(nest[p]) = 1 THEN @ + 1 ELSE @]
               /\ UNCHANGED <<phase, registered, ctlVars>>
               /\ ExitNested(p) \/ ExitOuter(p, h) \/ ExitFails(p, h)
  <1> DEFINE h == Last(nest[p])
  <1>1. log \in [Process -> Log] /\ hint_stack \in [Process -> Seq(Hash)] /\ nest \in [Process -> Seq(Hash)]
    BY DEF Types
  <1>2. /\ phase[p] = "on" /\ nest[p] # <<>>
        /\ nest' = [nest EXCEPT ![p] = Front(nest[p])]
        /\ visits' = [visits EXCEPT ![p][h] = IF Len(nest[p]) = 1 THEN @ + 1 ELSE @]
        /\ UNCHANGED <<phase, registered, ctlVars>>
    BY <1>1 DEF Exit
  <1>3. \/ threw' = threw \cup {p} /\ UNCHANGED <<hint_stack, log, current>>
        \/ ExitNested(p)
        \/ /\ hint_stack[p] # <<>> /\ Front(hint_stack[p]) = <<>>
           /\ hint_stack' = [hint_stack EXCEPT ![p] = Front(hint_stack[p])]
           /\ log' = [log EXCEPT ![p] = LogExit(log[p], h)]
           /\ IF ExitThrows(log[p], h)
              THEN threw' = threw \cup {p} /\ UNCHANGED current
              ELSE current' = [current EXCEPT ![p] = Unmarked] /\ UNCHANGED threw
    BY <1>1 DEF Exit, ExitNested
  <1>4. ExitNested(p) \/ ExitOuter(p, h) \/ ExitFails(p, h)
    BY <1>3 DEF ExitOuter, ExitFails
  <1> QED BY <1>2, <1>4

\* Profile::exit() adds a visit: it is in a record, or in the count of a short region.
LEMMA ExitInv ==
    ASSUME Inv, NEW p \in Process, Exit(p)
    PROVE  Inv'
  <1> DEFINE l == log[p]
             n == nest[p]
             h == Last(n)
             k == hint_stack[p]
             m == log'[p]
  <1>1. Types /\ \A q \in Process \ threw : Fine(q)
    BY DEF Inv
  <1>2. /\ Sound(l) /\ l \in Log /\ threw \subseteq Process
        /\ phase \in [Process -> Phases] /\ registered \subseteq Process
        /\ nest \in [Process -> Seq(Hash)] /\ hint_stack \in [Process -> Seq(Hash)] /\ log \in [Process -> Log]
        /\ current \in [Process -> Hash \cup {Unmarked}] /\ visits \in [Process -> [Hash -> Nat]]
    BY <1>1 DEF Types, Sound, Phases
  <1>3. /\ phase[p] = "on" /\ n # <<>> /\ nest' = [nest EXCEPT ![p] = Front(n)]
        /\ visits' = [visits EXCEPT ![p][h] = IF Len(n) = 1 THEN @ + 1 ELSE @]
        /\ phase' = phase /\ registered' = registered /\ UNCHANGED ctlVars
        /\ ExitNested(p) \/ ExitOuter(p, h) \/ ExitFails(p, h)
    BY <1>1, ExitForms
  <1>4. /\ h \in Hash /\ Front(n) \in Seq(Hash) /\ Len(n) \in Nat /\ Len(n) > 0
        /\ Front(n) = <<>> <=> Len(n) = 1
        /\ Len(n) = 1 => h = Head(n)
        /\ Front(n) # <<>> => Head(Front(n)) = Head(n)
    BY <1>2, <1>3, FrontLast
  <1> HIDE DEF h, n, k
  <1>5. nest' \in [Process -> Seq(Hash)] /\ nest'[p] = Front(n) /\ \A q \in Process \ {p} : nest'[q] = nest[q]
    BY <1>2, <1>3, <1>4
  <1>6. /\ visits' \in [Process -> [Hash -> Nat]] /\ \A q \in Process \ {p} : visits'[q] = visits[q]
        /\ \A g \in Hash : visits'[p][g] = visits[p][g] + IF g = h /\ Len(n) = 1 THEN 1 ELSE 0
    BY <1>2, <1>3, <1>4
  <1>7. k # <<>> => Front(k) \in Seq(Hash)
    BY <1>2, FrontLast DEF k
  <1>8. /\ hint_stack' \in [Process -> Seq(Hash)] /\ \A q \in Process \ {p} : hint_stack'[q] = hint_stack[q]
        /\ current' \in [Process -> Hash \cup {Unmarked}] /\ \A q \in Process \ {p} : current'[q] = current[q]
    <2>1. \/ hint_stack' = hint_stack
          \/ Front(k) \in Seq(Hash) /\ hint_stack' = [hint_stack EXCEPT ![p] = Front(k)]
      BY <1>3, <1>7 DEF ExitNested, ExitOuter, ExitFails, k
    <2>2. current' = current \/ current' = [current EXCEPT ![p] = Unmarked]
      BY <1>3 DEF ExitNested, ExitOuter, ExitFails
    <2> QED BY <1>2, <2>1, <2>2
  <1>9. Sound(m) /\ log' = [log EXCEPT ![p] = m]
    <2>1. Sound(LogExit(l, h))
      BY <1>2, <1>4, ExitSound
    <2>2. log' = log \/ log' = [log EXCEPT ![p] = LogExit(l, h)]
      BY <1>3 DEF ExitNested, ExitOuter, ExitFails
    <2>3. CASE log' = log
      BY <1>2, <2>3
    <2>4. CASE log' = [log EXCEPT ![p] = LogExit(l, h)]
      <3>1. m = LogExit(l, h)
        BY <1>2, <2>4
      <3> HIDE DEF m
      <3> QED BY <2>1, <2>4, <3>1
    <2> QED BY <2>2, <2>3, <2>4
  <1>10. threw \subseteq threw' /\ threw' \subseteq Process
    BY <1>2, <1>3 DEF ExitNested, ExitOuter, ExitFails
  <1>11. phase' \in [Process -> Phases] /\ registered' \subseteq Process
    BY <1>2, <1>3
  <1>12. Types' /\ \A q \in Process \ {p} : log'[q] = log[q]
    <2> HIDE DEF m
    <2> QED BY <1>1, <1>3, <1>5, <1>6, <1>8, <1>9, <1>10, <1>11, ApplicationTypes
  <1>13. \A q \in Process \ {p} :
             /\ phase'[q] = phase[q] /\ log'[q] = log[q] /\ hint_stack'[q] = hint_stack[q]
             /\ nest'[q] = nest[q] /\ current'[q] = current[q] /\ visits'[q] = visits[q]
    BY <1>3, <1>5, <1>6, <1>8, <1>12
  <1>14. ASSUME p \notin threw'
         PROVE  /\ ProcessExact(p)' /\ MarkStep(phase[p], l.records, phase'[p], m.records)
                /\ \A g \in Hash :
                     visits'[p][g] + (ExitCount(l.records, g) + ShortCount(l.regions, g))
                     = visits[p][g] + (ExitCount(m.records, g) + ShortCount(m.regions, g))
    <2>1. /\ k = n /\ current[p] = (IF n = <<>> THEN Unmarked ELSE Head(n))
          /\ l.entered = (IF n = <<>> THEN NoHash ELSE Head(n)) /\ LogExact(valid[p], l)
      BY <1>1, <1>10, <1>14 DEF Fine, ProcessExact, k, n
    <2>2. ExitNested(p) \/ ExitOuter(p, h)
      BY <1>3, <1>14 DEF ExitFails
    <2>3. hint_stack'[p] = Front(n)
      BY <1>2, <2>1, <2>2 DEF ExitNested, ExitOuter, k
    <2>4. valid'[p] = valid[p] /\ phase'[p] = "on"
      BY <1>3 DEF ctlVars
    <2>5. \A g \in Hash : visits[p][g] \in Nat
      BY <1>2
    <2>6. CASE ExitNested(p)
      <3>1. m = l /\ current'[p] = current[p] /\ Len(n) # 1 /\ Front(n) # <<>>
        BY <1>4, <2>1, <2>6 DEF ExitNested, k
      <3> HIDE DEF m, l
      <3>2. ProcessExact(p)'
        BY <1>3, <1>4, <1>5, <2>1, <2>3, <2>4, <3>1 DEF ProcessExact, m
      <3>3. MarkStep(phase[p], l.records, phase'[p], m.records)
        BY <1>3, <3>1 DEF MarkStep, Marks
      <3>4. \A g \in Hash : visits'[p][g] = visits[p][g]
        BY <1>6, <2>5, <3>1
      <3> QED BY <3>1, <3>2, <3>3, <3>4
    <2>7. CASE ExitOuter(p, h)
      <3>1. /\ m = LogExit(l, h) /\ current'[p] = Unmarked /\ Len(n) = 1 /\ Front(n) = <<>>
            /\ ~ExitThrows(l, h) /\ h = l.entered
        BY <1>2, <1>3, <1>4, <2>1, <2>7 DEF ExitOuter, k
      <3> HIDE DEF m, l
      <3>2. /\ LogExact(valid[p], m) /\ m.entered = NoHash /\ Marks(l.records, m.records)
            /\ \A g \in Hash : ExitCount(m.records, g) + ShortCount(m.regions, g)
                               = ExitCount(l.records, g) + ShortCount(l.regions, g)
                                 + IF g = h THEN 1 ELSE 0
        <4>1. Sound(l) /\ h \in Hash /\ LogExact(valid[p], l) /\ l.entered = h /\ ~ExitThrows(l, h)
          BY <1>2, <1>4, <2>1, <3>1
        <4>2. m = LogExit(l, h)
          BY <3>1
        <4> QED BY <4>1, <4>2, ExitExact
      <3>3. ProcessExact(p)'
        BY <1>5, <2>3, <2>4, <3>1, <3>2 DEF ProcessExact, m
      <3>4. MarkStep(phase[p], l.records, phase'[p], m.records)
        BY <1>3, <3>2 DEF MarkStep
      <3>5. ASSUME NEW g \in Hash
            PROVE  visits'[p][g] + (ExitCount(l.records, g) + ShortCount(l.regions, g))
                   = visits[p][g] + (ExitCount(m.records, g) + ShortCount(m.regions, g))
        <4>1. ExitCount(l.records, g) \in Nat /\ ShortCount(l.regions, g) \in Nat
          BY <1>1, CountsNatural DEF l
        <4>2. visits'[p][g] = visits[p][g] + IF g = h THEN 1 ELSE 0
          BY <1>6, <3>1
        <4>3. ExitCount(m.records, g) + ShortCount(m.regions, g)
              = ExitCount(l.records, g) + ShortCount(l.regions, g) + IF g = h THEN 1 ELSE 0
          BY <3>2
        <4>4. CASE g = h
          BY <2>5, <4>1, <4>2, <4>3, <4>4
        <4>5. CASE g # h
          BY <2>5, <4>1, <4>2, <4>3, <4>5
        <4> QED BY <4>4, <4>5
      <3> QED BY <3>3, <3>4, <3>5
    <2> QED BY <2>2, <2>6, <2>7
  <1> QED BY <1>3, <1>10, <1>12, <1>13, <1>14, ApplicationStep

-----------------------------------------------------------------------------
(* The steps of the controller.                                            *)

\* An empty buffer adds nothing.
LEMMA EmptyBuffer ==
    ASSUME NEW S, NEW p
    PROVE  /\ \A e : At(<<>>, e) = {} /\ Own(<<>>, p, e) = {}
           /\ \A h : BufExit(<<>>, p, h) = 0 /\ BufShort(<<>>, S, p, h) = 0
           /\ OwnIn(<<>>, S, p) /\ Shorts(<<>>, <<>>) /\ Signals(<<>>)
  <1>1. DOMAIN <<>> = {} /\ Len(<<>>) = 0
    OBVIOUS
  <1>2. \A e : At(<<>>, e) = {} /\ Own(<<>>, p, e) = {}
    BY <1>1 DEF At, Own
  <1>3. ASSUME NEW h PROVE BufExit(<<>>, p, h) = 0
    <2>1. {i \in Own(<<>>, p, "EXIT") : (<<>>)[i].signal = h} = {}
      BY <1>2
    <2> QED BY <2>1, FS_EmptySet DEF BufExit
  <1>4. ASSUME NEW h PROVE BufShort(<<>>, S, p, h) = 0
    <2> DEFINE f == [i \in Own(<<>>, p, "SHORT") |-> S[(<<>>)[i].signal + 1].num_complete]
               T == {i \in Own(<<>>, p, "SHORT") : S[(<<>>)[i].signal + 1].hash = h}
    <2>1. T = {}
      BY <1>2
    <2>2. BufShort(<<>>, S, p, h) = SumFunctionOnSet(f, T)
      BY DEF BufShort
    <2> HIDE DEF f, T
    <2> QED BY <2>1, <2>2, SumOfNone
  <1>5. OwnIn(<<>>, S, p)
    BY <1>2 DEF OwnIn
  <1>6. Shorts(<<>>, <<>>)
    <2>1. 0 .. Len(<<>>) - 1 = {}
      BY <1>1
    <2> QED BY <1>2, <2>1 DEF Shorts
  <1>7. Signals(<<>>)
    BY <1>1 DEF Signals
  <1> QED BY <1>2, <1>3, <1>4, <1>5, <1>6, <1>7

\* The owed processes are no more than before.
LEMMA OwedShrinks ==
    ASSUME Types, NEW T, T \subseteq Owed
    PROVE  /\ IsFiniteSet(T) /\ Cardinality(T) \in Nat /\ Cardinality(Owed) \in Nat
           /\ Cardinality(T) <= Cardinality(Owed)
  BY OwedFinite, FS_Subset, FS_CardinalityType

\* An update begins with empty buffers.
LEMMA ClearedStep ==
    ASSUME Inv, UNCHANGED <<profVars, valid, counts>>, ~Buffered, pc # "failed",
           pc' = "dump" \/ (pc' = "failed" /\ sampler'.clients = {}),
           sampler' \in Sampler, sampler'.buffer = <<>>, sampler'.shorts = <<>>,
           io_pids' \subseteq Process, todo' = sampler'.clients,
           pc' = "dump" => sampler'.clients # {},
           \/ sampler'.client_pids = sampler'.clients
           \/ sampler'.client_pids = sampler.client_pids /\ sampler'.clients = sampler.clients,
           threw = {} => Cardinality(Owed)' <= sampler'.num_registered
    PROVE  Inv'
  <1>1. Types /\ Order /\ Together /\ \A q \in Process \ threw : Fine(q)
    BY DEF Inv
  <1>2. /\ phase' = phase /\ registered' = registered /\ log' = log /\ hint_stack' = hint_stack /\ nest' = nest
        /\ current' = current /\ threw' = threw /\ visits' = visits /\ valid' = valid /\ counts' = counts
    BY DEF profVars, appVars
  <1>3. \A q : OwnIn(sampler'.buffer, sampler'.shorts, q)
    BY EmptyBuffer
  <1>4. \A q, e : Own(sampler'.buffer, q, e) = {}
    BY EmptyBuffer
  <1>5. Types'
    <2>1. Signals(sampler'.buffer)
      BY EmptyBuffer
    <2>2. todo' \subseteq Process
      BY DEF Sampler
    <2>3. pc' \in {"connect", "dump", "digest", "check", "done", "failed"}
      OBVIOUS
    <2> QED BY <1>1, <1>2, <2>1, <2>2, <2>3 DEF Types
  <1>6. Order'
    <2>1. DOMAIN sampler'.buffer = {}
      OBVIOUS
    <2> QED BY <2>1 DEF Order
  <1>7. Together'
    <2> SUFFICES ASSUME threw = {} PROVE Together'
      BY <1>2 DEF Together
    <2>1. sampler.client_pids \subseteq sampler.clients
      BY <1>1 DEF Together
    <2>2. Shorts(sampler'.buffer, sampler'.shorts)
      BY EmptyBuffer
    <2> QED BY <2>1, <2>2 DEF Together
  <1>8. ASSUME NEW q \in Process \ threw PROVE Fine(q)'
    <2>1. ProcessExact(q) /\ StopOnce(q) /\ OwnShorts(q) /\ Conserved(q) /\ Starts(q)
      BY <1>1 DEF Fine
    <2>2. ProcessExact(q)'
      BY <1>2, <2>1 DEF ProcessExact
    <2>3. StopOnce(q)'
      <3>1. Mine(q, "STOP")' = {}
        BY <1>4, BufferForms
      <3> QED BY <1>2, <2>1, <3>1 DEF StopOnce
    <2>4. OwnShorts(q)'
      BY <1>3, BufferForms
    <2>5. Conserved(q)'
      <3> SUFFICES ASSUME NEW h \in Hash
                   PROVE  visits[q][h] = counts[q][h] + NumExit(q, h)' + NumShort(q, h)'
                                         + (IF Buffered' THEN Completed(q, h)' ELSE 0)
        BY <1>2 DEF Conserved
      <3>1. visits[q][h] = counts[q][h] + NumExit(q, h) + NumShort(q, h) + 0
        BY <2>1 DEF Conserved
      <3>2. BufExit(sampler'.buffer, q, h) = 0 /\ BufShort(sampler'.buffer, sampler'.shorts, q, h) = 0
        BY ZenonT(30), EmptyBuffer
      <3>3. NumExit(q, h)' = NumExit(q, h) /\ NumShort(q, h)' = NumShort(q, h)
        BY <1>2, CountForms
      <3>4. Completed(q, h)' = 0
        <4>1. Completed(q, h)' = BufExit(sampler'.buffer, q, h) + BufShort(sampler'.buffer, sampler'.shorts, q, h)
          BY CountForms
        <4>2. 0 + 0 = 0
          OBVIOUS
        <4> QED BY <3>2, <4>1, <4>2
      <3> QED BY <3>1, <3>3, <3>4
    <2>6. Starts(q)'
      BY DEF Starts
    <2> QED BY <2>2, <2>3, <2>4, <2>5, <2>6 DEF Fine
  <1> QED BY <1>2, <1>5, <1>6, <1>7, <1>8 DEF Inv

\* The sampler starts with the processes of the profile and an empty buffer.
LEMMA ConnectInv ==
    ASSUME Inv, Connect
    PROVE  Inv'
  <1>1. Types /\ Order /\ Together /\ \A q \in Process \ threw : Fine(q)
    BY DEF Inv
  <1>2. sampler \in Sampler /\ registered \subseteq Process
    BY <1>1 DEF Types
  <1>3. /\ pc = "connect" /\ io_pids' = registered /\ todo' = registered
        /\ sampler' = [sampler EXCEPT !.clients = registered, !.client_pids = registered]
        /\ pc' = IF registered = {} THEN "failed" ELSE "dump"
        /\ UNCHANGED <<profVars, valid, counts>>
    BY DEF Connect
  <1>4. sampler.buffer = <<>> /\ sampler.shorts = <<>> /\ sampler.num_registered = 0
    BY <1>1, <1>3 DEF Order
  <1>5. /\ sampler' \in Sampler /\ sampler'.buffer = <<>> /\ sampler'.shorts = <<>>
        /\ sampler'.clients = registered /\ sampler'.client_pids = registered /\ sampler'.num_registered = 0
    <2>1. \A x \in Sampler : LET y == [x EXCEPT !.clients = registered, !.client_pids = registered]
                             IN  /\ y \in Sampler /\ y.buffer = x.buffer /\ y.shorts = x.shorts
                                 /\ y.clients = registered /\ y.client_pids = registered
                                 /\ y.num_registered = x.num_registered
      BY <1>2 DEF Sampler
    <2> QED BY <1>2, <1>3, <1>4, <2>1
  <1>6. ASSUME threw = {} PROVE Cardinality(Owed)' <= sampler'.num_registered
    <2>1. ASSUME NEW q \in Owed' PROVE FALSE
      <3>1. /\ q \in Process /\ phase' = phase /\ log' = log /\ Mine(q, "STOP")' = {}
            /\ phase[q] \in {"on", "leaving"} \/ Has(log[q].records, "STOP")
        <4>1. phase' = phase /\ log' = log
          BY <1>3 DEF profVars
        <4>2. Mine(q, "STOP")' = {}
          <5>1. Own(sampler'.buffer, q, "STOP") = {}
            BY <1>5, EmptyBuffer
          <5> QED BY <5>1, BufferForms
        <4> QED BY <1>2, <1>5, <4>1, <4>2 DEF Owed
      <3>2. ~Has(log[q].records, "START")
        BY <3>1 DEF Owed
      <3>3. Starts(q)
        BY <1>1, <1>6, <3>1 DEF Fine
      <3> QED BY <1>3, <3>1, <3>2, <3>3 DEF Starts
    <2>2. Owed' = {}
      BY <2>1
    <2>3. Cardinality({}) = 0
      BY FS_EmptySet
    <2>4. Cardinality(Owed)' = 0
      BY <2>2, <2>3
    <2> QED BY <1>5, <2>4
  <1>7. pc' = "dump" \/ (pc' = "failed" /\ sampler'.clients = {})
    BY <1>3, <1>5
  <1>8. ~Buffered /\ pc # "failed" /\ (pc' = "dump" => sampler'.clients # {})
    BY <1>3, <1>5 DEF Buffered
  <1> QED BY <1>2, <1>3, <1>5, <1>6, <1>7, <1>8, ClearedStep

\* Between two updates the sampler clears its buffer and begins the next dump.
LEMMA CheckShutdownInv ==
    ASSUME Inv, CheckShutdown
    PROVE  Inv'
  <1>1. Types /\ Order /\ Together
    BY DEF Inv
  <1>2. sampler \in Sampler /\ io_pids \subseteq Process /\ StillAlive(io_pids) \subseteq io_pids
    BY <1>1 DEF Types, StillAlive
  <1>3. /\ pc = "check" /\ pc' = "dump" /\ io_pids' = StillAlive(io_pids) /\ todo' = sampler.clients
        /\ sampler' = [sampler EXCEPT !.buffer = <<>>, !.shorts = <<>>]
        /\ UNCHANGED <<profVars, valid, counts>>
    BY DEF CheckShutdown
  <1>4. /\ sampler' \in Sampler /\ sampler'.buffer = <<>> /\ sampler'.shorts = <<>>
        /\ sampler'.clients = sampler.clients /\ sampler'.client_pids = sampler.client_pids
        /\ sampler'.num_registered = sampler.num_registered
    <2>1. <<>> \in Seq(BufferRecord) /\ <<>> \in Seq(Region)
      OBVIOUS
    <2>2. \A x \in Sampler : LET y == [x EXCEPT !.buffer = <<>>, !.shorts = <<>>]
                             IN  /\ y \in Sampler /\ y.buffer = <<>> /\ y.shorts = <<>>
                                 /\ y.clients = x.clients /\ y.client_pids = x.client_pids
                                 /\ y.num_registered = x.num_registered
      BY <2>1 DEF Sampler
    <2> QED BY <1>2, <1>3, <2>2
  <1>5. ASSUME threw = {} PROVE Cardinality(Owed)' <= sampler'.num_registered
    <2>1. phase' = phase /\ log' = log
      BY <1>3 DEF profVars
    <2>2. \A q : Mine(q, "STOP")' = {}
      BY <1>4, EmptyBuffer, BufferForms
    <2>3. ~Buffered
      BY <1>3 DEF Buffered
    <2>4. Owed' \subseteq Owed
      BY <1>4, <2>1, <2>2, <2>3 DEF Owed
    <2>5. Cardinality(Owed') <= Cardinality(Owed) /\ Cardinality(Owed') \in Nat /\ Cardinality(Owed) \in Nat
      BY <1>1, <2>4, OwedShrinks
    <2>6. Cardinality(Owed) <= sampler.num_registered /\ sampler.num_registered \in Int
      BY <1>1, <1>2, <1>5 DEF Together, Sampler
    <2>7. Cardinality(Owed') <= sampler'.num_registered
      BY <1>4, <2>5, <2>6
    <2> QED BY <2>7
  <1>6. ~Buffered /\ pc # "failed" /\ sampler'.clients # {}
    BY <1>1, <1>3, <1>4 DEF Buffered, Order
  <1>7. io_pids' \subseteq Process /\ todo' = sampler'.clients
    BY <1>2, <1>3, <1>4
  <1> QED BY <1>2, <1>3, <1>4, <1>5, <1>6, <1>7, ClearedStep

\* What is not changed keeps the invariant.
LEMMA StutterInv ==
    ASSUME Inv, UNCHANGED vars
    PROVE  Inv'
  <1>1. UNCHANGED ctlVars /\ UNCHANGED profVars
    BY DEF vars
  <1>2. /\ pc' = pc /\ sampler' = sampler /\ valid' = valid /\ counts' = counts /\ todo' = todo
        /\ io_pids' = io_pids
    BY <1>1 DEF ctlVars
  <1>3. /\ phase' = phase /\ registered' = registered /\ log' = log /\ hint_stack' = hint_stack /\ nest' = nest
        /\ current' = current /\ threw' = threw /\ visits' = visits
    BY <1>1 DEF profVars, appVars
  <1>4. Types /\ Order /\ Together /\ \A q \in Process \ threw : Fine(q)
    BY DEF Inv
  <1>5. Types' /\ Order'
    BY <1>2, <1>3, <1>4 DEF Types, Order
  <1>6. ASSUME NEW q \in Process \ threw PROVE Fine(q)'
    BY <1>2, <1>3, <1>4, OtherFine
  <1>7. Together'
    <2>1. Owed' = Owed
      BY <1>2, <1>3 DEF Owed, Buffered, Mine, InBuffer
    <2>2. Cardinality(Owed)' = Cardinality(Owed)
      BY <2>1
    <2> QED BY <1>2, <1>3, <1>4, <2>2 DEF Together, Buffered
  <1> QED BY <1>3, <1>5, <1>6, <1>7 DEF Inv

\* The processes that have a record of an event in the buffer.
Of(B, event) == {B[i].process : i \in At(B, event)}

\* They are no more than the records, and as many when each has one.
LEMMA OfCount ==
    ASSUME NEW B \in Seq(BufferRecord), NEW e
    PROVE  /\ IsFiniteSet(Of(B, e)) /\ Cardinality(Of(B, e)) \in Nat /\ Cardinality(At(B, e)) \in Nat
           /\ Cardinality(Of(B, e)) <= Cardinality(At(B, e))
           /\ (\A p : \A i, j \in Own(B, p, e) : i = j) => Cardinality(Of(B, e)) = Cardinality(At(B, e))
  <1> DEFINE S == At(B, e)
             T == Of(B, e)
             f == [i \in S |-> B[i].process]
  <1>1. IsFiniteSet(S) /\ Cardinality(S) \in Nat
    <2>1. S \subseteq DOMAIN B
      BY DEF At
    <2> QED BY <2>1, PlacesFinite
  <1>2. f \in Surjection(S, T)
    <2>1. f \in [S -> T] /\ \A t \in T : \E i \in S : f[i] = t
      BY DEF Of
    <2> QED BY <2>1 DEF Surjection
  <1>3. ASSUME \A p : \A i, j \in Own(B, p, e) : i = j PROVE f \in Injection(S, T)
    <2>1. \A i, j \in S : f[i] = f[j] => i = j
      BY <1>3 DEF Own
    <2>2. f \in [S -> T]
      BY DEF Of
    <2> QED BY <2>1, <2>2 DEF Injection, IsInjective
  <1> HIDE DEF f, S, T
  <1>4. /\ IsFiniteSet(T) /\ Cardinality(T) <= Cardinality(S)
        /\ Cardinality(T) = Cardinality(S) <=> f \in Injection(S, T)
    BY <1>1, <1>2, FS_Surjection
  <1>5. Cardinality(T) \in Nat
    BY <1>4, FS_CardinalityType
  <1> QED BY <1>1, <1>3, <1>4, <1>5 DEF S, T

\* What update_start() and update_stop() leave, when no call has thrown: the
\* stop records are of processes that are counted, and none of them stops twice.
LEMMA DigestCounts ==
    ASSUME Inv, threw = {}, pc = "digest"
    PROVE  LET B == sampler.buffer
               left == sampler.num_registered + Cardinality(At(B, "START")) - Cardinality(At(B, "STOP"))
               after == {p \in sampler.client_pids \ Of(B, "STOP") :
                           /\ phase[p] \in {"on", "leaving"} \/ Has(log[p].records, "STOP")
                           /\ ~Has(log[p].records, "START")}
           IN  /\ Cardinality(Of(B, "STOP")) = Cardinality(At(B, "STOP"))
               /\ Of(B, "STOP") \subseteq sampler.client_pids
               /\ Cardinality(after) \in Nat /\ Cardinality(after) <= left
               /\ left \in Int /\ left >= 0
  <1> DEFINE B == sampler.buffer
             left == sampler.num_registered + Cardinality(At(B, "START")) - Cardinality(At(B, "STOP"))
             after == {p \in sampler.client_pids \ Of(B, "STOP") :
                         /\ phase[p] \in {"on", "leaving"} \/ Has(log[p].records, "STOP")
                         /\ ~Has(log[p].records, "START")}
             A == Of(B, "START")
             Z == Of(B, "STOP")
             W == Owed
  <1>1. Types /\ Together /\ \A q \in Process : Fine(q)
    BY DEF Inv
  <1>2. B \in Seq(BufferRecord) /\ sampler.client_pids \subseteq Process /\ sampler.num_registered \in Int
    BY <1>1 DEF Types, Sampler
  <1>3. IsFiniteSet(W) /\ Cardinality(W) \in Nat /\ Cardinality(W) <= sampler.num_registered
    BY <1>1, OwedFinite DEF Together
  <1>4. \A q \in Process :
          /\ \A i, j \in Own(B, q, "STOP") : i = j
          /\ Own(B, q, "STOP") # {} => /\ q \in sampler.client_pids /\ phase[q] \in {"off", "dead"}
                                       /\ ~Has(log[q].records, "STOP") /\ ~Has(log[q].records, "START")
    <2> SUFFICES ASSUME NEW q \in Process
                 PROVE  /\ \A i, j \in Own(B, q, "STOP") : i = j
                        /\ Own(B, q, "STOP") # {} => /\ q \in sampler.client_pids /\ phase[q] \in {"off", "dead"}
                                                     /\ ~Has(log[q].records, "STOP") /\ ~Has(log[q].records, "START")
      OBVIOUS
    <2>1. StopOnce(q) /\ Buffered
      BY <1>1 DEF Fine, Buffered
    <2>2. Mine(q, "STOP") = Own(B, q, "STOP")
      BY BufferForms
    <2> HIDE DEF B
    <2> QED BY <2>1, <2>2 DEF StopOnce
  <1>5. /\ Buffered /\ \A q : Mine(q, "STOP") = Own(B, q, "STOP") /\ Mine(q, "START") = Own(B, q, "START")
    BY BufferForms DEF Buffered
  <1> HIDE DEF B
  <1>6. \A q, e : q \in Of(B, e) <=> Own(B, q, e) # {}
    BY DEF Of, Own
  <1>7. \A q, e : q \in Of(B, e) => q \in Process
    <2>1. \A x \in BufferRecord : x.process \in Process
      BY DEF BufferRecord
    <2> QED BY <1>2, <2>1 DEF Of, At
  <1>8. W = {p \in sampler.client_pids :
               /\ phase[p] \in {"on", "leaving"} \/ Has(log[p].records, "STOP") \/ Own(B, p, "STOP") # {}
               /\ ~Has(log[p].records, "START") /\ Own(B, p, "START") = {}}
    BY <1>5 DEF Owed
  <1> HIDE DEF W
  <1>9. after \subseteq W \cup A /\ after \cap Z = {}
    BY <1>6, <1>8
  <1>10. Z \subseteq W \cup A /\ Z \subseteq sampler.client_pids
    BY <1>4, <1>6, <1>7, <1>8
  <1>11. /\ IsFiniteSet(A) /\ Cardinality(A) \in Nat /\ Cardinality(A) <= Cardinality(At(B, "START"))
         /\ IsFiniteSet(Z) /\ Cardinality(Z) \in Nat
         /\ Cardinality(At(B, "START")) \in Nat /\ Cardinality(At(B, "STOP")) \in Nat
    BY <1>2, OfCount
  <1>12. Cardinality(Z) = Cardinality(At(B, "STOP"))
    <2>1. ASSUME NEW p, NEW i \in Own(B, p, "STOP"), NEW j \in Own(B, p, "STOP") PROVE i = j
      <3>1. p \in Process
        BY <1>6, <1>7
      <3> QED BY <1>4, <3>1
    <2> QED BY <1>2, <2>1, OfCount
  <1> HIDE DEF after, A, Z
  <1>13. /\ IsFiniteSet(W \cup A) /\ Cardinality(W \cup A) = Cardinality(W) + Cardinality(A) - Cardinality(W \cap A)
         /\ Cardinality(W \cap A) \in Nat
    <2>1. IsFiniteSet(W \cap A)
      BY <1>3, FS_Subset
    <2> QED BY <1>3, <1>11, <2>1, FS_Union, FS_CardinalityType
  <1>14. IsFiniteSet(after) /\ Cardinality(after) \in Nat
    BY <1>9, <1>13, FS_Subset, FS_CardinalityType
  <1>15. IsFiniteSet(after \cup Z) /\ Cardinality(after \cup Z) = Cardinality(after) + Cardinality(Z)
    <2>1. Cardinality(after \cap Z) = 0
      BY <1>9, FS_EmptySet
    <2>2. Cardinality(after \cup Z) = Cardinality(after) + Cardinality(Z) - Cardinality(after \cap Z)
      BY <1>11, <1>14, FS_Union
    <2> QED BY <1>11, <1>14, <2>1, <2>2, FS_Union
  <1>16. Cardinality(after \cup Z) <= Cardinality(W \cup A)
    BY <1>9, <1>10, <1>13, FS_Subset
  <1>17. Cardinality(after) <= left /\ left \in Int /\ left >= 0
    BY SMTT(30), <1>2, <1>3, <1>11, <1>12, <1>13, <1>14, <1>15, <1>16
  <1> QED BY <1>10, <1>12, <1>14, <1>17 DEF B, Z, after

\* The members that update_start() and update_stop() leave behind.
LEMMA DigestForms ==
    ASSUME Types, Digest
    PROVE  LET B == sampler.buffer
               Z == Of(B, "STOP")
               left == sampler.num_registered + Cardinality(At(B, "START")) - Cardinality(At(B, "STOP"))
               throws == \/ Cardinality(Z) < Cardinality(At(B, "STOP")) \/ ~(Z \subseteq sampler.client_pids)
                         \/ left < 0 \/ BadHandle
           IN  /\ pc = "digest" /\ UNCHANGED <<profVars, last, todo, valid, io_pids>>
               /\ sampler' \in Sampler /\ sampler'.buffer = sampler.buffer /\ sampler'.shorts = sampler.shorts
               /\ sampler'.clients = sampler.clients /\ sampler'.client_pids = sampler.client_pids \ Z
               /\ sampler'.num_registered = left
               /\ throws => pc' = "failed" /\ counts' = counts
               /\ ~throws => /\ pc' \in {"done", "check"} /\ ~BadHandle
                             /\ counts' = [p \in Process |-> [h \in Hash |-> counts[p][h] + Completed(p, h)]]
  <1> DEFINE B == sampler.buffer
             Z == Of(B, "STOP")
             left == sampler.num_registered + Cardinality(At(B, "START")) - Cardinality(At(B, "STOP"))
             throws == \/ Cardinality(Z) < Cardinality(At(B, "STOP")) \/ ~(Z \subseteq sampler.client_pids)
                       \/ left < 0 \/ BadHandle
             stopped == {sampler.buffer[i].process : i \in InBuffer("STOP")}
             started == sampler.num_registered + NumStarted
             rest == started - Cardinality(InBuffer("STOP"))
             fails == \/ Cardinality(stopped) < Cardinality(InBuffer("STOP"))
                      \/ ~(stopped \subseteq sampler.client_pids) \/ rest < 0 \/ BadHandle
             ends == sampler.do_shutdown \/ (~fails /\ started # 0 /\ rest = 0)
  <1>1. InBuffer("STOP") = At(B, "STOP") /\ InBuffer("START") = At(B, "START")
    BY BufferForms
  <1>2. sampler \in Sampler /\ B \in Seq(BufferRecord) /\ sampler.num_registered \in Int
    BY DEF Types, Sampler
  <1>3. left \in Int
    <2>1. Cardinality(At(B, "START")) \in Nat /\ Cardinality(At(B, "STOP")) \in Nat
      BY <1>2, OfCount
    <2> QED BY <1>2, <2>1
  <1>4. stopped = Z
    BY <1>1 DEF Of
  <1>5. rest = left
    <2>1. NumStarted = Cardinality(At(B, "START"))
      BY <1>1 DEF NumStarted
    <2>2. Cardinality(InBuffer("STOP")) = Cardinality(At(B, "STOP"))
      BY <1>1
    <2>3. Cardinality(At(B, "START")) \in Nat /\ Cardinality(At(B, "STOP")) \in Nat
      BY <1>2, OfCount
    <2> HIDE DEF B
    <2> QED BY <1>2, <2>1, <2>2, <2>3
  <1>6. /\ pc = "digest" /\ UNCHANGED <<profVars, last, todo, valid, io_pids>>
        /\ sampler' = [sampler EXCEPT !.num_registered = rest, !.client_pids = @ \ stopped, !.do_shutdown = ends]
        /\ counts' = IF fails THEN counts
                     ELSE [p \in Process |-> [h \in Hash |-> counts[p][h] + Completed(p, h)]]
        /\ pc' = IF fails THEN "failed" ELSE IF last THEN "done" ELSE "check"
    <2>1. DOMAIN sampler = DOMAIN sampler /\ sampler \in Sampler
      BY <1>2
    <2> QED BY <2>1 DEF Digest, Sampler
  <1>7. /\ sampler' \in Sampler /\ sampler'.buffer = sampler.buffer /\ sampler'.shorts = sampler.shorts
        /\ sampler'.clients = sampler.clients /\ sampler'.client_pids = sampler.client_pids \ Z
        /\ sampler'.num_registered = left
    <2>1. ends \in BOOLEAN
      OBVIOUS
    <2> HIDE DEF left, rest, ends, stopped, Z
    <2>2. sampler' = [sampler EXCEPT !.num_registered = left, !.client_pids = @ \ Z, !.do_shutdown = ends]
      BY <1>4, <1>5, <1>6
    <2> QED BY <1>2, <1>3, <2>1, <2>2 DEF Sampler
  <1>8. /\ throws => pc' = "failed" /\ counts' = counts
        /\ ~throws => /\ pc' \in {"done", "check"} /\ ~BadHandle
                      /\ counts' = [p \in Process |-> [h \in Hash |-> counts[p][h] + Completed(p, h)]]
    <2>1. throws <=> fails
      <3> HIDE DEF stopped, rest, Z, left
      <3> QED BY <1>1, <1>4, <1>5
    <2>2. ~throws => ~BadHandle
      OBVIOUS
    <2> HIDE DEF throws, fails
    <2> QED BY <1>6, <2>1, <2>2
  <1> QED BY <1>6, <1>7, <1>8 DEF Z

\* No handle is past the short regions: what the buffer adds is a number.
LEMMA CompletedNatural ==
    ASSUME Types, ~BadHandle, NEW p, NEW h
    PROVE  Completed(p, h) \in Nat
  <1> DEFINE B == sampler.buffer
             S == sampler.shorts
  <1>1. B \in Seq(BufferRecord) /\ S \in Seq(Region) /\ Signals(B)
    BY DEF Types, Sampler
  <1>2. \A i \in At(B, "SHORT") : ~(B[i].signal >= Len(S))
    BY BufferForms DEF BadHandle
  <1>3. Completed(p, h) = BufExit(B, p, h) + BufShort(B, S, p, h)
    BY CountForms
  <1> HIDE DEF B, S
  <1>4. \A i \in Own(B, p, "SHORT") : B[i].signal < Len(S)
    <2>1. \A i \in At(B, "SHORT") : B[i].signal \in Nat
      BY <1>1 DEF At, Signals
    <2>2. Len(S) \in Nat
      BY <1>1
    <2> QED BY <1>2, <2>1, <2>2 DEF Own
  <1>5. BufExit(B, p, h) \in Nat /\ BufShort(B, S, p, h) \in Nat
    BY <1>1, <1>4, BufNatural
  <1> QED BY <1>3, <1>5

\* A whole buffer is digested: starts and stops are counted, then the visits.
LEMMA DigestInv ==
    ASSUME Inv, Digest
    PROVE  Inv'
  <1> DEFINE B == sampler.buffer
             Z == Of(B, "STOP")
             left == sampler.num_registered + Cardinality(At(B, "START")) - Cardinality(At(B, "STOP"))
             throws == \/ Cardinality(Z) < Cardinality(At(B, "STOP")) \/ ~(Z \subseteq sampler.client_pids)
                       \/ left < 0 \/ BadHandle
  <1>1. Types /\ Order /\ Together /\ \A q \in Process \ threw : Fine(q)
    BY DEF Inv
  <1>2. /\ pc = "digest" /\ UNCHANGED <<profVars, last, todo, valid, io_pids>>
        /\ sampler' \in Sampler /\ sampler'.buffer = sampler.buffer /\ sampler'.shorts = sampler.shorts
        /\ sampler'.clients = sampler.clients /\ sampler'.client_pids = sampler.client_pids \ Z
        /\ sampler'.num_registered = left
        /\ throws => pc' = "failed" /\ counts' = counts
        /\ ~throws => /\ pc' \in {"done", "check"} /\ ~BadHandle
                      /\ counts' = [p \in Process |-> [h \in Hash |-> counts[p][h] + Completed(p, h)]]
    BY <1>1, DigestForms
  <1>3. /\ phase' = phase /\ registered' = registered /\ log' = log /\ hint_stack' = hint_stack /\ nest' = nest
        /\ current' = current /\ threw' = threw /\ visits' = visits /\ valid' = valid /\ todo' = todo
        /\ io_pids' = io_pids
    BY <1>2 DEF profVars, appVars
  <1>4. Buffered /\ ~Buffered' /\ pc' \in {"done", "check", "failed"}
    BY <1>2 DEF Buffered
  <1>5. \A q : q \in Z <=> Mine(q, "STOP") # {}
    <2>1. \A q : Mine(q, "STOP") = Own(B, q, "STOP")
      BY BufferForms
    <2> HIDE DEF B
    <2> QED BY <2>1 DEF Of, Own
  <1> HIDE DEF throws, left, Z
  <1>6. counts' \in [Process -> [Hash -> Nat]]
    <2>1. CASE throws
      BY <1>1, <1>2, <2>1 DEF Types
    <2>2. CASE ~throws
      <3>1. \A p \in Process, h \in Hash : Completed(p, h) \in Nat
        BY <1>1, <1>2, <2>2, CompletedNatural
      <3>2. counts \in [Process -> [Hash -> Nat]]
        BY <1>1 DEF Types
      <3>3. \A p \in Process, h \in Hash : counts[p][h] + Completed(p, h) \in Nat
        BY <3>1, <3>2
      <3> QED BY <1>2, <2>2, <3>3
    <2> QED BY <2>1, <2>2
  <1>7. Types'
    <2>1. Signals(sampler'.buffer)
      BY <1>1, <1>2 DEF Types
    <2>2. pc' \in {"connect", "dump", "digest", "check", "done", "failed"}
      BY <1>4
    <2> QED BY <1>1, <1>2, <1>3, <1>6, <2>1, <2>2 DEF Types
  <1>8. Order'
    <2>1. sampler.clients # {} /\ todo \subseteq sampler.clients
      BY <1>1, <1>2 DEF Order
    <2> QED BY <1>2, <1>3, <1>4, <2>1 DEF Order
  <1>9. Together'
    <2> SUFFICES ASSUME threw = {} PROVE Together'
      BY <1>3 DEF Together
    <2> DEFINE after == {p \in sampler.client_pids \ Z :
                           /\ phase[p] \in {"on", "leaving"} \/ Has(log[p].records, "STOP")
                           /\ ~Has(log[p].records, "START")}
    <2>1. /\ Cardinality(Z) = Cardinality(At(B, "STOP")) /\ Z \subseteq sampler.client_pids
          /\ Cardinality(after) <= left /\ left \in Int /\ left >= 0
      BY <1>2, DigestCounts DEF left, Z
    <2>2. sampler.client_pids \subseteq sampler.clients /\ Shorts(sampler.buffer, sampler.shorts)
      BY <1>1, <1>4 DEF Together
    <2>3. ~BadHandle
      <3>1. InBuffer("SHORT") = At(sampler.buffer, "SHORT")
        BY BufferForms
      <3>2. Len(sampler.shorts) \in Nat
        BY <1>1 DEF Types, Sampler
      <3>3. \A i \in InBuffer("SHORT") : sampler.buffer[i].signal \in 0 .. Len(sampler.shorts) - 1
        BY <2>2, <3>1 DEF Shorts
      <3> QED BY <3>2, <3>3 DEF BadHandle
    <2>4. ~throws
      <3>1. Cardinality(At(B, "STOP")) \in Nat
        <4>1. B \in Seq(BufferRecord)
          BY <1>1 DEF Types, Sampler
        <4> HIDE DEF B
        <4> QED BY <4>1, OfCount
      <3> QED BY <2>1, <2>3, <3>1 DEF throws
    <2>5. pc' # "failed"
      BY <1>2, <2>4
    <2>6. Owed' = after
      BY <1>2, <1>3, <1>4 DEF Owed
    <2>7. Cardinality(Owed)' <= sampler'.num_registered
      <3> HIDE DEF after
      <3> QED BY <1>2, <2>1, <2>6
    <2>8. sampler'.client_pids \subseteq sampler'.clients
      BY <1>2, <2>2
    <2> QED BY <1>4, <2>5, <2>7, <2>8 DEF Together
  <1>10. ASSUME NEW q \in Process \ threw PROVE Fine(q)'
    <2>1. ProcessExact(q) /\ StopOnce(q) /\ OwnShorts(q) /\ Conserved(q) /\ Starts(q)
      BY <1>1 DEF Fine
    <2>2. ProcessExact(q)'
      BY <1>3, <2>1 DEF ProcessExact
    <2>3. StopOnce(q)'
      BY <1>2, <1>3, <1>4, <1>5, <2>1 DEF StopOnce
    <2>4. OwnShorts(q)'
      BY <1>4 DEF OwnShorts
    <2>5. Conserved(q)'
      <3> SUFFICES ASSUME pc' # "failed", NEW h \in Hash
                   PROVE  visits[q][h] = counts'[q][h] + NumExit(q, h)' + NumShort(q, h)' + 0
        BY <1>3, <1>4 DEF Conserved
      <3>1. visits[q][h] = counts[q][h] + NumExit(q, h) + NumShort(q, h) + Completed(q, h)
        BY <1>2, <1>4, <2>1 DEF Conserved
      <3>2. NumExit(q, h)' = NumExit(q, h) /\ NumShort(q, h)' = NumShort(q, h)
        BY <1>3, CountForms
      <3>3. counts'[q][h] = counts[q][h] + Completed(q, h)
        BY <1>2
      <3>4. NumExit(q, h) \in Nat /\ NumShort(q, h) \in Nat /\ Completed(q, h) \in Nat /\ counts[q][h] \in Nat
        <4>1. ExitCount(log[q].records, h) \in Nat /\ ShortCount(log[q].regions, h) \in Nat /\ Completed(q, h) \in Nat
          BY <1>1, <1>4, <2>1, CountsNatural
        <4>2. counts[q][h] \in Nat
          BY <1>1 DEF Types
        <4> QED BY <4>1, <4>2, CountForms
      <3> QED BY <3>1, <3>2, <3>3, <3>4
    <2>6. Starts(q)'
      BY <1>4 DEF Starts
    <2> QED BY <2>2, <2>3, <2>4, <2>5, <2>6 DEF Fine
  <1> QED BY <1>3, <1>7, <1>8, <1>9, <1>10 DEF Inv

\* The next log is dumped, and its records pass the validator.
LEMMA DumpInv ==
    ASSUME Inv, DumpOne
    PROVE  Inv'
  <1>1. Types /\ Order /\ Together /\ \A q \in Process \ threw : Fine(q)
    BY DEF Inv
  <1>2. todo \subseteq Process /\ todo \subseteq Nat
    BY <1>1, Constants DEF Types, Process
  <1>3. PICK p \in Process : p = Min(todo) /\ p \in todo
    <2>1. todo # {}
      BY DEF DumpOne
    <2> QED BY <1>2, <2>1, MinIsLeast
  <1> DEFINE l == log[p]
             r == l.records
             g == l.regions
             B == sampler.buffer
             S == sampler.shorts
             c == Checked(valid[p], r)
             b == Reindex(Tagged(r, p), Len(g), Len(S))
             C == B \o b
             T == S \o g
             m == Dumped(l)
  <1>4. /\ pc = "dump" /\ todo # {} /\ log' = [log EXCEPT ![p] = m] /\ valid' = [valid EXCEPT ![p] = c]
        /\ UNCHANGED <<phase, registered, hint_stack, current, status, appVars, last, counts, io_pids>>
        /\ c.ok => /\ sampler' = [sampler EXCEPT !.buffer = C, !.shorts = T]
                   /\ todo' = todo \ {p} /\ pc' = IF todo = {p} THEN "digest" ELSE "dump"
        /\ ~c.ok => pc' = "failed" /\ sampler' = sampler /\ todo' = todo
    <2>1. sampler \in Sampler /\ log \in [Process -> Log]
      BY <1>1 DEF Types
    <2> QED BY <1>3, <2>1 DEF DumpOne, Tagged
  <1>5. /\ l \in Log /\ Sound(l) /\ r \in Seq(LogRecord) /\ g \in Seq(Region) /\ Signals(r)
        /\ B \in Seq(BufferRecord) /\ S \in Seq(Region) /\ Signals(B) /\ Len(S) \in Nat
        /\ sampler \in Sampler /\ log \in [Process -> Log] /\ DOMAIN valid = Process
    BY <1>1, <1>3 DEF Types, Sound, Log, Sampler
  <1>6. /\ phase' = phase /\ registered' = registered /\ hint_stack' = hint_stack /\ nest' = nest
        /\ current' = current /\ threw' = threw /\ visits' = visits /\ counts' = counts /\ io_pids' = io_pids
    BY <1>4 DEF appVars
  <1>7. \A i \in DOMAIN B : B[i].process \notin todo /\ B[i].process # p
    BY <1>1, <1>4, <1>3 DEF Order
  <1>8. Copied(r, b, p) /\ (Shorts(r, g) => Shifted(r, b, Len(S)))
    BY <1>3, <1>5, ReindexIs
  <1>9. Sound(m) /\ m.records = <<>> /\ m.regions = <<>> /\ m.entered = l.entered
    BY <1>5, DumpSound
  <1> HIDE DEF b, m, c
  <1>10. C \in Seq(BufferRecord) /\ Signals(C) /\ T \in Seq(Region)
    <2>1. C \in Seq(BufferRecord) /\ Signals(C)
      BY <1>5, <1>8, JoinPlaces
    <2> QED BY <1>5, <2>1
  <1>11. \A i \in DOMAIN C : C[i].process = p \/ \E j \in DOMAIN B : C[i] = B[j]
    <2> SUFFICES ASSUME NEW i \in DOMAIN C PROVE C[i].process = p \/ \E j \in DOMAIN B : C[i] = B[j]
      OBVIOUS
    <2> DEFINE n == Len(B)
    <2>1. /\ \A k \in DOMAIN B : k \in DOMAIN C /\ C[k] = B[k] /\ k \in 1 .. n
          /\ \A k \in DOMAIN r : n + k \in DOMAIN C /\ C[n + k] = b[k] /\ k \in Nat /\ k > 0
          /\ \A k \in DOMAIN C : k \in DOMAIN B \/ (k > n /\ k - n \in DOMAIN r)
          /\ n \in Nat /\ DOMAIN C \subseteq Nat
      <3> HIDE DEF B, r
      <3> QED BY <1>5, <1>8, JoinPlaces
    <2> HIDE DEF C, B, n, r
    <2>2. CASE i \in DOMAIN B
      BY <2>1, <2>2
    <2>3. CASE i \notin DOMAIN B
      <3>1. i - n \in DOMAIN r /\ i = n + (i - n)
        BY <2>1, <2>3
      <3>2. C[i] = b[i - n]
        BY <2>1, <3>1
      <3> QED BY <1>8, <3>1, <3>2 DEF Copied
    <2> QED BY <2>2, <2>3
  <1> HIDE DEF C, T
  <1>12. /\ log' \in [Process -> Log] /\ log'[p] = m /\ \A q \in Process \ {p} : log'[q] = log[q]
         /\ \A q \in Process : Len(log'[q].records) <= MaxRecord /\ Signals(log'[q].records)
    <2>1. m \in Log
      BY <1>9 DEF Sound
    <2>2. /\ log' \in [Process -> Log] /\ log'[p] = m /\ \A q \in Process \ {p} : log'[q] = log[q]
      BY <1>4, <1>3, <1>5, <2>1
    <2>3. \A q \in Process : Len(log[q].records) <= MaxRecord /\ Signals(log[q].records)
      BY <1>1 DEF Types
    <2>4. Len(m.records) <= MaxRecord /\ Signals(m.records)
      BY <1>9 DEF Sound
    <2> HIDE DEF l, r, g, B, S
    <2> QED BY <2>2, <2>3, <2>4
  <1>13. DOMAIN valid' = Process /\ valid'[p] = c /\ \A q \in Process \ {p} : valid'[q] = valid[q]
    BY <1>4, <1>3, <1>5
  <1>14. ASSUME c.ok
         PROVE  /\ sampler' \in Sampler /\ sampler'.buffer = C /\ sampler'.shorts = T
                /\ sampler'.clients = sampler.clients /\ sampler'.client_pids = sampler.client_pids
                /\ sampler'.num_registered = sampler.num_registered
    <2>1. sampler' = [sampler EXCEPT !.buffer = C, !.shorts = T] /\ sampler \in Sampler
      BY <1>4, <1>5, <1>14
    <2> HIDE DEF l, r, g, B, S
    <2> QED BY <1>10, <2>1 DEF Sampler
  <1>15. Types'
    <2>1. sampler' \in Sampler /\ Signals(sampler'.buffer)
      <3>1. CASE c.ok
        BY <1>10, <1>14, <3>1
      <3>2. CASE ~c.ok
        BY <1>4, <1>5, <3>2
      <3> QED BY <3>1, <3>2
    <2>2. todo' \subseteq Process /\ pc' \in {"connect", "dump", "digest", "check", "done", "failed"}
      BY <1>4, <1>2
    <2> HIDE DEF l, r, g, B, S
    <2> QED BY <1>1, <1>6, <1>12, <1>13, <2>1, <2>2 DEF Types
  <1>16. Order'
    <2>0. todo \subseteq sampler.clients /\ sampler.clients # {}
      BY <1>1, <1>4 DEF Order
    <2>1. CASE c.ok
      <3>1. pc' \in {"digest", "dump"} /\ (pc' = "dump" => todo' # {}) /\ (pc' = "digest" => todo' = {})
        BY <1>4, <1>3, <2>1
      <3>2. \A i \in DOMAIN C : C[i].process \notin todo'
        BY <1>4, <1>7, <1>11, <2>1
      <3> QED BY <1>4, <1>14, <2>0, <2>1, <3>1, <3>2 DEF Order
    <2>2. CASE ~c.ok
      BY <1>4, <2>0, <2>2 DEF Order
    <2> QED BY <2>1, <2>2
  <1>17. ASSUME p \notin threw
         PROVE  /\ c.ok /\ ProcessExact(p)' /\ Shorts(r, g) /\ Distinct(g)
    <2>1. ProcessExact(p)
      BY <1>1, <1>3, <1>17 DEF Fine
    <2>2. LogExact(valid[p], l)
      BY <2>1 DEF ProcessExact
    <2>3. c.ok /\ LogExact(c, m)
      BY <1>5, <2>2, DumpExact DEF c, m
    <2>4. l = NewLog => m = NewLog
      <3>1. m \in Log /\ m.enter_map = l.enter_map /\ m.epochs = l.epochs
        BY <1>5, DumpSound DEF m, Sound
      <3>2. m.overrun = l.overrun
        BY <1>5 DEF m, Dumped, Log
      <3>3. l = NewLog => l.records = <<>> /\ l.regions = <<>>
        BY DEF NewLog
      <3>4. \A x, y \in Log : /\ x.records = y.records /\ x.regions = y.regions /\ x.enter_map = y.enter_map
                              /\ x.entered = y.entered /\ x.epochs = y.epochs /\ x.overrun = y.overrun
                              => x = y
        BY DEF Log
      <3> QED BY <1>5, <1>9, <3>1, <3>2, <3>3, <3>4
    <2>5. Shorts(r, g) /\ Distinct(g)
      <3>1. CheckReset(l).records = r /\ CheckReset(l).regions = g
        BY <1>5, ResetShape
      <3> QED BY <2>2, <3>1 DEF LogExact, ResetExact
    <2>6. ProcessExact(p)'
      <3>1. /\ hint_stack[p] = nest[p] /\ current[p] = (IF nest[p] = <<>> THEN Unmarked ELSE Head(nest[p]))
            /\ l.entered = (IF nest[p] = <<>> THEN NoHash ELSE Head(nest[p]))
            /\ phase[p] \in {"new", "registered"} => l = NewLog
        BY <2>1 DEF ProcessExact
      <3> HIDE DEF l, r, g, B, S
      <3> QED BY <1>6, <1>9, <1>12, <1>13, <2>3, <2>4, <3>1 DEF ProcessExact
    <2> QED BY <2>3, <2>5, <2>6
  <1>18. ASSUME c.ok
         PROVE  /\ Buffered /\ Buffered' /\ pc' # "failed"
                /\ \A e : Mine(p, e) = {} /\ Mine(p, e)' = {Len(B) + i : i \in At(r, e)}
                /\ \A q, e : q # p => Mine(q, e)' = Mine(q, e)
    <2>1. Buffered /\ Buffered' /\ pc' # "failed"
      BY <1>4, <1>18 DEF Buffered
    <2>2. ASSUME NEW e PROVE Mine(p, e) = {} /\ Mine(p, e)' = {Len(B) + i : i \in At(r, e)}
      <3>1. Mine(p, e) = Own(B, p, e) /\ Mine(p, e)' = Own(C, p, e)
        BY <1>14, <1>18, BufferForms
      <3>2. Own(B, p, e) = {}
        BY <1>7 DEF Own, At
      <3>3. Own(C, p, e) = {Len(B) + i : i \in At(r, e)}
        <4>1. \A i \in DOMAIN B : B[i].process # p
          BY <1>7
        <4>2. \A f : Own(C, p, f) = {Len(B) + i : i \in At(r, f)}
          <5> HIDE DEF B, r
          <5> QED BY <1>5, <1>8, <4>1, JoinOwn DEF C
        <4> QED BY <4>2
      <3> QED BY <3>1, <3>2, <3>3
    <2>3. ASSUME NEW q, q # p, NEW e PROVE Mine(q, e)' = Mine(q, e)
      <3>1. Mine(q, e) = Own(B, q, e) /\ Mine(q, e)' = Own(C, q, e)
        BY <1>14, <1>18, BufferForms
      <3>2. \A f : Own(C, q, f) = Own(B, q, f)
        <4> HIDE DEF B, r, S, g
        <4> QED BY SMTT(30), <1>5, <1>8, <2>3, JoinOther DEF C
      <3> QED BY <3>1, <3>2
    <2> QED BY <2>1, <2>2, <2>3
  <1>19. ASSUME NEW q \in Process \ threw PROVE Fine(q)'
    <2>1. ProcessExact(q) /\ StopOnce(q) /\ OwnShorts(q) /\ Conserved(q) /\ Starts(q)
      BY <1>1 DEF Fine
    <2>2. ProcessExact(q)'
      <3>1. CASE q = p
        BY <1>17, <3>1
      <3>2. CASE q # p
        <4>1. log'[q] = log[q] /\ valid'[q] = valid[q]
          BY <1>12, <1>13, <3>2
        <4> HIDE DEF l, r, g, B, S
        <4> QED BY <1>6, <2>1, <4>1 DEF ProcessExact
      <3> QED BY <3>1, <3>2
    <2>3. Starts(q)'
      BY <1>4 DEF Starts
    <2>4. sampler'.clients = sampler.clients /\ sampler'.client_pids = sampler.client_pids
      BY <1>4, <1>14
    <2>5. At(<<>>, "STOP") = {} /\ At(<<>>, "START") = {}
      BY EmptyBuffer
    <2>6. q \in sampler.clients /\ (Has(log[q].records, "STOP") \/ phase[q] \notin {"off", "dead"})
            => q \in sampler.client_pids
      BY <2>1 DEF StopOnce
    <2>7. /\ \A i, j \in At(log'[q].records, "STOP") : i = j
          /\ Has(log'[q].records, "STOP") => Has(log[q].records, "STOP") /\ phase[q] \in {"off", "dead"}
          /\ Has(log'[q].records, "START") => Has(log[q].records, "START")
      <3>1. log'[q].records = log[q].records \/ log'[q].records = <<>>
        BY <1>9, <1>12
      <3> QED BY <2>1, <2>5, <3>1 DEF StopOnce, Has
    <2>8. CASE ~c.ok
      <3>1. ~Buffered' /\ pc' = "failed"
        BY <1>4, <2>8 DEF Buffered
      <3>2. StopOnce(q)'
        BY <1>6, <2>4, <2>6, <2>7, <3>1 DEF StopOnce
      <3> QED BY <2>2, <2>3, <3>1, <3>2 DEF Fine, OwnShorts, Conserved
    <2>9. CASE c.ok /\ q # p
      <3>1. \A e : Mine(q, e)' = Mine(q, e)
        BY <1>18, <2>9
      <3>2. log'[q] = log[q] /\ Buffered /\ Buffered' /\ pc' # "failed" /\ pc # "failed"
        BY <1>4, <1>12, <1>18, <2>9
      <3>3. StopOnce(q)'
        BY <1>6, <2>1, <2>4, <3>1, <3>2 DEF StopOnce
      <3>4. OwnIn(B, S, q)
        BY <2>1, <3>2, BufferForms
      <3>5. OwnIn(C, T, q) /\ \A h : /\ BufExit(C, q, h) = BufExit(B, q, h)
                                    /\ BufShort(C, T, q, h) = BufShort(B, S, q, h)
        <4>1. q # p
          BY <2>9
        <4> HIDE DEF B, r, S, g
        <4> QED BY <1>5, <1>8, <3>4, <4>1, JoinOther DEF C, T
      <3>6. OwnShorts(q)'
        BY <1>14, <2>9, <3>5, BufferForms
      <3>7. \A h : Completed(q, h)' = Completed(q, h)
        BY <1>14, <2>9, <3>5, CountForms
      <3>8. \A h : NumExit(q, h)' = NumExit(q, h) /\ NumShort(q, h)' = NumShort(q, h)
        BY <3>2, CountForms
      <3>9. Conserved(q)'
        BY <1>6, <2>1, <3>2, <3>7, <3>8 DEF Conserved
      <3> QED BY <2>2, <2>3, <3>3, <3>6, <3>9 DEF Fine
    <2>10. CASE c.ok /\ q = p
      <3>1. /\ \A e : Mine(p, e) = {} /\ Mine(p, e)' = {Len(B) + i : i \in At(r, e)}
            /\ Buffered /\ Buffered' /\ pc' # "failed" /\ pc # "failed"
        BY <1>4, <1>18, <2>10
      <3>2. Shorts(r, g) /\ Distinct(g) /\ p \notin threw
        BY <1>17, <2>10
      <3>3. p \in sampler.clients
        BY <1>1, <1>3 DEF Order
      <3>4. ~Has(log'[p].records, "STOP") /\ ~Has(log'[p].records, "START")
        BY <1>9, <1>12, <2>5 DEF Has
      <3>5. /\ \A i, j \in At(r, "STOP") : i = j
            /\ Has(r, "STOP") => p \in sampler.client_pids /\ phase[p] \in {"off", "dead"}
        BY <2>1, <2>6, <2>10, <3>3 DEF StopOnce
      <3>6. /\ \A i, j \in Mine(p, "STOP")' : i = j
            /\ Mine(p, "STOP")' # {} => Has(r, "STOP")
        <4>1. Mine(p, "STOP")' = {Len(B) + i : i \in At(r, "STOP")}
          BY <3>1
        <4> QED BY <3>5, <4>1 DEF Has
      <3>7. StopOnce(p)'
        BY <1>6, <2>4, <2>6, <2>7, <2>10, <3>3, <3>4, <3>5, <3>6 DEF StopOnce
      <3>8. /\ OwnIn(C, T, p) /\ \A h : BufShort(C, T, p, h) = ShortCount(g, h)
            /\ \A h : BufExit(C, p, h) = ExitCount(r, h)
        <4>1. \A i \in DOMAIN B : B[i].process # p
          BY <1>7
        <4>2. Shifted(r, b, Len(S))
          BY <1>8, <3>2
        <4> HIDE DEF B, r, S, g
        <4>3. OwnIn(C, T, p) /\ \A h : BufShort(C, T, p, h) = ShortCount(g, h)
          BY <1>5, <1>8, <3>2, <4>1, <4>2, JoinOwnShorts DEF C, T
        <4>4. \A h : BufExit(C, p, h) = ExitCount(r, h)
          BY <1>5, <1>8, <4>1, JoinOwn DEF C
        <4> QED BY <4>3, <4>4
      <3>9. OwnShorts(p)'
        BY <1>14, <2>10, <3>8, BufferForms
      <3>10. Conserved(p)'
        <4> SUFFICES ASSUME NEW h \in Hash
                     PROVE  visits[p][h] = counts[p][h] + NumExit(p, h)' + NumShort(p, h)' + Completed(p, h)'
          BY <1>6, <3>1 DEF Conserved
        <4>1. visits[p][h] = counts[p][h] + NumExit(p, h) + NumShort(p, h) + Completed(p, h)
          BY <2>1, <2>10, <3>1 DEF Conserved
        <4>2. Completed(p, h)' = ExitCount(r, h) + ShortCount(g, h)
          BY <1>14, <2>10, <3>8, CountForms
        <4>3. Completed(p, h) = 0
          <5>1. \A e : Own(B, p, e) = {}
            BY <3>1, BufferForms
          <5>2. BufExit(B, p, h) = 0
            <6>1. {i \in Own(B, p, "EXIT") : B[i].signal = h} = {}
              BY <5>1
            <6> QED BY <6>1, FS_EmptySet DEF BufExit
          <5>3. BufShort(B, S, p, h) = 0
            <6> DEFINE f == [i \in Own(B, p, "SHORT") |-> S[B[i].signal + 1].num_complete]
                       U == {i \in Own(B, p, "SHORT") : S[B[i].signal + 1].hash = h}
            <6>1. U = {}
              BY <5>1
            <6>2. BufShort(B, S, p, h) = SumFunctionOnSet(f, U)
              BY DEF BufShort
            <6> HIDE DEF f, U
            <6> QED BY <6>1, <6>2, SumOfNone
          <5>4. Completed(p, h) = BufExit(B, p, h) + BufShort(B, S, p, h)
            BY CountForms
          <5> QED BY <5>2, <5>3, <5>4
        <4>4. NumExit(p, h) = ExitCount(r, h) /\ NumShort(p, h) = ShortCount(g, h)
          BY CountForms
        <4>5. NumExit(p, h)' = 0 /\ NumShort(p, h)' = 0
          <5>1. NumExit(p, h)' = ExitCount(<<>>, h) /\ NumShort(p, h)' = ShortCount(<<>>, h)
            BY <1>9, <1>12, CountForms
          <5>2. ExitCount(<<>>, h) = 0
            <6>1. {i \in DOMAIN <<>> : (<<>>)[i] = Rec("EXIT", h)} = {}
              OBVIOUS
            <6> QED BY <6>1, FS_EmptySet DEF ExitCount
          <5>3. ShortCount(<<>>, h) = 0
            <6>1. <<>> \in Seq(Region) /\ DOMAIN <<>> = {}
              OBVIOUS
            <6> QED BY <6>1, ShortCountIs
          <5> QED BY <5>1, <5>2, <5>3
        <4>6. ExitCount(r, h) \in Nat /\ ShortCount(g, h) \in Nat /\ counts[p][h] \in Nat
          <5>1. ExitCount(r, h) \in Nat /\ ShortCount(g, h) \in Nat
            BY <1>1, CountsNatural
          <5> QED BY <1>1, <5>1 DEF Types
        <4> HIDE DEF r, g
        <4> QED BY <4>1, <4>2, <4>3, <4>4, <4>5, <4>6
      <3> QED BY <2>2, <2>3, <2>10, <3>7, <3>9, <3>10 DEF Fine
    <2> QED BY <2>8, <2>9, <2>10
  <1>20. Together'
    <2> SUFFICES ASSUME threw = {} PROVE Together'
      BY <1>6 DEF Together
    <2>1. c.ok /\ Shorts(r, g)
      BY <1>17
    <2>2. /\ sampler.client_pids \subseteq sampler.clients /\ Cardinality(Owed) <= sampler.num_registered
          /\ Shorts(B, S)
      BY <1>1, <1>18, <2>1 DEF Together
    <2>3. Shorts(C, T)
      <3>1. Shifted(r, b, Len(S))
        BY <1>8, <2>1
      <3> HIDE DEF B, r, S, g
      <3> QED BY <1>5, <1>8, <2>1, <2>2, <3>1, JoinShorts DEF C, T
    <2>4. ASSUME NEW q \in Owed' PROVE q \in Owed
      <3>1. /\ q \in sampler.client_pids /\ q \in Process
            /\ phase[q] \in {"on", "leaving"} \/ Has(log'[q].records, "STOP") \/ Mine(q, "STOP")' # {}
            /\ ~Has(log'[q].records, "START") /\ Mine(q, "START")' = {}
        <4>1. sampler.client_pids \subseteq Process
          BY <1>1 DEF Types, Sampler
        <4> QED BY <1>6, <1>14, <1>18, <2>1, <4>1 DEF Owed
      <3>2. CASE q # p
        <4>1. log'[q] = log[q] /\ Mine(q, "STOP")' = Mine(q, "STOP") /\ Mine(q, "START")' = Mine(q, "START")
          BY <1>12, <1>18, <2>1, <3>1, <3>2
        <4> QED BY <1>18, <2>1, <3>1, <4>1 DEF Owed
      <3>3. CASE q = p
        <4>1. Mine(p, "START") = {} /\ Mine(p, "STOP") = {}
          BY <1>18, <2>1
        <4>2. /\ Mine(p, "STOP")' = {Len(B) + i : i \in At(r, "STOP")}
              /\ Mine(p, "START")' = {Len(B) + i : i \in At(r, "START")}
          BY <1>18, <2>1
        <4>3. Mine(p, "STOP")' # {} => Has(r, "STOP")
          BY <4>2 DEF Has
        <4>4. Has(r, "START") => Mine(p, "START")' # {}
          BY SMTT(30), <4>2 DEF Has
        <4>5. ~Has(log'[p].records, "STOP")
          BY <1>9, <1>12, EmptyBuffer DEF Has
        <4> QED BY <1>18, <2>1, <3>1, <3>3, <4>1, <4>3, <4>4, <4>5 DEF Owed
      <3> QED BY <3>2, <3>3
    <2>5. Cardinality(Owed') <= Cardinality(Owed) /\ Cardinality(Owed') \in Nat /\ Cardinality(Owed) \in Nat
      <3>1. Owed' \subseteq Owed
        BY <2>4
      <3> QED BY <1>1, <3>1, OwedShrinks
    <2>6. Cardinality(Owed') <= sampler'.num_registered
      <3>1. sampler.num_registered \in Int
        BY <1>1 DEF Types, Sampler
      <3> QED BY <1>14, <2>1, <2>2, <2>5, <3>1
    <2>7. Cardinality(Owed)' <= sampler'.num_registered
      BY <2>6
    <2> QED BY <1>14, <1>18, <2>1, <2>2, <2>3, <2>7 DEF Together
  <1> QED BY <1>6, <1>15, <1>16, <1>19, <1>20 DEF Inv

-----------------------------------------------------------------------------
(* The theorems.                                                           *)

\* Nobody has written or read anything.
LEMMA InitInv ==
    ASSUME Init
    PROVE  Inv
  <1>1. NoEntry \in Entry
    BY DEF NoEntry, Entry
  <1>2. NewLog \in Log /\ NewLog.records = <<>> /\ NewLog.regions = <<>> /\ NewLog.entered = NoHash
        /\ NewLog.epochs = 0 /\ NewLog.enter_map = [h \in Hash |-> NoEntry]
    BY <1>1 DEF NewLog, Log
  <1>3. Len(<<>>) = 0 /\ DOMAIN <<>> = {} /\ <<>> \in Seq(Hash) /\ <<>> \in Seq(BufferRecord) /\ <<>> \in Seq(Region)
    OBVIOUS
  <1>4. Signals(<<>>)
    BY EmptyBuffer
  <1>5. Types
    <2>1. sampler \in Sampler /\ sampler.buffer = <<>>
      BY <1>3 DEF Init, Sampler
    <2>2. log \in [Process -> Log] /\ \A p \in Process : Len(log[p].records) <= MaxRecord /\ Signals(log[p].records)
      BY <1>2, <1>3, <1>4, Constants DEF Init
    <2>3. counts \in [Process -> [Hash -> Nat]] /\ visits \in [Process -> [Hash -> Nat]]
      BY DEF Init
    <2>4. hint_stack \in [Process -> Seq(Hash)] /\ nest \in [Process -> Seq(Hash)]
      BY <1>3 DEF Init
    <2>5. /\ phase \in [Process -> {"new", "registered", "on", "leaving", "off", "dead"}]
          /\ registered \subseteq Process /\ threw \subseteq Process
          /\ current \in [Process -> Hash \cup {Unmarked}] /\ pc = "connect" /\ todo = {} /\ io_pids = {}
          /\ DOMAIN valid = Process
      BY DEF Init
    <2> QED BY <1>4, <2>1, <2>2, <2>3, <2>4, <2>5 DEF Types
  <1>6. Order
    BY <1>3 DEF Init, Order
  <1>7. Together
    <2>1. /\ pc = "connect" /\ sampler.client_pids = {} /\ sampler.clients = {} /\ sampler.num_registered = 0
      BY DEF Init
    <2>2. Owed = {}
      BY <2>1 DEF Owed
    <2>3. Cardinality(Owed) = 0
      BY <2>2, FS_EmptySet
    <2> QED BY <2>1, <2>3 DEF Together, Buffered
  <1>8. ASSUME NEW p \in Process PROVE Fine(p)
    <2>1. /\ phase[p] = "new" /\ pc = "connect" /\ hint_stack[p] = <<>> /\ nest[p] = <<>> /\ current[p] = Unmarked
          /\ log[p] = NewLog /\ valid[p] = [epoch |-> 0, hash |-> NoHash, ok |-> TRUE]
          /\ sampler.clients = {} /\ ~Buffered
      BY DEF Init, Buffered
    <2>2. \A e : ~Has(log[p].records, e) /\ At(log[p].records, e) = {}
      BY <1>2, <2>1, EmptyBuffer DEF Has
    <2>3. LogExact(valid[p], NewLog)
      <3> DEFINE m == CheckReset(NewLog)
      <3>1. /\ m.records = <<>> /\ m.regions = <<>> /\ m.entered = NoHash /\ m.epochs = 0
            /\ \A h \in Hash : m.enter_map[h] = NoEntry
        BY <1>2, ResetShape, Constants
      <3> HIDE DEF m
      <3>2. MapExact(m)
        BY <1>3, <3>1 DEF MapExact, NoRegion
      <3>3. Unfinished(m) = NoHash
        BY <3>1 DEF Unfinished
      <3>4. Checked(valid[p], <<>>).ok /\ Checked(valid[p], <<>>).epoch = 0 /\ Checked(valid[p], <<>>).hash = NoHash
        BY <2>1, CheckedEmpty
      <3>5. Shorts(<<>>, <<>>) /\ Distinct(<<>>)
        BY <1>3, EmptyBuffer DEF Distinct
      <3>6. ResetExact(valid[p], m)
        BY <3>1, <3>2, <3>3, <3>4, <3>5 DEF ResetExact
      <3> QED BY <3>6 DEF LogExact, m
    <2>4. ProcessExact(p)
      BY <1>2, <2>1, <2>3 DEF ProcessExact
    <2>5. StopOnce(p) /\ OwnShorts(p) /\ Starts(p)
      BY <2>1, <2>2 DEF StopOnce, OwnShorts, Starts
    <2>6. Conserved(p)
      <3> SUFFICES ASSUME NEW h \in Hash
                   PROVE  visits[p][h] = counts[p][h] + NumExit(p, h) + NumShort(p, h) + 0
        BY <2>1 DEF Conserved
      <3>1. NumExit(p, h) = ExitCount(<<>>, h) /\ NumShort(p, h) = ShortCount(<<>>, h)
        BY <1>2, <2>1, CountForms
      <3>2. ExitCount(<<>>, h) = 0
        <4>1. {i \in DOMAIN <<>> : (<<>>)[i] = Rec("EXIT", h)} = {}
          OBVIOUS
        <4> QED BY <4>1, FS_EmptySet DEF ExitCount
      <3>3. ShortCount(<<>>, h) = 0
        BY <1>3, ShortCountIs
      <3>4. visits[p][h] = 0 /\ counts[p][h] = 0
        BY DEF Init
      <3> QED BY <3>1, <3>2, <3>3, <3>4
    <2> QED BY <2>4, <2>5, <2>6 DEF Fine
  <1> QED BY <1>5, <1>6, <1>7, <1>8 DEF Inv

\* One step per action.
LEMMA NextInv ==
    ASSUME Inv, [Next]_vars
    PROVE  Inv'
  <1>1. CASE Connect
    BY <1>1, ConnectInv
  <1>2. CASE DumpOne
    BY <1>2, DumpInv
  <1>3. CASE Digest
    BY <1>3, DigestInv
  <1>4. CASE CheckShutdown
    BY <1>4, CheckShutdownInv
  <1>5. CASE \E p \in Process : Application(p)
    <2>1. PICK p \in Process : Application(p)
      BY <1>5
    <2>2. CASE Register(p)
      BY <2>2, RegisterInv
    <2>3. CASE Start(p)
      BY <2>3, StartInv
    <2>4. CASE Exit(p)
      BY <2>4, ExitInv
    <2>5. CASE Epoch(p)
      BY <2>5, EpochInv
    <2>6. CASE \E h \in Hash : Enter(p, h)
      BY <2>6, EnterInv
    <2>7. CASE ThreadInit(p) \/ ThreadPost(p) \/ Forget(p)
      BY <2>7, IdleInv
    <2>8. CASE Unregister(p)
      BY <2>8, UnregisterInv
    <2>9. CASE Shutdown(p)
      BY <2>9, ShutdownInv
    <2>10. CASE Die(p)
      BY <2>10, DieInv
    <2> QED BY <2>1, <2>2, <2>3, <2>4, <2>5, <2>6, <2>7, <2>8, <2>9, <2>10 DEF Application
  <1>6. CASE Finished \/ UNCHANGED vars
    BY <1>6, StutterInv DEF Finished
  <1> QED BY <1>1, <1>2, <1>3, <1>4, <1>5, <1>6 DEF Next, Controller

Locked == locked \subseteq Process

\* Only a process that dies leaves its log locked.
LEMMA LockedTypes ==
    ASSUME Locked, [Next]_vars
    PROVE  Locked'
  <1> USE DEF Locked
  <1>1. CASE Controller
    BY <1>1 DEF Controller, Connect, DumpOne, Digest, CheckShutdown, profVars, appVars
  <1>2. CASE \E p \in Process : Application(p)
    BY <1>2 DEF Application, Register, Start, Enter, Exit, Epoch, ThreadInit, ThreadPost, Unregister, Shutdown,
                Die, Forget, appVars
  <1>3. CASE Finished \/ UNCHANGED vars
    BY <1>3 DEF Finished, vars, profVars, appVars
  <1> QED BY <1>1, <1>2, <1>3 DEF Next

\* The state keeps its types, and a record table is never longer than
\* M_MAX_RECORD: append_record() throws instead.
THEOREM ProfileTypes == Spec => []TypeOK
  <1>1. Inv /\ Locked => TypeOK
    <2> SUFFICES ASSUME Inv, Locked PROVE TypeOK
      OBVIOUS
    <2>1. Types
      BY DEF Inv
    <2>2. \A p \in Process : /\ hint_stack[p] \in Seq(Hash) /\ nest[p] \in Seq(Hash)
                             /\ Len(log[p].records) <= MaxRecord /\ log[p].entered \in Hash \cup {NoHash}
      BY <2>1 DEF Types, Log
    <2>3. sampler.clients \subseteq Process /\ sampler.client_pids \subseteq Process /\ sampler.num_registered \in Int
      BY <2>1 DEF Types, Sampler
    <2> QED BY <2>1, <2>2, <2>3 DEF Types, TypeOK, Locked
  <1>2. Init => Locked
    BY DEF Init, Locked
  <1> QED BY <1>1, <1>2, InitInv, NextInv, LockedTypes, PTL DEF Spec

\* The controller only fails when it found no process at all or a call of some
\* process has thrown: whenever the logs are dumped, what they hold passes
\* ValidateRecord::check(), get_short_region() and update_stop().
THEOREM UpdateNeverThrows == Spec => []ControllerSurvives
  <1>1. Inv => ControllerSurvives
    BY DEF Inv, Together, ControllerSurvives
  <1> QED BY <1>1, InitInv, NextInv, PTL DEF Spec

\* Every visit of an outermost region is in exactly one place: counted by the
\* aggregator, in the log, or in the sampler's buffer, as an exit record or as
\* a completion of a short region.
THEOREM NoVisitLost == Spec => []VisitsConserved
  <1>1. Inv => VisitsConserved
    <2> SUFFICES ASSUME Inv PROVE VisitsConserved
      OBVIOUS
    <2>1. \A p \in Process \ threw : Conserved(p)
      BY DEF Inv, Fine
    <2> QED BY <2>1 DEF Conserved, VisitsConserved, Buffered
  <1> QED BY <1>1, InitInv, NextInv, PTL DEF Spec

\* Once all logs are dumped the short region events of the buffer name the short
\* regions of all processes in order, none of them left out.
THEOREM HandlesInOrder == Spec => []HandlesMatch
  <1>1. Inv => HandlesMatch
    <2> SUFFICES ASSUME Inv, pc = "digest", threw = {}
                 PROVE  LET short == InBuffer("SHORT")
                        IN  /\ Cardinality(short) = Len(sampler.shorts)
                            /\ \A i \in short :
                                 sampler.buffer[i].signal = Cardinality({j \in short : j < i})
      BY DEF HandlesMatch
    <2> DEFINE B == sampler.buffer
               S == sampler.shorts
    <2>1. B \in Seq(BufferRecord) /\ S \in Seq(Region)
      BY DEF Inv, Types, Sampler
    <2>2. Shorts(B, S)
      BY DEF Inv, Together, Buffered
    <2>3. InBuffer("SHORT") = At(B, "SHORT")
      BY BufferForms
    <2> HIDE DEF B, S
    <2>4. /\ \A i \in At(B, "SHORT") : Cardinality({j \in At(B, "SHORT") : j < i}) = B[i].signal
          /\ Cardinality(At(B, "SHORT")) = Len(S)
      BY <2>1, <2>2, ShortsRank
    <2>5. /\ Cardinality(InBuffer("SHORT")) = Len(S)
          /\ \A i \in InBuffer("SHORT") : B[i].signal = Cardinality({j \in InBuffer("SHORT") : j < i})
      BY <2>3, <2>4
    <2> QED BY <2>5 DEF B, S
  <1> QED BY <1>1, InitInv, NextInv, PTL DEF Spec

=============================================================================
