----------------------------- MODULE PlatformIO -----------------------------
(***************************************************************************)
(* PlatformIOImp over a list of IOGroups, for one name that is a signal    *)
(* and a control, summed over the parts of the board.  PlatformIO chooses  *)
(* an IOGroup for each part it is asked for, combines the parts for a      *)
(* request on the board, and passes the batch, save and restore calls to   *)
(* every IOGroup in turn.                                                  *)
(*                                                                         *)
(* An IOGroup is what PlatformIO sees of it: it reads and writes the parts *)
(* of the platform it has access to, keeps what was pushed and adjusted,   *)
(* refuses a push after its first read_batch(), and any of its batch calls *)
(* may throw.  The batch calls are loops: each IOGroup's turn is a step.   *)
(* A call that throws before it changes anything is no step.               *)
(***************************************************************************)
EXTENDS Integers, Sequences, FiniteSets, SequencesExt

CONSTANTS
  NumGroup,   \* the IOGroups are 1 to NumGroup, in the order they were registered
  Native,     \* the domain that each IOGroup provides the name for
  Parts,      \* domain indices of the parts of the board
  Levels,     \* the settings of a part
  Accesses,   \* "ok", "error" and "unimplemented", or some of them
  MaxThrow    \* bound: batch calls of an IOGroup that throw

ASSUME PioAssumption ==
  /\ NumGroup \in Nat \ {0}
  /\ Native \in [1..NumGroup -> {"board", "part"}]
  /\ Native[NumGroup] = "part"
  /\ IsFiniteSet(Parts) /\ Parts \subseteq Nat /\ Parts # {}
  /\ Levels \subseteq Nat \ {0}
  /\ Accesses \subseteq {"ok", "error", "unimplemented"}
  /\ MaxThrow \in Nat

VARIABLES
  caller,     \* what the object is used for: "batch" or "session"
  access,     \* what read_signal() and write_control() of a group do for a part
  platform,   \* the value of each part
  signal,     \* m_active_signal, m_existing_signal and m_pushed_signal_names
  control,    \* m_active_control and m_existing_control
  signalActive, controlActive, \* m_is_signal_active, m_is_control_active
  doRestore,  \* m_do_restore
  group,      \* what each IOGroup keeps
  turn,       \* the batch call in progress and the IOGroup whose turn it is
  ended,      \* how the last call ended: its name when it returned, "threw", or ""
  wanted,     \* the last setting asked of each part by adjust(), 0 when none is due
  atSave,     \* the platform at the last save in memory and to a directory, if it returned
  throws      \* batch calls that threw

pioVars == <<caller, access, platform, signal, control, signalActive, controlActive, doRestore,
             group, turn, ended, wanted, atSave, throws>>

----------------------------------------------------------------------------
(* Requests and tables *)

Groups == 1..NumGroup

\* The requests: a domain and an index.  The CPU is finer than every native domain.
Board == <<"board", 0>>
Part(p) == <<"part", p>>
Cpu == <<"cpu", 0>>
Requests == {Board, Cpu} \cup {Part(p) : p \in Parts}

\* A table before anything was pushed; index 0 stands for -1.
EmptyTable == [active |-> <<>>, existing |-> [r \in Requests |-> 0], known |-> FALSE, threw |-> FALSE]

\* find_signal_iogroup(), find_control_iogroup(): the IOGroups whose native domain
\* is that of the last one registered; the last one is preferred.
Found == {g \in Groups : Native[g] = Native[NumGroup]}

NoTurn == [call |-> "", at |-> 0, failed |-> FALSE]
Idle == turn = NoTurn

\* The order of a std::set of domain indices.
InOrder == CHOOSE s \in [1..Cardinality(Parts) -> Parts] : \A i, j \in DOMAIN s : i < j => s[i] < s[j]

\* An IOGroup before anything was pushed.
NewGroup == [signals |-> {}, controls |-> {}, active |-> FALSE,
             read |-> [p \in Parts |-> 0], adjusted |-> [p \in Parts |-> 0],
             saved |-> <<>>, file |-> <<>>]

Init ==
  /\ caller \in {"batch", "session"}
  /\ access \in [Groups -> [Parts -> Accesses]]
  /\ \E v \in Levels : platform = [p \in Parts |-> v]
  /\ signal = EmptyTable
  /\ control = EmptyTable
  /\ signalActive = FALSE /\ controlActive = FALSE
  /\ doRestore = FALSE
  /\ group = [g \in Groups |-> NewGroup]
  /\ turn = NoTurn
  /\ ended = ""
  /\ wanted = [p \in Parts |-> 0]
  /\ atSave = [memory |-> <<>>, dir |-> <<>>]
  /\ throws = 0

----------------------------------------------------------------------------
(* push_signal(), push_control() *)

\* A new entry of the table for a request: the IOGroup and the part, or the
\* indices of the operands of a combined signal or control.
Entry(table, r, entry) ==
  [table EXCEPT !.active = Append(@, entry), !.existing[r] = Len(table.active) + 1]

\* push_signal() for a part.  The read that is tried first is left out once the
\* name was pushed; an IOGroup that is active throws.
PushPartSignal(table, p) ==
  LET usable == {g \in Found : table.known \/ access[g][p] # "error"}
      g == Max(usable)
  IN  IF table.threw \/ table.existing[Part(p)] # 0 THEN table
      ELSE IF usable = {} \/ signalActive \/ controlActive THEN [table EXCEPT !.threw = TRUE]
      ELSE IF group[g].active THEN [table EXCEPT !.threw = TRUE]
      ELSE [Entry(table, Part(p), [group |-> g, part |-> p, of |-> <<>>]) EXCEPT !.known = TRUE]

\* push_control() for a part.  The value read is written back first, each time.
PushPartControl(table, p) ==
  LET usable == {g \in Found : access[g][p] # "error"}
      g == Max(usable)
  IN  IF table.threw \/ table.existing[Part(p)] # 0 THEN table
      ELSE IF usable = {} \/ signalActive \/ controlActive THEN [table EXCEPT !.threw = TRUE]
      ELSE IF group[g].active THEN [table EXCEPT !.threw = TRUE]
      ELSE Entry(table, Part(p), [group |-> g, part |-> p, of |-> <<>>])

\* The table after the push of every part, up to one that throws.
PushPartSignals(table) ==
  LET after[n \in 0..Len(InOrder)] == IF n = 0 THEN table ELSE PushPartSignal(after[n - 1], InOrder[n])
  IN after[Len(InOrder)]

PushPartControls(table) ==
  LET after[n \in 0..Len(InOrder)] == IF n = 0 THEN table ELSE PushPartControl(after[n - 1], InOrder[n])
  IN after[Len(InOrder)]

\* push_combined_signal(), push_combined_control(): the operands are in the order
\* of the domain_nested() set.
Combine(table) ==
  Entry(table, Board,
        [group |-> 0, part |-> 0, of |-> [i \in DOMAIN InOrder |-> table.existing[Part(InOrder[i])]]])

\* push_signal_convert_domain(), push_control_convert_domain(): the parts first, up
\* to one that throws.  Nothing is nested in a CPU.
ConvertDomain(table, r, parts) ==
  IF r = Cpu THEN [table EXCEPT !.threw = TRUE]
  ELSE IF parts.threw THEN parts ELSE Combine(parts)

\* The table after the request r, its exception included; native is the table after
\* the push of r itself, parts after the push of all parts.
Pushed(table, r, native, parts) ==
  IF table.existing[r] # 0 THEN table
  ELSE IF signalActive \/ controlActive THEN [table EXCEPT !.threw = TRUE]
  ELSE IF r[1] = "part" THEN native
  ELSE ConvertDomain(table, r, parts)

\* The parts that an IOGroup was asked for.
PartsOf(table, g) == {table.active[i].part : i \in {j \in DOMAIN table.active : table.active[j].group = g}}

PushSignal(r) ==
  LET table == Pushed(signal, r, PushPartSignal(signal, r[2]), PushPartSignals(signal))
  IN  /\ Idle
      /\ table # signal
      /\ signal' = [table EXCEPT !.threw = FALSE]
      /\ group' = [g \in Groups |-> [group[g] EXCEPT !.signals = PartsOf(table, g)]]
      /\ ended' = IF table.threw THEN "threw" ELSE "push"
      /\ UNCHANGED <<caller, access, platform, control, signalActive, controlActive, doRestore,
                     turn, wanted, atSave, throws>>

PushControl(r) ==
  LET table == Pushed(control, r, PushPartControl(control, r[2]), PushPartControls(control))
  IN  /\ Idle
      /\ table # control
      /\ control' = [table EXCEPT !.threw = FALSE]
      /\ group' = [g \in Groups |-> [group[g] EXCEPT !.controls = PartsOf(table, g)]]
      /\ ended' = IF table.threw THEN "threw" ELSE "push"
      /\ UNCHANGED <<caller, access, platform, signal, signalActive, controlActive, doRestore,
                     turn, wanted, atSave, throws>>

----------------------------------------------------------------------------
(* sample(), adjust() and the calls without a push *)

\* sample() of a native signal, and sample_combined().
SamplePart(i) == group[signal.active[i].group].read[signal.active[i].part]
Sample(i) ==
  IF signal.active[i].group # 0 THEN SamplePart(i)
  ELSE FoldSet(LAMBDA j, sum : sum + SamplePart(signal.active[i].of[j]), 0, DOMAIN signal.active[i].of)

\* (bug) Every operand gets the whole setting.
ShareWhole(setting, count) == setting

\* The share of each operand: CombinedControl's factor, and the division in
\* write_control_convert_domain().
Share(setting, count) == setting \div count

\* The settings that adjust() gives to IOGroups, by index of a native control.
AdjustedBy(i, setting) ==
  LET entry == control.active[i]
  IN  IF entry.group # 0 THEN {<<i, setting>>}
      ELSE {<<entry.of[j], Share(setting, Len(entry.of))>> : j \in DOMAIN entry.of}

Adjust(i, setting) ==
  /\ Idle
  /\ i \in DOMAIN control.active
  /\ LET given == {<<control.active[a[1]].group, control.active[a[1]].part, a[2]>> :
                     a \in AdjustedBy(i, setting)}
     IN  group' = [g \in Groups |-> [group[g] EXCEPT !.adjusted = [p \in Parts |->
           IF \E a \in given : a[1] = g /\ a[2] = p
           THEN (CHOOSE a \in given : a[1] = g /\ a[2] = p)[3]
           ELSE @[p]]]]
  /\ controlActive' = TRUE
  /\ wanted' = [p \in Parts |->
       IF i = control.existing[Part(p)] THEN setting
       ELSE IF i = control.existing[Board] THEN setting \div Cardinality(Parts) ELSE wanted[p]]
  /\ ended' = ""
  /\ UNCHANGED <<caller, access, platform, signal, control, signalActive, doRestore, turn, atSave, throws>>

\* write_control(): the preferred IOGroup that accepts the part; for the board each
\* part gets its share, until one throws.
WriteControl(r, setting) ==
  LET writable == {p \in Parts : \E g \in Found : access[g][p] = "ok"}
      ps == IF r = Board THEN Parts ELSE {r[2]}
      each == Share(setting, Cardinality(ps))
      reached == {p \in ps : \A q \in ps : q <= p => q \in writable}
  IN  /\ Idle
      /\ r # Cpu
      /\ platform' = [p \in Parts |-> IF p \in reached THEN each ELSE platform[p]]
      /\ wanted' = [p \in Parts |-> IF p \in reached THEN 0 ELSE wanted[p]]
      /\ ended' = IF reached = ps THEN "" ELSE "threw"
      /\ UNCHANGED <<caller, access, signal, control, signalActive, controlActive, doRestore, group,
                     turn, atSave, throws>>

(* The loops over the IOGroups *)

\* restore_control() begins with the IOGroup registered last, the others with the first.
FirstOf(call) == IF call = "restore" THEN NumGroup ELSE 1
LastOf(call)  == IF call = "restore" THEN 1 ELSE NumGroup
After(call, g) == IF call = "restore" THEN g - 1 ELSE g + 1

\* The call begins.  restore_control() is refused before the first save_control(),
\* which sets m_do_restore before any IOGroup has saved.
Begin(call) ==
  /\ Idle
  /\ call = "restore" => doRestore
  /\ turn' = [call |-> call, at |-> FirstOf(call), failed |-> FALSE]
  /\ doRestore' = (doRestore \/ call = "save")
  /\ ended' = ""
  /\ UNCHANGED <<caller, access, platform, signal, control, signalActive, controlActive, group,
                 wanted, atSave, throws>>

\* The next IOGroup's turn, or the end of the call.
Advance ==
  IF turn.at # LastOf(turn.call)
  THEN /\ turn' = [turn EXCEPT !.at = After(turn.call, turn.at)]
       /\ UNCHANGED ended
  ELSE /\ turn' = NoTurn
       /\ ended' = IF turn.failed THEN "threw" ELSE turn.call

Turn(call) == turn.call = call
LastTurn == turn.at = LastOf(turn.call)

\* The parts that an IOGroup can read and write.
Reach(g) == {p \in Parts : access[g][p] # "error"}

\* IOGroup::read_batch(): fails when a part that was pushed cannot be read.
ReadTurn ==
  LET g == turn.at
  IN  /\ Turn("read") /\ group[g].signals \subseteq Reach(g)
      /\ group' = [group EXCEPT ![g].active = TRUE, ![g].read =
                     [p \in Parts |-> IF p \in group[g].signals THEN platform[p] ELSE @[p]]]
      /\ signalActive' = (signalActive \/ LastTurn)
      /\ Advance
      /\ UNCHANGED <<caller, access, platform, signal, control, controlActive, doRestore, wanted,
                     atSave, throws>>

\* IOGroup::write_batch(): what was adjusted is written, and is not due any more.
WriteTurn ==
  LET g == turn.at
  IN  /\ Turn("write")
      /\ platform' = [p \in Parts |-> IF group[g].adjusted[p] # 0 THEN group[g].adjusted[p] ELSE platform[p]]
      /\ group' = [group EXCEPT ![g].adjusted = [p \in Parts |-> 0]]
      /\ wanted' = IF LastTurn THEN [p \in Parts |-> 0] ELSE wanted
      /\ Advance
      /\ UNCHANGED <<caller, access, signal, control, signalActive, controlActive, doRestore, atSave, throws>>

\* IOGroup::save_control() and save_control(path).
SaveTurn ==
  LET g == turn.at
      now == [p \in Reach(g) |-> platform[p]]
  IN  /\ Turn("save") \/ Turn("saveDir")
      /\ group' = IF Turn("save") THEN [group EXCEPT ![g].saved = now] ELSE [group EXCEPT ![g].file = now]
      /\ atSave' = IF ~LastTurn THEN atSave
                   ELSE IF Turn("save") THEN [atSave EXCEPT !.memory = platform]
                   ELSE [atSave EXCEPT !.dir = platform]
      /\ Advance
      /\ UNCHANGED <<caller, access, platform, signal, control, signalActive, controlActive, doRestore,
                     wanted, throws>>

\* The platform after an IOGroup put back what it recorded.
PutBack(g, recorded) == [p \in Parts |-> IF p \in DOMAIN recorded THEN recorded[p] ELSE platform[p]]

\* IOGroup::restore_control() and restore_control(path).  An IOGroup that has
\* recorded nothing leaves its controls alone or, like the MSRIOGroup, clears them;
\* without its file it throws.
RestoreTurn ==
  LET g == turn.at
  IN  /\ \/ /\ Turn("restore") /\ group[g].saved # <<>>
            /\ platform' = PutBack(g, group[g].saved)
         \/ /\ Turn("restore") /\ group[g].saved = <<>>
            /\ platform' \in {platform, PutBack(g, [p \in Reach(g) |-> 0])}
         \/ /\ Turn("restoreDir") /\ group[g].file # <<>>
            /\ platform' = PutBack(g, group[g].file)
      /\ wanted' = [p \in Parts |-> 0]
      /\ Advance
      /\ UNCHANGED <<caller, access, signal, control, signalActive, controlActive, doRestore, group,
                     atSave, throws>>

\* The exception of an IOGroup ends the call, except in restore_control(dir), which
\* goes on with the next IOGroup and throws at the end.  A write_batch() that
\* throws may have written some of its settings.
Throws ==
  /\ ~Idle
  /\ LET g == turn.at
     IN  /\ \/ throws < MaxThrow /\ throws' = throws + 1
            \/ /\ \/ Turn("read") /\ ~(group[g].signals \subseteq Reach(g))
                  \/ Turn("restoreDir") /\ group[g].file = <<>>
               /\ UNCHANGED throws
         /\ IF Turn("write")
            THEN \E some \in SUBSET {p \in Parts : group[g].adjusted[p] # 0} :
                   platform' = [p \in Parts |-> IF p \in some THEN group[g].adjusted[p] ELSE platform[p]]
            ELSE UNCHANGED platform
  /\ IF Turn("restoreDir") /\ ~LastTurn
     THEN /\ turn' = [turn EXCEPT !.at = After(turn.call, turn.at), !.failed = TRUE]
          /\ UNCHANGED ended
     ELSE turn' = NoTurn /\ ended' = "threw"
  /\ atSave' = IF Turn("save") THEN [atSave EXCEPT !.memory = <<>>]
               ELSE IF Turn("saveDir") THEN [atSave EXCEPT !.dir = <<>>] ELSE atSave
  /\ UNCHANGED <<caller, access, signal, control, signalActive, controlActive, doRestore, group,
                 wanted>>

\* An agent pushes, adjusts and works with batches.  The Controller around it, with
\* saves in memory, and geopmd, with saves to a directory, write single controls.
Calls(use) == IF use = "batch" THEN {"read", "write"} ELSE {"save", "restore", "saveDir", "restoreDir"}

Next ==
  \/ \E r \in Requests : caller = "batch" /\ (PushSignal(r) \/ PushControl(r))
  \/ \E r \in Requests, s \in Levels :
       caller = "session" /\ WriteControl(r, s * (IF r = Board THEN Cardinality(Parts) ELSE 1))
  \/ \E i \in DOMAIN control.active, s \in Levels :
       Adjust(i, s * (IF control.active[i].group = 0 THEN Cardinality(Parts) ELSE 1))
  \/ \E c \in Calls(caller) : Begin(c)
  \/ ReadTurn \/ WriteTurn \/ SaveTurn \/ RestoreTurn \/ Throws

Spec == Init /\ [][Next]_pioVars

----------------------------------------------------------------------------
(* Properties *)

\* Every index handed out keeps naming its request, whatever pushes failed before
\* and between (PlatformIO.hpp: the index is repeated for each unique tuple): the
\* index of a part names an entry for that part in an IOGroup that was asked for
\* it, the index of the board one whose operands are the indices of all the parts,
\* each older than itself, and no two requests share one.
IndicesNameRequests ==
  LET Names(table, keeps(_)) ==
        LET index(r) == table.existing[r]
            entry(r) == table.active[index(r)]
        IN  /\ \A p \in Parts : index(Part(p)) # 0 =>
                 entry(Part(p)).part = p /\ p \in keeps(entry(Part(p)).group)
            /\ index(Board) # 0 =>
                 /\ entry(Board).group = 0
                 /\ Range(entry(Board).of) = {index(Part(p)) : p \in Parts}
                 /\ \A i \in Range(entry(Board).of) : i \in 1..(index(Board) - 1)
            /\ \A r, s \in Requests : r # s /\ index(r) # 0 => index(r) # index(s)
  IN  /\ Names(signal, LAMBDA g : group[g].signals)
      /\ Names(control, LAMBDA g : group[g].controls)

\* A write_batch() that returns leaves every part that was adjusted since the last
\* one at the setting asked for last, be it for the part or as its share of the
\* board, also when earlier batches threw midway.
SettingsReach ==
  [][ended' = "write" /\ ended = "" => \A p \in Parts : wanted[p] # 0 => platform'[p] = wanted[p]]_pioVars

\* A restore that returns has put back every part that some IOGroup can write as it
\* was when the save returned, in memory and through the directory.
RestoreReturns ==
  LET writable == UNION {Reach(g) : g \in Groups}
      back(then) == then # <<>> => \A p \in writable : platform[p] = then[p]
  IN  /\ ended = "restore" => back(atSave.memory)
      /\ ended = "restoreDir" => back(atSave.dir)

\* What push_signal() tries a read for, "to ensure batch reads will succeed": a
\* signal is pushed to an IOGroup only when that IOGroup can read it.
PushedReadable == \A g \in Groups : group[g].signals \subseteq Reach(g)

\* What restore_control() throws for when it is "called prior to save_control()":
\* until a save has returned, a restore changes nothing.
RestoreNeedsSave ==
  [][turn.call = "restore" /\ atSave.memory = <<>> => UNCHANGED platform]_pioVars
=============================================================================
