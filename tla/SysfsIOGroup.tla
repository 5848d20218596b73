---------------------------- MODULE SysfsIOGroup ----------------------------
(***************************************************************************)
(* The controls of the SysfsIOGroup, for one cpufreq policy: the lowest    *)
(* and the highest frequency, two files that the kernel keeps ordered, and *)
(* an alias for the second.  write_batch() hands the pending writes to     *)
(* IOUring, which may complete them in any order, and tries the refused    *)
(* ones once more.                                                         *)
(***************************************************************************)
EXTENDS Integers, FiniteSets

CONSTANT Freqs    \* the frequencies, a set of numbers

ASSUME SysfsAssumption == Freqs \subseteq Nat \ {0}

VARIABLES
  attr,        \* the two files
  unreadable,  \* the files whose content parses to no number (NaN)
  entry,       \* m_pushed_info_control: value and do_write, by the name pushed
  batchWrite,  \* m_is_batch_write
  controlSaver,\* m_control_saver: the settings, or Nothing
  unsaved,     \* m_unsaved_controls
  jsonFile,    \* the settings in the file at save_path, or Nothing
  flight,      \* write_batch() in progress: the pass and the writes it submitted
  sysLast,     \* the call that has just ended: "write_batch", "restore", "failed" or ""
  overridden,  \* entries whose file was written otherwise since they wrote it
  skipped      \* names adjusted to what their overridden entry has, since the last write_batch()

sysVars == <<attr, unreadable, entry, batchWrite, controlSaver, unsaved, jsonFile, flight,
             sysLast, overridden, skipped>>

Attrs == {"min", "max"}
Names == Attrs \cup {"alias"}

\* canonical_name()
Canonical(n) == IF n = "alias" THEN "max" ELSE n

NaN == 0
Nothing == <<>>
NoFlight == [pass |-> 0, left |-> {}, failed |-> {}]

\* What the kernel accepts: the lowest frequency stays below the highest.  External.
Accepts(files, a, freq) == IF a = "min" THEN freq <= files["max"] ELSE freq >= files["min"]

\* pwrite() of an attribute, when the kernel accepts it.
Store(files, a, freq) == IF Accepts(files, a, freq) THEN [files EXCEPT ![a] = freq] ELSE files

SysfsInit ==
  /\ attr \in {f \in [Attrs -> Freqs] : f["min"] <= f["max"]}
  /\ unreadable \in {{}, {"min"}}
  /\ entry = [n \in {} |-> NaN]
  /\ batchWrite = FALSE
  /\ controlSaver = Nothing
  /\ unsaved = {}
  /\ jsonFile = Nothing
  /\ flight = NoFlight
  /\ sysLast = ""
  /\ overridden = {}
  /\ skipped = {}

Ready == flight = NoFlight

\* Entries of other names, or written by other means, hold an old value now.
Override(a, by) == overridden' = {n \in Names : Canonical(n) = a /\ n # by} \cup (overridden \ {by})

----------------------------------------------------------------------------
\* push_control(): an entry for the name; its value is NaN until it is adjusted.
SysfsPushControl(n) ==
  /\ Ready /\ ~batchWrite /\ Canonical(n) \notin unsaved
  /\ n \notin DOMAIN entry
  /\ entry' = [m \in DOMAIN entry \cup {n} |->
                 IF m = n THEN [value |-> NaN, doWrite |-> FALSE] ELSE entry[m]]
  /\ sysLast' = "" /\ skipped' = {}
  /\ UNCHANGED <<attr, unreadable, batchWrite, controlSaver, unsaved, jsonFile, flight, overridden>>

\* adjust(): nothing is to be written when the entry has the value already.
SysfsAdjust(n, freq) ==
  /\ Ready /\ n \in DOMAIN entry
  /\ entry' = IF entry[n].value # freq
              THEN [entry EXCEPT ![n] = [value |-> freq, doWrite |-> TRUE]] ELSE entry
  /\ skipped' = IF n \in overridden /\ entry[n].value = freq THEN skipped \cup {n} ELSE skipped \ {n}
  /\ sysLast' = ""
  /\ UNCHANGED <<attr, unreadable, batchWrite, controlSaver, unsaved, jsonFile, flight, overridden>>

\* write_batch(): the first pass submits the writes.
SysfsWriteBatch ==
  /\ Ready
  /\ batchWrite' = TRUE
  /\ flight' = [pass |-> 1, left |-> {n \in DOMAIN entry : entry[n].doWrite}, failed |-> {}]
  /\ sysLast' = ""
  /\ UNCHANGED <<attr, unreadable, entry, controlSaver, unsaved, jsonFile, overridden, skipped>>

\* One of the submitted writes completes.
SysfsWriteDone(n) ==
  /\ n \in flight.left
  /\ LET a == Canonical(n)
     IN  IF Accepts(attr, a, entry[n].value)
         THEN /\ attr' = [attr EXCEPT ![a] = entry[n].value]
              /\ entry' = [entry EXCEPT ![n].doWrite = FALSE]
              /\ flight' = [flight EXCEPT !.left = @ \ {n}]
              /\ Override(a, n)
         ELSE /\ flight' = [flight EXCEPT !.left = @ \ {n}, !.failed = @ \cup {n}]
              /\ UNCHANGED <<attr, entry, overridden>>
  /\ UNCHANGED <<unreadable, batchWrite, controlSaver, unsaved, jsonFile, sysLast, skipped>>

\* (bug) Refused writes are not tried again.
SysfsPassDoneOnce ==
  /\ flight.pass > 0 /\ flight.left = {}
  /\ flight' = NoFlight
  /\ sysLast' = IF flight.failed = {} THEN "write_batch" ELSE "failed"
  /\ skipped' = {}
  /\ UNCHANGED <<attr, unreadable, entry, batchWrite, controlSaver, unsaved, jsonFile, overridden>>

\* write_batch_retry() has all its completions: the refused writes are submitted
\* once more, and the second time it throws.
SysfsPassDone ==
  /\ flight.pass > 0 /\ flight.left = {}
  /\ IF flight.failed # {} /\ flight.pass = 1
     THEN /\ flight' = [pass |-> 2, left |-> flight.failed, failed |-> {}]
          /\ UNCHANGED <<sysLast, skipped>>
     ELSE /\ flight' = NoFlight
          /\ sysLast' = IF flight.failed = {} THEN "write_batch" ELSE "failed"
          /\ skipped' = {}
  /\ UNCHANGED <<attr, unreadable, entry, batchWrite, controlSaver, unsaved, jsonFile, overridden>>

\* write_control(): the file is written at once; the entries do not learn of it.
SysfsWriteControl(n, freq) ==
  LET a == Canonical(n)
  IN  /\ Ready /\ a \notin unsaved /\ Accepts(attr, a, freq)
      /\ attr' = [attr EXCEPT ![a] = freq]
      /\ Override(a, "nobody")
      /\ skipped' = {}
      /\ sysLast' = ""
      /\ UNCHANGED <<unreadable, entry, batchWrite, controlSaver, unsaved, jsonFile, flight>>

----------------------------------------------------------------------------
\* The settings that SaveControl reads, and the controls it could not read.
SettingsNow == [a \in Attrs |-> IF a \in unreadable THEN NaN ELSE attr[a]]
UnsavedIn(settings) == {a \in Attrs : settings[a] = NaN}

\* save_control() and save_control(path): the saver is made by the first of them.
SysfsSave(toFile) ==
  /\ Ready
  /\ controlSaver' = IF controlSaver = Nothing THEN SettingsNow ELSE controlSaver
  /\ unsaved' = IF controlSaver = Nothing THEN UnsavedIn(SettingsNow) ELSE unsaved
  /\ jsonFile' = IF toFile THEN controlSaver' ELSE jsonFile
  /\ sysLast' = "" /\ skipped' = {}
  /\ UNCHANGED <<attr, unreadable, entry, batchWrite, flight, overridden>>

\* SaveControl::restore(): the settings in the order of their names, skipping
\* NaN, each by write_control(), and what failed once more.
Replay(files, settings) ==
  LET put(f, a) == IF settings[a] = NaN THEN f ELSE Store(f, a, settings[a])
      once(f)   == put(put(f, "max"), "min")
  IN  once(once(files))

\* restore_control() and restore_control(path): the saver in memory is used when
\* there is one.
SysfsRestore(fromFile) ==
  LET saver == IF controlSaver = Nothing /\ fromFile THEN jsonFile ELSE controlSaver
  IN  /\ Ready /\ saver # Nothing
      /\ controlSaver' = saver
      /\ unsaved' = IF controlSaver = Nothing THEN UnsavedIn(saver) ELSE unsaved
      /\ attr' = Replay(attr, saver)
      /\ overridden' = Names
      /\ skipped' = {}
      /\ sysLast' = "restore"
      /\ UNCHANGED <<unreadable, entry, batchWrite, jsonFile, flight>>

\* The process ends and another starts: only the files remain.
SysfsRestart ==
  /\ Ready
  /\ entry' = [n \in {} |-> NaN]
  /\ batchWrite' = FALSE
  /\ controlSaver' = Nothing
  /\ unsaved' = {}
  /\ sysLast' = "" /\ overridden' = {} /\ skipped' = {}
  /\ UNCHANGED <<attr, unreadable, jsonFile, flight>>

SysfsNext ==
  \/ \E n \in Names : SysfsPushControl(n) \/ SysfsWriteDone(n)
  \/ \E n \in Names, f \in Freqs : SysfsAdjust(n, f) \/ SysfsWriteControl(n, f)
  \/ SysfsWriteBatch \/ SysfsPassDone
  \/ \E b \in BOOLEAN : SysfsSave(b) \/ SysfsRestore(b)
  \/ SysfsRestart

SysfsSpec == SysfsInit /\ [][SysfsNext]_sysVars

----------------------------------------------------------------------------
(* Properties *)

\* The names of one file were adjusted to one setting.
Agree ==
  \A m, n \in DOMAIN entry :
    Canonical(m) = Canonical(n) /\ entry[m].value # NaN /\ entry[n].value # NaN =>
      entry[m].value = entry[n].value

\* A write_batch() that returns has put every adjusted setting in its file, in
\* whatever order the writes completed, unless the file was written by another
\* name or in another way since; and when it throws, the kernel refuses what is
\* left to write for good: one retry is enough for every order.
BatchReaches ==
  Agree =>
    /\ sysLast = "write_batch" =>
         \A n \in DOMAIN entry \ overridden :
           entry[n].value # NaN => attr[Canonical(n)] = entry[n].value
    /\ sysLast = "failed" =>
         \A n \in DOMAIN entry : entry[n].doWrite => ~Accepts(attr, Canonical(n), entry[n].value)

\* What IOGroup::adjust() promises: the adjustment is written by the next
\* write_batch().
AdjustReaches ==
  [][sysLast' = "write_batch" /\ Agree =>
       \A n \in skipped : attr'[Canonical(n)] = entry[n].value]_sysVars

\* A restore puts back every readable file as it was when the saver was made,
\* from any pair of frequencies: two passes in the order of the names are enough.
SysfsRestoreExact ==
  sysLast = "restore" =>
    \A a \in Attrs : controlSaver[a] # NaN /\ unsaved = {} => attr[a] = controlSaver[a]
=============================================================================
