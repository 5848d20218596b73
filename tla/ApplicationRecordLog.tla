------------------------ MODULE ApplicationRecordLog ------------------------
(***************************************************************************)
(* The shared memory record log that carries the events of one profiled    *)
(* process from its Profile object to the ApplicationSampler               *)
(* (libgeopm/src/ApplicationRecordLog.cpp).  Every method holds the mutex  *)
(* in the shared memory from its first line to its last, so each is one    *)
(* function from a log to a log.  A log is a record with the fields        *)
(*   records   record_table[0 .. num_record - 1], a sequence               *)
(*   regions   region_table[0 .. num_region - 1], a sequence               *)
(*   enter_map m_hash_region_enter_map, NoEntry for an absent hash         *)
(*   entered   m_entered_region_hash                                       *)
(*   epochs    m_epoch_count                                               *)
(*   overrun   an index past the end of one of the two tables was written  *)
(* The first two fields are in the shared memory, the others are private   *)
(* to the writer: dump() is called by the reader and leaves them alone.    *)
(* Time stamps are left out.  An index of the C++ arrays is kept as it is, *)
(* so the element it names in a sequence is one further.                   *)
(***************************************************************************)
EXTENDS Integers, Sequences, SequencesExt

CONSTANTS Hash,       \* the region hashes
          NoHash,     \* GEOPM_REGION_HASH_INVALID
          MaxRecord   \* M_MAX_RECORD, 1024 in the code

ASSUME LogAssumption == NoHash \notin Hash /\ MaxRecord \in Nat \ {0}

\* M_MAX_REGION
MaxRegion == MaxRecord + 1

Event == {"ENTRY", "EXIT", "EPOCH", "SHORT", "AFFINITY", "START", "STOP", "OVERHEAD"}

NoEntry == [record_idx |-> -2, region_idx |-> -2, is_short |-> FALSE]

NewLog == [records |-> <<>>, regions |-> <<>>,
           enter_map |-> [h \in Hash |-> NoEntry],
           entered |-> NoHash, epochs |-> 0, overrun |-> FALSE]

Rec(event, signal) == [event |-> event, signal |-> signal]

\* The condition under which append_record() throws.
IsFull(log) == Len(log.records) >= MaxRecord

\* append_record(): the table is left as it is when it throws.
AppendRecord(log, rec) ==
    IF IsFull(log) THEN log ELSE [log EXCEPT !.records = Append(@, rec)]

\* (bug) every entry is dropped when the reader has emptied the table
CheckResetClearsAll(log) ==
    IF log.records # <<>> THEN log
    ELSE [log EXCEPT !.enter_map = [h \in Hash |-> NoEntry]]

\* check_reset(): the reader has emptied the table since the last call.  Only
\* the region the process is in survives, and only when it was seen short.
CheckReset(log) ==
    IF log.records # <<>> THEN log
    ELSE [log EXCEPT !.enter_map =
             [h \in Hash |->
                IF h = log.entered /\ log.enter_map[h].is_short
                THEN [record_idx |-> -1, region_idx |-> -1, is_short |-> TRUE]
                ELSE NoEntry]]

-----------------------------------------------------------------------------
EnterThrows(log, h) == LET l == CheckReset(log)
                       IN l.enter_map[h] = NoEntry /\ IsFull(l)

\* enter(): the entry is in the map before append_record() may throw, and
\* m_entered_region_hash is only assigned after it.
LogEnter(log, h) ==
    LET l == CheckReset(log)
        new == [record_idx |-> Len(l.records), region_idx |-> -1, is_short |-> FALSE]
        marked == [l EXCEPT !.enter_map[h] = new]
    IN  IF l.enter_map[h] # NoEntry THEN [l EXCEPT !.entered = h]
        ELSE IF IsFull(l) THEN marked
        ELSE [AppendRecord(marked, Rec("ENTRY", h)) EXCEPT !.entered = h]

ExitThrows(log, h) == LET l == CheckReset(log)
                      IN l.enter_map[h].record_idx < 0 /\ IsFull(l)

\* The first exit of a region since the last dump: a new short region, and the
\* entry record turned into the short region record.  record_idx is only out of
\* the table after an enter() that threw; the write then lands beyond it.
ConvertToShort(log, h) ==
    LET e == log.enter_map[h]
        at == e.record_idx + 1
        in_table == at <= Len(log.records)
    IN  [log EXCEPT
          !.enter_map[h].region_idx = Len(log.regions),
          !.regions = Append(@, [hash |-> h, num_complete |-> 0]),
          !.records = IF in_table THEN [@ EXCEPT ![at] = Rec("SHORT", Len(log.regions))] ELSE @,
          !.overrun = @ \/ ~in_table \/ Len(log.regions) >= MaxRegion]

\* (bug) the short region is not counted when it is new
LogExitMissesFirst(log, h) ==
    LET l == CheckReset(log)
        short == [l EXCEPT !.enter_map[h].is_short = TRUE]
        listed == IF l.enter_map[h].record_idx = -1
                  THEN [AppendRecord(short, Rec("ENTRY", h))
                          EXCEPT !.enter_map[h].record_idx = Len(l.records)]
                  ELSE short
    IN  IF l.enter_map[h] = NoEntry
        THEN IF IsFull(l) THEN l
             ELSE [AppendRecord(l, Rec("EXIT", h)) EXCEPT !.entered = NoHash]
        ELSE IF ExitThrows(log, h) THEN listed
        ELSE IF listed.enter_map[h].region_idx = -1
        THEN [ConvertToShort(listed, h) EXCEPT !.entered = NoHash]
        ELSE [listed EXCEPT !.regions[listed.enter_map[h].region_idx + 1].num_complete = @ + 1,
                            !.entered = NoHash]

\* exit(): an exit record when the region's entry is not in the table any more,
\* otherwise one more completion of the region's short region.
LogExit(log, h) ==
    LET l == CheckReset(log)
        short == [l EXCEPT !.enter_map[h].is_short = TRUE]
        listed == IF l.enter_map[h].record_idx = -1
                  THEN [AppendRecord(short, Rec("ENTRY", h))
                          EXCEPT !.enter_map[h].record_idx = Len(l.records)]
                  ELSE short
        counted == IF listed.enter_map[h].region_idx = -1
                   THEN ConvertToShort(listed, h) ELSE listed
    IN  IF l.enter_map[h] = NoEntry
        THEN IF IsFull(l) THEN l
             ELSE [AppendRecord(l, Rec("EXIT", h)) EXCEPT !.entered = NoHash]
        ELSE IF ExitThrows(log, h) THEN listed
        ELSE [counted EXCEPT !.regions[counted.enter_map[h].region_idx + 1].num_complete = @ + 1,
                             !.entered = NoHash]

\* epoch(): the counter has moved when append_record() throws.
LogEpoch(log) ==
    LET l == [CheckReset(log) EXCEPT !.epochs = @ + 1]
    IN  AppendRecord(l, Rec("EPOCH", l.epochs))

\* affinity(), start_profile(), stop_profile() and overhead().
LogMark(log, event) == AppendRecord(CheckReset(log), Rec(event, 0))

MarkThrows(log) == IsFull(log)

\* dump() leaves both tables empty for the writer.
Dumped(log) == [log EXCEPT !.records = <<>>, !.regions = <<>>]

=============================================================================
