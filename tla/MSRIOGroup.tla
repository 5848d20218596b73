----------------------------- MODULE MSRIOGroup -----------------------------
(***************************************************************************)
(* The controls of the MSRIOGroup: the fields of one package's            *)
(* PKG_POWER_LIMIT register, written through the batch of MSRIO (adjust,   *)
(* then read-modify-write of whole registers), by direct read-modify-write *)
(* (write_control), and by the two ways of saving and restoring: in memory *)
(* with a batch context of its own, and through a file of settings that    *)
(* SaveControl replays as calls of write_control.                          *)
(*                                                                         *)
(* One CPU stands for its package: every CPU of a DomainControl reads and  *)
(* writes the same register.  Each read and each write of the register is  *)
(* a step, between which another program may write the ForeignFields, and  *)
(* each may fail.  A call that throws before it changes anything (a name   *)
(* or an index that is out of range, a push after the first batch, a value *)
(* that cannot be encoded) is no step.                                     *)
(***************************************************************************)
EXTENDS Integers, Sequences, SequencesExt

CONSTANTS
  PowerUnit,     \* watts per unit of the power limit's field
  PowerCodes,    \* number of codes of the power limit's field, a power of 2
  PowerSettings, \* the limits the callers set, in watts
  TimeSettings,  \* the time windows they set, in quarters of a time unit
  ForeignFields, \* the fields that other programs write too
  EnableSettings,\* what they set the enable bit to, besides what a limit sets
  MaxFailures    \* bound: accesses of the register that fail

ASSUME MSRAssumption ==
  /\ PowerUnit \in Nat \ {0}
  /\ PowerCodes \in Nat \ {0}
  /\ PowerSettings \subseteq Nat
  /\ TimeSettings \subseteq Nat \ {0}
  /\ ForeignFields \subseteq {"EN", "PL", "TW"}
  /\ EnableSettings \subseteq {0, 1}
  /\ MaxFailures \in Nat

VARIABLES
  msr,       \* the register: the code in each of its fields
  lockBit,   \* its LOCK bit, set until the next reset: no write takes effect
  saver,     \* the way of saving that this process uses: "memory" or "file"
  ctx,       \* batch contexts: 0 for push and adjust, 1 for save and restore
  pushed,    \* the fields in m_control_pushed
  msrActive, \* m_is_active
  memory,    \* m_saved_msr_value of each field's control, or Unsaved
  file,      \* the settings in the file of save_control(path), or Unsaved
  call,      \* the call in progress
  msrLast,   \* the call that has just succeeded, "" otherwise
  raced,     \* another program wrote the register during restore_control(path)
  failures,  \* accesses that failed
  torn       \* a context's write pass failed and its batch was not finished

msrVars == <<msr, lockBit, saver, ctx, pushed, msrActive, memory, file, call,
             msrLast, raced, failures, torn>>

----------------------------------------------------------------------------
(* Fields.  EN is PL1_LIMIT_ENABLE (function LOGIC), PL is PL1_POWER_LIMIT  *)
(* (SCALE), TW is PL1_TIME_WINDOW (7_BIT_FLOAT).                            *)

Fields == {"EN", "PL", "TW"}

\* Control names in the order of m_control_available, a std::map.
FieldOrder == <<"EN", "PL", "TW">>

Settings(f) == IF f = "PL" THEN PowerSettings ELSE IF f = "TW" THEN TimeSettings ELSE EnableSettings

Log2(n) == CHOOSE y \in 0..31 : 2^y <= n /\ n < 2^(y + 1)

\* MSRFieldControl::encode(): the code of a setting, cut to the field's width.
Encode(f, setting) ==
  CASE f = "PL" -> (setting \div PowerUnit) % PowerCodes
    [] f = "EN" -> IF setting # 0 THEN 1 ELSE 0
    [] f = "TW" -> LET y == Log2(setting \div 4)
                       z == setting \div 2^y - 4
                   IN  y + 32 * z

\* MSRFieldSignal::convert_raw_value(): the setting that a code stands for.
Decode(f, code) ==
  CASE f = "PL" -> code * PowerUnit
    [] f = "EN" -> code
    [] f = "TW" -> 2^(code % 32) * (4 + code \div 32)

Codes(f) ==
  CASE f = "PL" -> 0..PowerCodes - 1
    [] f = "EN" -> {0, 1}
    [] f = "TW" -> {Encode(f, s) : s \in TimeSettings}

Registers == [EN : Codes("EN"), PL : Codes("PL"), TW : Codes("TW")]

\* The register with the masked fields replaced.
Modify(reg, mask, val) == [f \in Fields |-> IF f \in mask THEN val[f] ELSE reg[f]]

----------------------------------------------------------------------------
(* State *)

\* Nothing was saved: PlatformIO calls no restore then.
Unsaved == <<>>

Idle == [op |-> "idle", attempt |-> 0, todo |-> <<>>, failed |-> <<>>, work |-> <<>>,
         pass |-> 0, buf |-> [f \in Fields |-> 0]]

Blank == [f \in Fields |-> 0]

\* A context with nothing adjusted.  The data that its operations hold is read
\* again before it is used.
NoBatch == [isrd |-> TRUE, data |-> Blank, mask |-> {}, val |-> Blank]

MSRInit ==
  /\ msr \in {r \in Registers : r.TW = Min(Codes("TW")) /\ (r.EN = 1 => r.PL # 0)}
  /\ lockBit \in BOOLEAN
  /\ saver \in {"memory", "file"}
  /\ ctx = [c \in 0..1 |-> NoBatch]
  /\ pushed = {}
  /\ msrActive = FALSE
  /\ memory = Unsaved
  /\ file = Unsaved
  /\ call = Idle
  /\ msrLast = ""
  /\ raced = FALSE
  /\ failures = 0
  /\ torn = {}

\* Start of a call of the IOGroup's interface.
Begin(c) == call = Idle /\ call' = c /\ msrLast' = "" /\ raced' = FALSE

\* End of the call: what it did is recorded when it did not throw.
Return(ok) ==
  /\ call' = Idle
  /\ msrLast' = IF ok THEN call.op ELSE ""
  /\ raced' = (ok /\ raced)

\* check_control() and check_control_lock(): a power limit is refused under the
\* lock bit.  The bit is looked at until it was seen clear once; it stays clear.
CheckControl(f) == f = "PL" => ~lockBit

\* The register takes a write, or the access fails.
Written(reg) == ~lockBit /\ msr' = reg
Fails == \/ lockBit /\ UNCHANGED failures
         \/ failures < MaxFailures /\ failures' = failures + 1

----------------------------------------------------------------------------
(* The batch *)

\* push_control(): a power limit brings its enable bit with it.
PushControl(f) ==
  /\ call = Idle /\ ~msrActive
  /\ CheckControl(f)
  /\ pushed' = pushed \cup {f} \cup (IF f = "PL" THEN {"EN"} ELSE {})
  /\ msrLast' = ""
  /\ UNCHANGED <<msr, lockBit, saver, ctx, msrActive, memory, file, call, raced, failures, torn>>

\* adjust() of a pushed control: MSRIO::adjust() widens the mask, and a power
\* limit adjusts its enable bit first.
Adjust(f, setting) ==
  /\ call = Idle /\ f \in pushed
  /\ LET limit  == f = "PL"
         mask   == ctx[0].mask \cup {f} \cup (IF limit THEN {"EN"} ELSE {})
         enable == IF limit THEN Encode("EN", setting) ELSE ctx[0].val["EN"]
     IN  ctx' = [ctx EXCEPT ![0].mask = mask,
                            ![0].val = [[@ EXCEPT !["EN"] = enable] EXCEPT ![f] = Encode(f, setting)]]
  /\ msrLast' = ""
  /\ UNCHANGED <<msr, lockBit, saver, pushed, msrActive, memory, file, call, raced, failures, torn>>

\* read_batch() and, with nothing pushed, write_batch(): only the flag changes.
Activate ==
  /\ call = Idle /\ ~msrActive
  /\ msrActive' = TRUE
  /\ msrLast' = ""
  /\ UNCHANGED <<msr, lockBit, saver, ctx, pushed, memory, file, call, raced, failures, torn>>

\* write_batch() of the IOGroup, with a pushed control.
WriteBatch ==
  /\ pushed # {}
  /\ Begin([Idle EXCEPT !.op = "write_batch"])
  /\ UNCHANGED <<msr, lockBit, saver, ctx, pushed, msrActive, memory, file, failures, torn>>

\* restore_control(): every control adjusts the second context to its saved value.
RestoreControl ==
  /\ memory # Unsaved
  /\ Begin([Idle EXCEPT !.op = "restore_control"])
  /\ ctx' = [ctx EXCEPT ![1].mask = Fields, ![1].val = memory]
  /\ UNCHANGED <<msr, lockBit, saver, pushed, msrActive, memory, file, failures, torn>>

Context == IF call.op = "restore_control" THEN 1 ELSE 0
InBatch == call.op \in {"write_batch", "restore_control"}

\* msr_ioctl_write() and msr_rmw_files(), first pass: the operations read the
\* register (or write it, where a failed call left isrdmsr clear), and the
\* data they hold is modified with the mask.
FirstPass ==
  /\ InBatch /\ call.pass = 0
  /\ LET c    == ctx[Context]
         data == IF c.isrd THEN msr ELSE c.data
     IN  /\ IF c.isrd THEN UNCHANGED msr ELSE Written(c.data)
         /\ ctx' = [ctx EXCEPT ![Context].isrd = FALSE,
                               ![Context].data = Modify(data, c.mask, c.val)]
  /\ call' = [call EXCEPT !.pass = 1]
  /\ UNCHANGED <<lockBit, saver, pushed, msrActive, memory, file, msrLast, raced, failures, torn>>

\* (bug) The operations are not set to read again.
SecondPassKeepsData ==
  /\ InBatch /\ call.pass = 1
  /\ Written(ctx[Context].data)
  /\ ctx' = [ctx EXCEPT ![Context] = [ctx[Context] EXCEPT !.mask = {}, !.val = Blank]]
  /\ msrActive' = (msrActive \/ call.op = "write_batch")
  /\ torn' = torn \ {Context}
  /\ Return(TRUE)
  /\ UNCHANGED <<lockBit, saver, pushed, memory, file, failures>>

\* Second pass: the operations write; the masks and values are cleared and the
\* operations read again at the next call.
SecondPass ==
  /\ InBatch /\ call.pass = 1
  /\ Written(ctx[Context].data)
  /\ ctx' = [ctx EXCEPT ![Context] = NoBatch]
  /\ msrActive' = (msrActive \/ call.op = "write_batch")
  /\ torn' = torn \ {Context}
  /\ Return(TRUE)
  /\ UNCHANGED <<lockBit, saver, pushed, memory, file, failures>>

\* A pass throws.  A write that failed may have reached the register.
PassFails ==
  /\ InBatch /\ Fails
  /\ LET writing == ~ctx[Context].isrd
     IN  /\ \/ UNCHANGED msr
            \/ writing /\ Written(ctx[Context].data)
         /\ torn' = IF writing THEN torn \cup {Context} ELSE torn
  /\ Return(FALSE)
  /\ UNCHANGED <<lockBit, saver, ctx, pushed, msrActive, memory, file>>

----------------------------------------------------------------------------
(* Direct writes: MSRIO::write_msr() for each field in turn *)

\* The fields that write_control() writes: a power limit's enable bit first.
WorkOf(f, setting) ==
  (IF f = "PL" THEN << <<"EN", Encode("EN", setting)>> >> ELSE <<>>)
    \o << <<f, Encode(f, setting)>> >>

WriteControl(f, setting) ==
  /\ Begin([Idle EXCEPT !.op = "write_control", !.attempt = 1, !.work = WorkOf(f, setting)])
  /\ CheckControl(f)
  /\ UNCHANGED <<msr, lockBit, saver, ctx, pushed, msrActive, memory, file, failures, torn>>

\* write_msr() reads the register ...
ReadMSR ==
  /\ call.work # <<>> /\ call.pass = 0
  /\ call' = [call EXCEPT !.pass = 1, !.buf = msr]
  /\ UNCHANGED <<msr, lockBit, saver, ctx, pushed, msrActive, memory, file, msrLast, raced, failures, torn>>

\* ... and writes it back with the field replaced.
WriteMSR ==
  /\ call.work # <<>> /\ call.pass = 1
  /\ LET item == Head(call.work)
     IN  Written([call.buf EXCEPT ![item[1]] = item[2]])
  /\ IF Len(call.work) = 1 /\ call.op = "write_control" THEN Return(TRUE)
     ELSE /\ call' = [call EXCEPT !.work = Tail(@), !.pass = 0, !.buf = Blank]
          /\ UNCHANGED <<msrLast, raced>>
  /\ UNCHANGED <<lockBit, saver, ctx, pushed, msrActive, memory, file, failures, torn>>

\* write_msr() throws: write_control() passes it on; SaveControl::restore()
\* catches it and goes on to the next setting.
AccessFails ==
  /\ call.work # <<>> /\ Fails
  /\ \/ UNCHANGED msr
     \/ /\ call.pass = 1
        /\ Written([call.buf EXCEPT ![Head(call.work)[1]] = Head(call.work)[2]])
  /\ IF call.op = "write_control" THEN Return(FALSE)
     ELSE /\ call' = [call EXCEPT !.work = <<>>, !.pass = 0, !.buf = Blank,
                                  !.failed = Append(@, Last(call.work)[1])]
          /\ UNCHANGED <<msrLast, raced>>
  /\ UNCHANGED <<lockBit, saver, ctx, pushed, msrActive, memory, file, torn>>

----------------------------------------------------------------------------
(* Save and restore *)

\* save_control(): the second context's read, and each control keeps its bits.
SaveInMemory ==
  /\ call = Idle /\ saver = "memory"
  /\ memory' = msr
  /\ msrLast' = ""
  /\ UNCHANGED <<msr, lockBit, saver, ctx, pushed, msrActive, file, call, raced, failures, torn>>

\* save_control(path): the settings of every control, as SaveControl reads and
\* writes them: decoded.
SaveFile ==
  /\ call = Idle /\ saver = "file"
  /\ file' = [f \in Fields |-> Decode(f, msr[f])]
  /\ msrLast' = ""
  /\ UNCHANGED <<msr, lockBit, saver, ctx, pushed, msrActive, memory, call, raced, failures, torn>>

\* restore_control(path): SaveControl::restore() replays the file.
RestoreFile ==
  /\ file # Unsaved
  /\ Begin([Idle EXCEPT !.op = "restore_file", !.todo = FieldOrder])
  /\ UNCHANGED <<msr, lockBit, saver, ctx, pushed, msrActive, memory, file, failures, torn>>

\* The next setting of this attempt: a call of write_control(), which throws
\* when check_control() does.
NextSetting ==
  /\ call.op = "restore_file" /\ call.work = <<>> /\ call.todo # <<>>
  /\ LET f == Head(call.todo)
     IN  call' = IF CheckControl(f)
                 THEN [call EXCEPT !.todo = Tail(@), !.work = WorkOf(f, file[f])]
                 ELSE [call EXCEPT !.todo = Tail(@), !.failed = Append(@, f)]
  /\ UNCHANGED <<msr, lockBit, saver, ctx, pushed, msrActive, memory, file, msrLast, raced, failures, torn>>

\* (bug) What failed is neither tried again nor reported.
EndAttemptSilent ==
  /\ call.op = "restore_file" /\ call.work = <<>> /\ call.todo = <<>>
  /\ Return(TRUE)
  /\ UNCHANGED <<msr, lockBit, saver, ctx, pushed, msrActive, memory, file, failures, torn>>

\* max_restore_retries is 1: what failed is tried once more.
EndAttempt ==
  /\ call.op = "restore_file" /\ call.work = <<>> /\ call.todo = <<>>
  /\ IF call.failed # <<>> /\ call.attempt = 0
     THEN /\ call' = [call EXCEPT !.attempt = 1, !.todo = call.failed, !.failed = <<>>]
          /\ UNCHANGED <<msrLast, raced>>
     ELSE Return(call.failed = <<>>)
  /\ UNCHANGED <<msr, lockBit, saver, ctx, pushed, msrActive, memory, file, failures, torn>>

----------------------------------------------------------------------------
\* Another program (or the firmware) writes a field.  External.
ForeignWrite(f, code) ==
  /\ ~lockBit /\ msr[f] # code
  /\ msr' = [msr EXCEPT ![f] = code]
  /\ raced' = (call.op = "restore_file")
  /\ msrLast' = ""
  /\ UNCHANGED <<lockBit, saver, ctx, pushed, msrActive, memory, file, call, failures, torn>>

MSRNext ==
  \/ \E f \in Fields : PushControl(f)
  \/ \E f \in Fields : \E s \in Settings(f) : Adjust(f, s) \/ WriteControl(f, s)
  \/ Activate \/ WriteBatch \/ RestoreControl \/ FirstPass \/ SecondPass \/ PassFails
  \/ ReadMSR \/ WriteMSR \/ AccessFails
  \/ SaveInMemory \/ SaveFile \/ RestoreFile \/ NextSetting \/ EndAttempt
  \/ \E f \in ForeignFields : \E c \in Codes(f) : ForeignWrite(f, c)

MSRSpec == MSRInit /\ [][MSRNext]_msrVars

----------------------------------------------------------------------------
(* Properties *)

\* Whether the step in progress was asked to write this code in this field.
Asked(f, code) ==
  \/ InBatch /\ f \in ctx[Context].mask /\ ctx[Context].val[f] = code
  \/ call.work # <<>> /\ Head(call.work) = <<f, code>>

\* A read-modify-write changes the fields it was asked to change and no other:
\* a control that was pushed and never adjusted, or a field that a direct write
\* set between two batches, keeps its value in MSRIO::write_batch(), write_msr()
\* and the restore, in every order of these calls and of failing accesses, as
\* long as the context has no batch that stopped half way.
KeepsOthers ==
  [][(InBatch => Context \notin torn) =>
       \A f \in Fields \ ForeignFields : msr'[f] # msr[f] => Asked(f, msr'[f])]_msrVars

\* The same without the exception: what the comment in MSRIOGroup::write_batch()
\* says of a control that was never adjusted.
KeepsOthersAlways ==
  [][\A f \in Fields \ ForeignFields : msr'[f] # msr[f] => Asked(f, msr'[f])]_msrVars

\* A restore_control() that returns has put back every field as save_control()
\* recorded it, whatever failed before and whatever another program wrote.
RestoreExact == msrLast = "restore_control" => msr = memory

\* A restore_control(path) that returns, undisturbed, leaves the power limit and
\* the time window as they were recorded, also through the retry; the enable bit
\* is as recorded whenever it said whether the limit is zero.
RestoreFileExact ==
  msrLast = "restore_file" /\ ~raced =>
    /\ \A f \in {"PL", "TW"} : Decode(f, msr[f]) = file[f]
    /\ file["EN"] = Encode("EN", file["PL"]) => msr["EN"] = file["EN"]

\* Every field is as recorded: what geopm_pio_restore_control_dir() documents.
RestoreFileAll ==
  msrLast = "restore_file" /\ ~raced => \A f \in Fields : Decode(f, msr[f]) = file[f]
=============================================================================
