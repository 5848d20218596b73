----------------------------- MODULE SSTIOGroup -----------------------------
(***************************************************************************)
(* The controls of the SSTIOGroup.  The fields of the core priority        *)
(* registers (MMIO) are written in batches of whole registers by SSTIO, or *)
(* one at a time; the two features that the mailbox enables, core priority *)
(* (CP) and turbo frequency (TF), only one at a time: the driver refuses   *)
(* TF without CP, so each control writes the other one first when needed.  *)
(*                                                                         *)
(* The value of a field is the set of its bits that are one.  A mailbox    *)
(* call that the driver still refuses after the retry for EBUSY throws.    *)
(***************************************************************************)
EXTENDS Integers, Sequences, SequencesExt

CONSTANTS
  SstControls, \* the pushable controls: <<register, field>>
  Bits,        \* the bits of a field
  BatchLimit,  \* m_batch_command_limit
  MaxRefusals  \* bound: mailbox calls that fail twice

ASSUME SstAssumption ==
  /\ \A c \in SstControls : c \in {1, 2} \X {"priority", "frequency"}
  /\ BatchLimit \in Nat \ {0}
  /\ MaxRefusals \in Nat

VARIABLES
  uses,      \* what the program writes: "registers" or "features"
  mmio,      \* the registers: the bits of each field
  feature,   \* CP and TF: 0 or 1
  interface, \* m_mmio_write_interfaces and m_mmio_rmw_write_masks, in the order of the pushes
  available, \* the features' controls in m_control_available
  sstSaved,  \* m_saved_value of every control, or <<>> before the first save_control()
  refusals,  \* mailbox calls that failed
  sstLast,   \* the call that has just ended: "write_batch", "restore", "refused" or ""
  sstAsked,  \* the settings adjusted since they were last written by a batch
  settled,   \* the registers when that write_batch() began, <<>> after other calls
  aside      \* registers written outside of the batches since a control of theirs was pushed

sstVars == <<uses, mmio, feature, interface, available, sstSaved, refusals, sstLast, sstAsked, settled, aside>>

SstRegs == {1, 2}
SstFields == {"priority", "frequency"}
FieldValues == SUBSET Bits
Features == {"CP", "TF"}

SstInit ==
  /\ uses \in {"registers", "features"}
  /\ mmio \in [SstRegs -> [SstFields -> {{}, Bits}]]
  /\ feature \in {f \in [Features -> {0, 1}] : f["TF"] <= f["CP"]}
  /\ interface = <<>>
  /\ available = Features
  /\ sstSaved = <<>>
  /\ refusals = 0
  /\ sstLast = ""
  /\ sstAsked = [c \in {} |-> {}]
  /\ settled = <<>>
  /\ aside = {}

Called(result) == sstLast' = result /\ settled' = <<>>

----------------------------------------------------------------------------
(* Batches *)

PushedSst == {interface[i].control : i \in DOMAIN interface}

\* push_control(): add_mmio_write() gives each control an interface of its own, also
\* when it is a field of a register that another control has.
SstPushControl(c) ==
  /\ c \notin PushedSst
  /\ interface' = Append(interface, [control |-> c, value |-> [f \in SstFields |-> {}], mask |-> {}])
  /\ aside' = {r \in aside : r # c[1]}
  /\ Called("")
  /\ UNCHANGED <<uses, mmio, feature, available, sstSaved, refusals, sstAsked>>

\* SSTIO::adjust(): the field's bits in the interface, and in its write mask.
SstAdjust(i, v) ==
  LET c == interface[i].control
  IN  /\ interface' = [interface EXCEPT ![i].value[c[2]] = v, ![i].mask = @ \cup {c[2]}]
      /\ sstAsked' = [d \in DOMAIN sstAsked \cup {c} |-> IF d = c THEN v ELSE sstAsked[d]]
      /\ Called("")
      /\ UNCHANGED <<uses, mmio, feature, available, sstSaved, refusals, aside>>

\* The interface that the i-th value read is merged into: the index starts again
\* with each group of BatchLimit commands.
MergedInto(i) == ((i - 1) % BatchLimit) + 1

\* write_batch(): all the registers are read first, the bits outside of the write
\* masks are added to the interfaces' values, and these are written in turn.
Merge(ifs, i) ==
  LET j == MergedInto(i)
      read == mmio[ifs[i].control[1]]
  IN  [ifs EXCEPT ![j].value = [f \in SstFields |-> IF f \in ifs[j].mask THEN @[f] ELSE @[f] \cup read[f]]]

Merged == FoldLeft(Merge, interface, [i \in DOMAIN interface |-> i])

StoreInterface(regs, entry) == [regs EXCEPT ![entry.control[1]] = entry.value]

SstWriteBatch ==
  /\ interface # <<>>
  /\ interface' = Merged
  /\ mmio' = FoldLeft(StoreInterface, mmio, interface')
  /\ settled' = mmio
  /\ sstLast' = "write_batch"
  /\ UNCHANGED <<uses, feature, available, sstSaved, refusals, sstAsked, aside>>

----------------------------------------------------------------------------
(* Single writes *)

\* write_mmio_once(): read, modify and write one register.
SstWriteControl(c, v) ==
  /\ mmio' = [mmio EXCEPT ![c[1]][c[2]] = v]
  /\ aside' = aside \cup {c[1]}
  /\ sstAsked' = [d \in DOMAIN sstAsked \ {c} |-> sstAsked[d]]
  /\ Called("")
  /\ UNCHANGED <<uses, feature, interface, available, sstSaved, refusals>>

\* What the driver accepts.  External.
DriverAccepts(fs) == fs["TF"] <= fs["CP"]

\* write_mbox_once(), when the driver accepts it.
SetFeature(st, x, v) ==
  LET fs == [st.feature EXCEPT ![x] = v]
  IN  IF st.threw \/ ~DriverAccepts(fs) THEN [st EXCEPT !.threw = TRUE] ELSE [st EXCEPT !.feature = fs]

\* SSTControl::write(): enabling TF enables CP first, and disabling CP disables TF
\* first, as long as the other control exists.
WriteFeature(st, x, v, exist) ==
  LET first == IF x = "TF" /\ v = 1 /\ "CP" \in exist THEN SetFeature(st, "CP", 1)
               ELSE IF x = "CP" /\ v = 0 /\ "TF" \in exist THEN SetFeature(st, "TF", 0) ELSE st
  IN  SetFeature(first, x, v)

\* SSTControl::restore(): the saved bits, which are not shifted down to bit 0, are
\* compared with the value that triggers the write of the other control, so that
\* only CP's 0 triggers it.
RestoreOne(st, x, v, exist) ==
  LET first == IF x = "CP" /\ v = 0 /\ "TF" \in exist THEN SetFeature(st, "TF", 0) ELSE st
  IN  SetFeature(first, x, v)

\* (bug) In the order of their numbers in the mailbox.
RestoreOrderTFFirst == <<"TF", "CP">>

\* The features in the order of their names, COREPRIORITY_ENABLE first.
RestoreOrder == <<"CP", "TF">>

RestoreFeatures(names, values, exist) ==
  LET put(st, x) == IF x \in names THEN RestoreOne(st, x, values[x], exist) ELSE st
  IN  put(put([feature |-> feature, threw |-> FALSE], RestoreOrder[1]), RestoreOrder[2])

\* write_control() of a feature.
SstWriteFeature(x, v) ==
  LET st == WriteFeature([feature |-> feature, threw |-> FALSE], x, v, available)
  IN  /\ x \in available
      /\ feature' = st.feature
      /\ Called("")
      /\ UNCHANGED <<uses, mmio, interface, available, sstSaved, refusals, sstAsked, aside>>

\* save_control(): each control is saved and restored at once; those that fail are
\* no controls any more.
SstSave(failing) ==
  LET kept == available \ failing
      old == IF sstSaved = <<>> THEN [x \in Features |-> 0] ELSE sstSaved.feature
      values == [x \in Features |-> IF x \in kept THEN feature[x] ELSE old[x]]
      st == RestoreFeatures(kept, values, available)
  IN  /\ failing # {} => refusals < MaxRefusals
      /\ refusals' = IF failing = {} THEN refusals ELSE refusals + 1
      /\ sstSaved' = [mmio |-> mmio, feature |-> values]
      /\ available' = kept
      /\ feature' = st.feature
      /\ Called(IF st.threw THEN "refused" ELSE "")
      /\ UNCHANGED <<uses, mmio, interface, sstAsked, aside>>

\* restore_control(), after a save_control().
SstRestore ==
  /\ sstSaved # <<>>
  /\ LET st == RestoreFeatures(available, sstSaved.feature, available)
     IN  feature' = st.feature /\ Called(IF st.threw THEN "refused" ELSE "restore")
  /\ mmio' = sstSaved.mmio
  /\ aside' = SstRegs
  /\ sstAsked' = [c \in {} |-> {}]
  /\ UNCHANGED <<uses, interface, available, sstSaved, refusals>>

SstNext ==
  \/ /\ uses = "registers"
     /\ \/ \E c \in SstControls : SstPushControl(c)
        \/ \E i \in DOMAIN interface, v \in FieldValues : SstAdjust(i, v)
        \/ SstWriteBatch
        \/ \E c \in SstControls, v \in FieldValues : SstWriteControl(c, v)
  \/ /\ uses = "features"
     /\ \/ \E x \in Features, v \in {0, 1} : SstWriteFeature(x, v)
        \/ \E failing \in SUBSET available : SstSave(failing)
        \/ SstRestore

SstSpec == SstInit /\ [][SstNext]_sstVars

----------------------------------------------------------------------------
(* Properties *)

\* Restoring, and trying it when saving, never asks the driver for what it refuses,
\* and puts back CP and TF as they were saved, from whatever state they are in:
\* TF is enabled after CP and disabled before it.
SstRestoreExact ==
  /\ sstLast # "refused"
  /\ sstLast = "restore" =>
       mmio = sstSaved.mmio /\ \A x \in available : feature[x] = sstSaved.feature[x]

\* The adjusted fields have their settings and every other field is as it was.
BatchDone ==
  /\ \A c \in DOMAIN sstAsked : mmio[c[1]][c[2]] = sstAsked[c]
  /\ \A r \in SstRegs, f \in SstFields : <<r, f>> \notin DOMAIN sstAsked => mmio[r][f] = settled[r][f]

\* A write_batch() updates the adjusted fields and keeps the others, when every
\* pushed control has a register of its own, the controls fit in one batch and the
\* registers are written by nothing but batches.
SstBatchAlone ==
  (/\ sstLast = "write_batch"
   /\ \A c, d \in PushedSst : c[1] = d[1] => c = d
   /\ Len(interface) <= BatchLimit
   /\ aside = {}) => BatchDone

\* What write_batch() is meant to do ("Mask the write so we only update the adjusted
\* bits"): the same for every set of controls.
SstBatchDone == sstLast = "write_batch" => BatchDone
=============================================================================
