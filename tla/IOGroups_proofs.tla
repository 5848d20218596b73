--------------------------- MODULE IOGroups_proofs ---------------------------
(***************************************************************************)
(* Proofs about the IOGroups, which share nothing with each other:         *)
(* restoring Intel Speed Select features, the sysfs batch, the fields of   *)
(* an MSR, the metrics of Level Zero, and the pairs of an energy and its   *)
(* time stamp, for any number of chips, any size of a streamer, any        *)
(* signals that are pushed and any number of reports and failures.         *)
(***************************************************************************)
EXTENDS MSRIOGroup, SysfsIOGroup, SSTIOGroup, LevelZeroMetrics, SignalGroups, NumberSetTheorems, TLAPS

(* Speed Select: features are restored as they were saved *)

OnOff == [Features -> {0, 1}]

\* What a restore_control() now would leave: the saved bits of the controls, and of the
\* feature that is no control any more what it is.
Target == [x \in Features |-> IF x \in available THEN sstSaved.feature[x] ELSE feature[x]]

\* The driver accepts the features as they are, and as a restore would leave them,
\* also after controls that could not be saved were dropped.
SstInv ==
  /\ feature \in OnOff /\ DriverAccepts(feature)
  /\ available \subseteq Features
  /\ sstSaved # <<>> => sstSaved.feature \in OnOff /\ DriverAccepts(Target)
  /\ SstRestoreExact

LEMMA SstInvInit == SstInit => SstInv
  BY DEF SstInit, SstInv, OnOff, DriverAccepts, SstRestoreExact, Features

\* A feature is set when the driver accepts it, and the state is left alone otherwise.
LEMMA SetWorks ==
    ASSUME NEW F \in OnOff, DriverAccepts(F), NEW x \in Features, NEW v \in {0, 1}
    PROVE  LET G == [F EXCEPT ![x] = v]
               s == SetFeature([feature |-> F, threw |-> FALSE], x, v)
           IN  /\ G \in OnOff /\ G[x] = v /\ \A y \in Features \ {x} : G[y] = F[y]
               /\ DriverAccepts(G) => s = [feature |-> G, threw |-> FALSE]
               /\ ~DriverAccepts(G) => s = [feature |-> F, threw |-> TRUE]
  BY DEF SetFeature, OnOff

\* Nothing is set after the driver refused something.
LEMMA SetAfterThrow ==
    ASSUME NEW F, NEW x, NEW v
    PROVE  SetFeature([feature |-> F, threw |-> TRUE], x, v) = [feature |-> F, threw |-> TRUE]
  BY DEF SetFeature

\* A write_control() leaves what the driver accepts, and a feature that is no control
\* as it is.
LEMMA WriteFeatureKeeps ==
    ASSUME feature \in OnOff, DriverAccepts(feature), NEW x \in available, available \subseteq Features,
           NEW v \in {0, 1}
    PROVE  LET s == WriteFeature([feature |-> feature, threw |-> FALSE], x, v, available)
           IN  /\ s.feature \in OnOff /\ DriverAccepts(s.feature)
               /\ \A y \in Features \ available : s.feature[y] = feature[y]
  <1> DEFINE st0 == [feature |-> feature, threw |-> FALSE]
             s == WriteFeature(st0, x, v, available)
             Fine(st) == /\ \E F \in OnOff : /\ st = [feature |-> F, threw |-> FALSE] \/ st = [feature |-> F, threw |-> TRUE]
                                            /\ DriverAccepts(F)
                                            /\ \A y \in Features \ available : F[y] = feature[y]
  <1>1. Fine(st0)
    OBVIOUS
  <1>2. ASSUME NEW st, Fine(st), NEW y \in available, NEW w \in {0, 1} PROVE Fine(SetFeature(st, y, w))
    <2>1. PICK F \in OnOff : /\ st = [feature |-> F, threw |-> FALSE] \/ st = [feature |-> F, threw |-> TRUE]
                            /\ DriverAccepts(F)
                            /\ \A z \in Features \ available : F[z] = feature[z]
      BY <1>2
    <2> DEFINE G == [F EXCEPT ![y] = w]
    <2>2. CASE st = [feature |-> F, threw |-> TRUE]
      BY <2>1, <2>2, SetAfterThrow
    <2>3. CASE st = [feature |-> F, threw |-> FALSE]
      <3>1. y \in Features
        OBVIOUS
      <3>2. /\ G \in OnOff /\ \A z \in Features \ {y} : G[z] = F[z]
            /\ DriverAccepts(G) => SetFeature([feature |-> F, threw |-> FALSE], y, w) = [feature |-> G, threw |-> FALSE]
            /\ ~DriverAccepts(G) => SetFeature([feature |-> F, threw |-> FALSE], y, w) = [feature |-> F, threw |-> TRUE]
        BY <2>1, <3>1 DEF SetFeature, OnOff
      <3> HIDE DEF G
      <3>3. \A z \in Features \ available : G[z] = feature[z]
        BY <2>1, <3>2
      <3> QED BY <2>1, <2>3, <3>2, <3>3
    <2> QED BY <2>1, <2>2, <2>3
  <1> DEFINE first == IF x = "TF" /\ v = 1 /\ "CP" \in available THEN SetFeature(st0, "CP", 1)
                      ELSE IF x = "CP" /\ v = 0 /\ "TF" \in available THEN SetFeature(st0, "TF", 0) ELSE st0
  <1> HIDE DEF Fine
  <1>3. Fine(first)
    BY <1>1, <1>2
  <1>4. Fine(SetFeature(first, x, v))
    BY <1>2, <1>3
  <1>5. s = SetFeature(first, x, v)
    BY DEF WriteFeature
  <1>6. PICK F \in OnOff : /\ s = [feature |-> F, threw |-> FALSE] \/ s = [feature |-> F, threw |-> TRUE]
                          /\ DriverAccepts(F)
                          /\ \A y \in Features \ available : F[y] = feature[y]
    BY <1>4, <1>5 DEF Fine
  <1> HIDE DEF s
  <1>7. s.feature = F
    BY <1>6
  <1> QED BY <1>6, <1>7 DEF s

\* Restoring features that the driver accepts together works from any state.
LEMMA RestoreWorks ==
    ASSUME feature \in OnOff, DriverAccepts(feature), NEW values \in OnOff,
           NEW names \in SUBSET Features, NEW exist \in SUBSET Features, names \subseteq exist,
           DriverAccepts([x \in Features |-> IF x \in names THEN values[x] ELSE feature[x]]),
           exist = names \/ \A x \in names : values[x] = feature[x]
    PROVE  RestoreFeatures(names, values, exist) =
             [feature |-> [x \in Features |-> IF x \in names THEN values[x] ELSE feature[x]], threw |-> FALSE]
  <1> DEFINE T == [x \in Features |-> IF x \in names THEN values[x] ELSE feature[x]]
             st0 == [feature |-> feature, threw |-> FALSE]
             st1 == IF "CP" \in names THEN RestoreOne(st0, "CP", values["CP"], exist) ELSE st0
             st2 == IF "TF" \in names THEN RestoreOne(st1, "TF", values["TF"], exist) ELSE st1
  <1>1. RestoreFeatures(names, values, exist) = st2
    BY DEF RestoreFeatures, RestoreOrder
  <1>2. /\ T \in OnOff /\ T["TF"] <= T["CP"] /\ feature["TF"] <= feature["CP"]
        /\ ("CP" \in names => T["CP"] = values["CP"]) /\ ("CP" \notin names => T["CP"] = feature["CP"])
        /\ ("TF" \in names => T["TF"] = values["TF"]) /\ ("TF" \notin names => T["TF"] = feature["TF"])
        /\ \A x \in Features : T[x] \in {0, 1} /\ feature[x] \in {0, 1} /\ values[x] \in {0, 1}
    BY DEF OnOff, DriverAccepts, Features
  <1> HIDE DEF T
  <1>3. \E F \in OnOff : /\ st1 = [feature |-> F, threw |-> FALSE]
                        /\ F["CP"] = T["CP"] /\ ("TF" \notin names => F["TF"] = T["TF"]) /\ DriverAccepts(F)
    <2>1. CASE "CP" \notin names
      <3>1. st1 = [feature |-> feature, threw |-> FALSE]
        BY <2>1
      <3> QED BY <1>2, <2>1, <3>1
    <2>2. CASE "CP" \in names /\ values["CP"] = 1
      <3> DEFINE G == [feature EXCEPT !["CP"] = 1]
      <3>1. st1 = SetFeature(st0, "CP", 1)
        BY <2>2 DEF RestoreOne
      <3>2. G["CP"] = 1 /\ G["TF"] = feature["TF"] /\ DriverAccepts(G) /\ G \in OnOff
        BY <1>2 DEF OnOff, DriverAccepts, Features
      <3>3. st1 = [feature |-> G, threw |-> FALSE]
        BY <3>1, <3>2, SetWorks DEF Features
      <3> HIDE DEF G
      <3> QED BY <1>2, <2>2, <3>2, <3>3
    <2>3. CASE "CP" \in names /\ values["CP"] = 0 /\ "TF" \in exist
      <3> DEFINE G == [feature EXCEPT !["TF"] = 0]
                 H == [G EXCEPT !["CP"] = 0]
      <3>1. st1 = SetFeature(SetFeature(st0, "TF", 0), "CP", 0)
        BY <2>3 DEF RestoreOne
      <3>2. G["CP"] = feature["CP"] /\ G["TF"] = 0 /\ DriverAccepts(G) /\ G \in OnOff
        BY <1>2 DEF OnOff, DriverAccepts, Features
      <3>3. SetFeature(st0, "TF", 0) = [feature |-> G, threw |-> FALSE]
        BY <3>2, SetWorks DEF Features
      <3> HIDE DEF G
      <3>4. H["CP"] = 0 /\ H["TF"] = 0 /\ DriverAccepts(H) /\ H \in OnOff
        BY <3>2 DEF OnOff, DriverAccepts, Features
      <3>5. st1 = [feature |-> H, threw |-> FALSE]
        <4>1. st1 = SetFeature([feature |-> G, threw |-> FALSE], "CP", 0)
          BY <3>1, <3>3
        <4> QED BY <3>2, <3>4, <4>1 DEF SetFeature
      <3>6. "TF" \notin names => T["TF"] = 0
        BY <1>2, <2>3 DEF Features
      <3> HIDE DEF H
      <3> QED BY <1>2, <2>3, <3>4, <3>5, <3>6
    <2>4. CASE "CP" \in names /\ values["CP"] = 0 /\ "TF" \notin exist
      <3> DEFINE G == [feature EXCEPT !["CP"] = 0]
      <3>1. st1 = SetFeature(st0, "CP", 0)
        BY <2>4 DEF RestoreOne
      <3>2. G["CP"] = 0 /\ G["TF"] = feature["TF"] /\ G \in OnOff
        BY <1>2 DEF OnOff, Features
      <3>3. DriverAccepts(G)
        BY <1>2, <2>4, <3>2 DEF DriverAccepts
      <3>4. st1 = [feature |-> G, threw |-> FALSE]
        BY <3>1, <3>2, <3>3, SetWorks DEF Features
      <3> HIDE DEF G
      <3> QED BY <1>2, <2>4, <3>2, <3>3, <3>4
    <2> QED BY <1>2, <2>1, <2>2, <2>3, <2>4 DEF Features
  <1>4. PICK F \in OnOff : /\ st1 = [feature |-> F, threw |-> FALSE]
                          /\ F["CP"] = T["CP"] /\ ("TF" \notin names => F["TF"] = T["TF"]) /\ DriverAccepts(F)
    BY <1>3
  <1> HIDE DEF st1
  <1>5. CASE "TF" \notin names
    <2>1. F = T
      BY <1>2, <1>4, <1>5 DEF OnOff, Features
    <2> QED BY <1>1, <1>4, <1>5, <2>1 DEF T
  <1>6. CASE "TF" \in names
    <2> DEFINE G == [F EXCEPT !["TF"] = values["TF"]]
    <2>1. st2 = SetFeature(st1, "TF", values["TF"])
      BY <1>6 DEF RestoreOne
    <2>2. G["TF"] = T["TF"] /\ G["CP"] = T["CP"] /\ G \in OnOff
      BY <1>2, <1>4, <1>6 DEF OnOff, Features
    <2>3. DriverAccepts(G) /\ G = T
      BY <1>2, <2>2 DEF DriverAccepts, OnOff, Features
    <2>4. st2 = [feature |-> G, threw |-> FALSE]
      BY <1>2, <1>4, <2>1, <2>3, SetWorks, ZenonT(40) DEF Features
    <2> QED BY <1>1, <2>3, <2>4 DEF T
  <1> QED BY <1>5, <1>6

\* Every step keeps the features restorable.
LEMMA SstInvNext == SstInv /\ [SstNext]_sstVars => SstInv'
  <1> SUFFICES ASSUME SstInv, [SstNext]_sstVars PROVE SstInv'
    OBVIOUS
  <1>1. CASE UNCHANGED sstVars
    BY <1>1 DEF SstInv, sstVars, Target, SstRestoreExact
  <1>2. ASSUME UNCHANGED <<feature, available, sstSaved>>, sstLast' \notin {"refused", "restore"} PROVE SstInv'
    BY <1>2 DEF SstInv, Target, SstRestoreExact
  <1>3. CASE uses = "registers"
    <2>1. UNCHANGED <<feature, available, sstSaved>> /\ (sstLast' \notin {"refused", "restore"} \/ UNCHANGED sstVars)
      BY <1>3 DEF SstNext, SstPushControl, SstAdjust, SstWriteBatch, SstWriteControl, Called, sstVars
    <2> QED BY <1>1, <1>2, <2>1
  <1>4. ASSUME NEW x \in Features, NEW v \in {0, 1}, SstWriteFeature(x, v) PROVE SstInv'
    <2> DEFINE s == WriteFeature([feature |-> feature, threw |-> FALSE], x, v, available)
    <2>1. x \in available /\ feature' = s.feature /\ UNCHANGED <<available, sstSaved>> /\ sstLast' = ""
      BY <1>4 DEF SstWriteFeature, Called
    <2>2. /\ s.feature \in OnOff /\ DriverAccepts(s.feature)
          /\ \A y \in Features \ available : s.feature[y] = feature[y]
      BY <2>1, WriteFeatureKeeps DEF SstInv
    <2> HIDE DEF s
    <2>3. Target' = Target
      BY <2>1, <2>2 DEF Target
    <2> QED BY <2>1, <2>2, <2>3 DEF SstInv, SstRestoreExact
  <1>5. ASSUME NEW failing \in SUBSET available, SstSave(failing) PROVE SstInv'
    <2> DEFINE kept == available \ failing
               old == IF sstSaved = <<>> THEN [x \in Features |-> 0] ELSE sstSaved.feature
               values == [x \in Features |-> IF x \in kept THEN feature[x] ELSE old[x]]
               st == RestoreFeatures(kept, values, available)
    <2>1. /\ sstSaved' = [mmio |-> mmio, feature |-> values] /\ available' = kept /\ feature' = st.feature
          /\ sstLast' = IF st.threw THEN "refused" ELSE ""
      BY <1>5 DEF SstSave, Called
    <2>2. values \in OnOff /\ kept \in SUBSET Features /\ kept \subseteq available /\ available \in SUBSET Features
      BY DEF SstInv, OnOff
    <2>3. \A x \in kept : values[x] = feature[x]
      BY <2>2
    <2>4. [x \in Features |-> IF x \in kept THEN values[x] ELSE feature[x]] = feature
      BY <2>3 DEF SstInv, OnOff
    <2> HIDE DEF kept, values
    <2>5. st = [feature |-> feature, threw |-> FALSE]
      BY <2>2, <2>3, <2>4, RestoreWorks, ZenonT(40) DEF SstInv
    <2>6. feature' = feature /\ sstLast' = ""
      <3>1. st.feature = feature /\ st.threw = FALSE
        BY <2>5
      <3> HIDE DEF st
      <3> QED BY <2>1, <3>1
    <2>7. sstSaved'.feature = values
      BY <2>1
    <2>8. Target' = feature
      BY <2>1, <2>4, <2>6, <2>7 DEF Target
    <2> QED BY <2>2, <2>1, <2>6, <2>7, <2>8 DEF SstInv, SstRestoreExact
  <1>6. CASE SstRestore
    <2> DEFINE st == RestoreFeatures(available, sstSaved.feature, available)
    <2>1. /\ sstSaved # <<>> /\ feature' = st.feature /\ mmio' = sstSaved.mmio
          /\ sstLast' = IF st.threw THEN "refused" ELSE "restore"
          /\ UNCHANGED <<available, sstSaved>>
      BY <1>6 DEF SstRestore, Called
    <2>2. st = [feature |-> Target, threw |-> FALSE]
      <3>1. sstSaved.feature \in OnOff /\ DriverAccepts(Target) /\ available \in SUBSET Features
        BY <2>1 DEF SstInv
      <3> QED BY <3>1, RestoreWorks DEF SstInv, Target
    <2>3. feature' = Target /\ sstLast' = "restore"
      BY <2>1, <2>2
    <2>4. Target \in OnOff /\ DriverAccepts(Target) /\ sstSaved.feature \in OnOff /\ available \subseteq Features
      BY <2>1 DEF SstInv, Target, OnOff
    <2>5. Target' = Target
      BY <2>1, <2>3 DEF Target
    <2>6. \A x \in available : Target[x] = sstSaved.feature[x]
      BY <2>4 DEF Target
    <2>7. SstRestoreExact'
      BY <2>1, <2>3, <2>6 DEF SstRestoreExact
    <2> QED BY <2>1, <2>3, <2>4, <2>5, <2>7 DEF SstInv
  <1> QED BY <1>1, <1>3, <1>4, <1>5, <1>6 DEF SstNext

\* restore_control() puts back CP and TF as they were saved, and the driver refuses
\* nothing of it, from any state that writes may have led to and whichever controls
\* could not be saved.
THEOREM FeaturesRestored == SstSpec => []SstRestoreExact
  <1>1. SstInv => SstRestoreExact
    BY DEF SstInv
  <1> QED BY <1>1, SstInvInit, SstInvNext, PTL DEF SstSpec

-----------------------------------------------------------------------------
(* sysfs: one retry is enough for every order of the completions *)

\* The entries, the files and the settings that were saved.
SysShape ==
  /\ DOMAIN entry \subseteq Names
  /\ entry \in [DOMAIN entry -> [value : Nat, doWrite : BOOLEAN]]
  /\ attr \in [Attrs -> Nat]
  /\ controlSaver # Nothing => controlSaver \in [Attrs -> Nat]
  /\ jsonFile # Nothing => jsonFile \in [Attrs -> Nat]
  /\ flight = [pass |-> flight.pass, left |-> flight.left, failed |-> flight.failed]
  /\ flight.pass \in {0, 1, 2}

\* The kernel keeps the two files ordered.
Ordered == attr["min"] <= attr["max"]

ToWrite == {n \in DOMAIN entry : entry[n].doWrite = TRUE}

\* Entries that are to be written were adjusted, and those that are not have their value
\* in the file, unless it was written otherwise.
EntriesOK ==
  \A n \in DOMAIN entry :
    /\ n \in ToWrite => entry[n].value # NaN
    /\ n \notin ToWrite /\ n \notin overridden /\ entry[n].value # NaN => attr[Canonical(n)] = entry[n].value

\* The writes in flight are those that are to be written.
FlightIsAll ==
  /\ flight.pass = 0 => flight = NoFlight
  /\ flight.pass # 0 => /\ flight.left \cup flight.failed = ToWrite
                         /\ flight.left \cap flight.failed = {} /\ sysLast = ""

\* The writes that were refused in this batch.
Refused == flight.failed \cup (IF flight.pass = 2 THEN flight.left ELSE {})

\* Of two settings that fit together, only one is ever refused: if it is the lowest
\* frequency then the highest one is not below what the file has, and the other way
\* round.
OneRefused ==
  Agree =>
    \A k \in ToWrite : k # "min" /\ "min" \in ToWrite /\ entry["min"].value <= entry[k].value =>
      /\ "min" \in Refused => attr["min"] <= entry[k].value /\ k \notin Refused
      /\ k \in Refused => entry["min"].value <= attr["max"]

\* What the second pass refuses is refused for good.
RefusedForGood ==
  Agree /\ flight.pass = 2 => \A n \in flight.failed : ~Accepts(attr, Canonical(n), entry[n].value)

SysInv == SysShape /\ Ordered /\ EntriesOK /\ FlightIsAll /\ OneRefused /\ RefusedForGood /\ BatchReaches

LEMMA SysInvInit == SysfsInit => SysInv
  <1> SUFFICES ASSUME SysfsInit PROVE SysInv
    OBVIOUS
  <1>1. DOMAIN entry = {} /\ flight = NoFlight /\ sysLast = "" /\ attr \in [Attrs -> Freqs] /\ attr["min"] <= attr["max"]
    BY DEF SysfsInit
  <1>2. SysShape
    <2>1. attr \in [Attrs -> Nat]
      BY <1>1, SysfsAssumption
    <2>2. entry \in [DOMAIN entry -> [value : Nat, doWrite : BOOLEAN]]
      BY <1>1 DEF SysfsInit
    <2>3. controlSaver = Nothing /\ jsonFile = Nothing
      BY DEF SysfsInit
    <2>4. flight = [pass |-> flight.pass, left |-> flight.left, failed |-> flight.failed] /\ flight.pass = 0
      BY <1>1 DEF NoFlight
    <2> QED BY <1>1, <2>1, <2>2, <2>3, <2>4 DEF SysShape
  <1>3. ToWrite = {}
    BY <1>1 DEF ToWrite
  <1> QED
    BY <1>1, <1>2, <1>3
       DEF SysInv, Ordered, EntriesOK, FlightIsAll, NoFlight, OneRefused, RefusedForGood, BatchReaches

\* The invariant where no batch is in flight and the last call was none.
SysRest == SysShape /\ Ordered /\ EntriesOK /\ flight = NoFlight /\ sysLast \notin {"write_batch", "failed"}

LEMMA AtRest == SysRest => SysInv
  <1> SUFFICES ASSUME SysRest PROVE SysInv
    OBVIOUS
  <1>1. flight.pass = 0 /\ flight.failed = {} /\ Refused = {}
    BY DEF SysRest, NoFlight, Refused
  <1> QED
    BY <1>1 DEF SysRest, SysInv, FlightIsAll, OneRefused, RefusedForGood, BatchReaches

\* Writing an attribute keeps the files ordered.
LEMMA StoreKeeps ==
    ASSUME NEW f \in [Attrs -> Nat], f["min"] <= f["max"], NEW a \in Attrs, NEW v \in Nat
    PROVE  /\ Store(f, a, v) \in [Attrs -> Nat] /\ Store(f, a, v)["min"] <= Store(f, a, v)["max"]
           /\ Accepts(f, a, v) => [f EXCEPT ![a] = v]["min"] <= [f EXCEPT ![a] = v]["max"]
  BY DEF Store, Accepts, Attrs

LEMMA ReplayKeeps ==
    ASSUME NEW f \in [Attrs -> Nat], f["min"] <= f["max"], NEW settings \in [Attrs -> Nat]
    PROVE  Replay(f, settings) \in [Attrs -> Nat] /\ Replay(f, settings)["min"] <= Replay(f, settings)["max"]
  <1> DEFINE put(g, a) == IF settings[a] = NaN THEN g ELSE Store(g, a, settings[a])
             Good(g) == g \in [Attrs -> Nat] /\ g["min"] <= g["max"]
  <1>1. ASSUME NEW g, Good(g), NEW a \in Attrs PROVE Good(put(g, a))
    BY <1>1, StoreKeeps
  <1>2. "min" \in Attrs /\ "max" \in Attrs
    BY DEF Attrs
  <1>3. Replay(f, settings) = put(put(put(put(f, "max"), "min"), "max"), "min")
    BY DEF Replay
  <1>4. Good(f)
    OBVIOUS
  <1> HIDE DEF Good, put
  <1>5. Good(put(put(put(put(f, "max"), "min"), "max"), "min"))
    BY <1>1, <1>2, <1>4
  <1> QED BY <1>3, <1>5 DEF Good

\* A submitted write that completes keeps the invariant, whichever one it is.
LEMMA WriteDoneKeeps ==
    ASSUME SysInv, NEW n \in Names, SysfsWriteDone(n)
    PROVE  SysInv'
  <1> DEFINE a == Canonical(n)
             v == entry[n].value
  <1>1. /\ SysShape /\ Ordered /\ EntriesOK /\ FlightIsAll /\ OneRefused /\ RefusedForGood
        /\ DOMAIN entry \subseteq Names /\ entry \in [DOMAIN entry -> [value : Nat, doWrite : BOOLEAN]]
        /\ attr \in [Attrs -> Nat] /\ flight.pass \in {0, 1, 2}
        /\ flight = [pass |-> flight.pass, left |-> flight.left, failed |-> flight.failed]
    BY DEF SysInv, SysShape
  <1>2. n \in flight.left /\ flight.pass # 0
    <2>1. n \in flight.left
      BY DEF SysfsWriteDone
    <2>2. flight # NoFlight
      BY <2>1 DEF NoFlight
    <2> QED BY <1>1, <2>1, <2>2 DEF FlightIsAll
  <1>3. flight.left \cup flight.failed = ToWrite /\ n \in ToWrite /\ n \in DOMAIN entry /\ v \in Nat
    BY <1>1, <1>2 DEF FlightIsAll, ToWrite
  <1>4. a \in Attrs
    BY DEF Canonical, Names, Attrs
  <1>5. sysLast' = "" /\ BatchReaches' /\ UNCHANGED <<controlSaver, jsonFile>>
    BY <1>1, <1>2 DEF SysfsWriteDone, FlightIsAll, BatchReaches
  <1>6. CASE Accepts(attr, a, v)
    <2>1. /\ attr' = [attr EXCEPT ![a] = v] /\ entry' = [entry EXCEPT ![n].doWrite = FALSE]
          /\ flight' = [flight EXCEPT !.left = @ \ {n}] /\ Override(a, n)
      BY <1>6 DEF SysfsWriteDone
    <2>2. /\ DOMAIN entry' = DOMAIN entry
          /\ entry' \in [DOMAIN entry -> [value : Nat, doWrite : BOOLEAN]]
          /\ \A m \in DOMAIN entry : entry'[m].value = entry[m].value
          /\ \A m \in DOMAIN entry : m # n => entry'[m].doWrite = entry[m].doWrite
          /\ entry'[n].doWrite = FALSE
      BY <1>1, <1>3, <2>1
    <2>3. /\ flight'.pass = flight.pass /\ flight'.left = flight.left \ {n} /\ flight'.failed = flight.failed
          /\ flight' = [pass |-> flight'.pass, left |-> flight'.left, failed |-> flight'.failed]
      BY <1>1, <2>1
    <2>4. ToWrite' = ToWrite \ {n}
      BY <2>2 DEF ToWrite
    <2>5. attr' \in [Attrs -> Nat] /\ Ordered'
      BY <1>1, <1>3, <1>4, <1>6, <2>1, StoreKeeps DEF Ordered
    <2>6. SysShape'
      BY <1>1, <1>5, <2>2, <2>3, <2>5 DEF SysShape
    <2>7. EntriesOK'
      <3> SUFFICES ASSUME NEW m \in DOMAIN entry
                   PROVE  /\ m \in ToWrite' => entry'[m].value # NaN
                          /\ m \notin ToWrite' /\ m \notin overridden' /\ entry'[m].value # NaN =>
                               attr'[Canonical(m)] = entry'[m].value
        BY <2>2 DEF EntriesOK
      <3>1. entry'[m].value = entry[m].value
        BY <2>2
      <3>2. m \in ToWrite' => entry'[m].value # NaN
        BY <1>1, <2>4, <3>1 DEF EntriesOK
      <3>3. CASE m = n
        BY <1>1, <1>4, <2>1, <3>1, <3>2, <3>3
      <3>4. CASE m # n /\ Canonical(m) = a
        <4>1. m \in overridden'
          BY <1>1, <2>1, <3>4 DEF Override
        <4> QED BY <3>2, <4>1
      <3>5. CASE m # n /\ Canonical(m) # a
        <4>1. m \in ToWrite' <=> m \in ToWrite
          BY <2>4, <3>5
        <4>2. m \in overridden' <=> m \in overridden
          BY <2>1, <3>5 DEF Override
        <4>3. Canonical(m) \in Attrs
          BY <1>1 DEF Canonical, Names, Attrs
        <4>4. attr'[Canonical(m)] = attr[Canonical(m)]
          BY <1>1, <2>1, <3>5, <4>3
        <4> QED BY <1>1, <3>1, <3>2, <4>1, <4>2, <4>4 DEF EntriesOK
      <3> QED BY <3>3, <3>4, <3>5
    <2>8. FlightIsAll'
      BY <1>1, <1>2, <1>3, <1>5, <2>3, <2>4 DEF FlightIsAll
    <2>9. Agree' => Agree
      BY <2>2 DEF Agree
    <2>10. Refused' = Refused \ {n}
      BY <1>1, <1>2, <2>3 DEF Refused, FlightIsAll
    <2>11. OneRefused'
      <3> SUFFICES ASSUME Agree', NEW k \in ToWrite', k # "min", "min" \in ToWrite',
                          entry'["min"].value <= entry'[k].value
                   PROVE  /\ "min" \in Refused' => attr'["min"] <= entry'[k].value /\ k \notin Refused'
                          /\ k \in Refused' => entry'["min"].value <= attr'["max"]
        BY DEF OneRefused
      <3> DEFINE lo == entry["min"].value
                 hi == entry[k].value
      <3>1. /\ k \in ToWrite /\ "min" \in ToWrite /\ n # "min" /\ n # k
            /\ k \in DOMAIN entry /\ "min" \in DOMAIN entry
        BY <2>4 DEF ToWrite
      <3>2. /\ entry'["min"].value = lo /\ entry'[k].value = hi /\ lo \in Nat /\ hi \in Nat /\ lo <= hi
            /\ lo # NaN /\ hi # NaN
        BY <1>1, <2>2, <3>1 DEF EntriesOK
      <3>3. ("min" \in Refused => attr["min"] <= hi /\ k \notin Refused) /\ (k \in Refused => lo <= attr["max"])
        BY <1>1, <2>9, <3>1, <3>2 DEF OneRefused
      <3>4. a = "max" /\ Canonical(k) = "max"
        BY <1>1, <1>3, <3>1 DEF Canonical, Names, Attrs
      <3>5. v = hi
        BY <1>1, <1>3, <2>9, <3>1, <3>2, <3>4 DEF Agree, EntriesOK
      <3>6. attr'["min"] = attr["min"] /\ attr'["max"] = hi
        BY <1>1, <2>1, <3>4, <3>5 DEF Attrs
      <3> QED BY <2>10, <3>2, <3>3, <3>6
    <2>12. RefusedForGood'
      <3> SUFFICES ASSUME Agree', flight'.pass = 2, NEW m \in flight'.failed
                   PROVE  ~Accepts(attr', Canonical(m), entry'[m].value)
        BY DEF RefusedForGood
      <3>1. /\ Agree /\ flight.pass = 2 /\ m \in flight.failed /\ m \in ToWrite /\ m \in DOMAIN entry /\ m # n
            /\ entry'[m].value = entry[m].value /\ entry[m].value \in Nat
        BY <1>1, <1>2, <1>3, <2>2, <2>3, <2>9 DEF FlightIsAll, ToWrite
      <3>2. ~Accepts(attr, Canonical(m), entry[m].value)
        BY <1>1, <3>1 DEF RefusedForGood
      <3>3. m \in Refused /\ n \in Refused
        BY <1>2, <3>1 DEF Refused
      <3>4. CASE Canonical(m) = a
        <4>1. Accepts(attr', a, entry[m].value) <=> Accepts(attr, a, entry[m].value)
          BY <1>1, <1>3, <1>4, <2>1 DEF Accepts, Attrs
        <4> QED BY <3>1, <3>2, <3>4, <4>1
      <3>5. CASE m = "min" /\ n # "min"
        <4>1. ~(entry[m].value <= v)
          BY <1>1, <1>3, <3>1, <3>3, <3>5 DEF OneRefused
        <4>2. attr'["max"] = v
          BY <1>1, <1>3, <1>4, <2>1, <3>5 DEF Canonical, Names, Attrs
        <4> QED BY <3>1, <3>5, <4>1, <4>2 DEF Accepts, Canonical
      <3>6. CASE m # "min" /\ n = "min"
        <4>1. ~(v <= entry[m].value)
          BY <1>1, <1>3, <3>1, <3>3, <3>6 DEF OneRefused
        <4>2. attr'["min"] = v /\ Canonical(m) # "min"
          BY <1>1, <1>3, <1>4, <2>1, <3>6 DEF Canonical, Names, Attrs
        <4> QED BY <1>3, <3>1, <4>1, <4>2 DEF Accepts
      <3>7. Canonical(m) # a => (m = "min" /\ n # "min") \/ (m # "min" /\ n = "min")
        BY <1>1, <3>1 DEF Canonical, Names, Attrs
      <3> QED BY <3>4, <3>5, <3>6, <3>7
    <2> QED BY <1>5, <2>5, <2>6, <2>7, <2>8, <2>11, <2>12 DEF SysInv
  <1>7. CASE ~Accepts(attr, a, v)
    <2>1. /\ attr' = attr /\ entry' = entry /\ overridden' = overridden
          /\ flight' = [flight EXCEPT !.left = @ \ {n}, !.failed = @ \cup {n}]
      BY <1>7 DEF SysfsWriteDone
    <2>2. /\ flight'.pass = flight.pass /\ flight'.left = flight.left \ {n}
          /\ flight'.failed = flight.failed \cup {n}
          /\ flight' = [pass |-> flight'.pass, left |-> flight'.left, failed |-> flight'.failed]
      BY <1>1, <2>1
    <2>3. ToWrite' = ToWrite /\ (Agree' <=> Agree)
      BY <2>1 DEF ToWrite, Agree
    <2>4. SysShape' /\ Ordered' /\ EntriesOK'
      BY <1>1, <1>5, <2>1, <2>2, <2>3 DEF SysShape, Ordered, EntriesOK
    <2>5. FlightIsAll'
      BY <1>1, <1>2, <1>3, <1>5, <2>2, <2>3 DEF FlightIsAll
    <2>6. Refused' = Refused \cup {n}
      BY <1>1, <1>2, <2>2 DEF Refused
    <2>7. OneRefused'
      <3> SUFFICES ASSUME Agree', NEW k \in ToWrite', k # "min", "min" \in ToWrite',
                          entry'["min"].value <= entry'[k].value
                   PROVE  /\ "min" \in Refused' => attr'["min"] <= entry'[k].value /\ k \notin Refused'
                          /\ k \in Refused' => entry'["min"].value <= attr'["max"]
        BY DEF OneRefused
      <3> DEFINE lo == entry["min"].value
                 hi == entry[k].value
      <3>1. k \in ToWrite /\ "min" \in ToWrite /\ k \in DOMAIN entry /\ "min" \in DOMAIN entry
        BY <2>3 DEF ToWrite
      <3>2. entry' = entry /\ attr' = attr /\ lo \in Nat /\ hi \in Nat /\ lo <= hi /\ lo # NaN /\ hi # NaN
        BY <1>1, <2>1, <3>1 DEF EntriesOK
      <3>3. ("min" \in Refused => attr["min"] <= hi /\ k \notin Refused) /\ (k \in Refused => lo <= attr["max"])
        BY <1>1, <2>3, <3>1, <3>2 DEF OneRefused
      <3>4. attr["min"] \in Nat /\ attr["max"] \in Nat /\ attr["min"] <= attr["max"]
        BY <1>1 DEF Ordered, Attrs
      <3>5. CASE n = "min"
        <4>1. ~(lo <= attr["max"])
          BY <1>7, <3>5 DEF Accepts, Canonical
        <4>2. k \notin Refused'
          BY <2>6, <3>3, <3>5, <4>1
        <4>3. attr["min"] <= hi
          BY <3>2, <3>4, <4>1
        <4> QED BY <3>2, <4>2, <4>3
      <3>6. CASE n # "min"
        <4>1. Canonical(k) = "max" /\ a = "max"
          BY <1>1, <3>1, <3>6 DEF Canonical, Names, Attrs
        <4>2. v = hi
          BY <1>1, <1>3, <2>3, <3>1, <3>2, <4>1 DEF Agree, EntriesOK
        <4>3. ~(hi >= attr["min"])
          BY <1>7, <4>1, <4>2 DEF Accepts
        <4>4. lo <= attr["max"]
          BY <3>2, <3>4, <4>3
        <4>5. "min" \notin Refused'
          BY <2>6, <3>2, <3>3, <3>4, <3>6, <4>3
        <4> QED BY <3>2, <4>4, <4>5
      <3> QED BY <3>5, <3>6
    <2>8. RefusedForGood'
      BY <1>1, <1>7, <2>1, <2>2, <2>3 DEF RefusedForGood
    <2> QED BY <1>5, <2>4, <2>5, <2>7, <2>8 DEF SysInv
  <1> QED BY <1>6, <1>7

LEMMA SysInvNext == SysInv /\ [SysfsNext]_sysVars => SysInv'
  <1>0. SysRest' => SysInv'
    BY AtRest, PTL
  <1> SUFFICES ASSUME SysInv, [SysfsNext]_sysVars PROVE SysInv'
    OBVIOUS
  <1>1. /\ SysShape /\ Ordered /\ EntriesOK /\ FlightIsAll /\ OneRefused /\ RefusedForGood
        /\ DOMAIN entry \subseteq Names /\ entry \in [DOMAIN entry -> [value : Nat, doWrite : BOOLEAN]]
        /\ attr \in [Attrs -> Nat] /\ attr["min"] <= attr["max"]
    BY DEF SysInv, SysShape, Ordered
  <1>2. CASE UNCHANGED sysVars
    BY <1>2, ZenonT(40) DEF SysInv, sysVars, SysShape, Ordered, EntriesOK, FlightIsAll, OneRefused, RefusedForGood,
                BatchReaches, ToWrite, Refused, Agree
  <1>3. ASSUME NEW n \in Names, SysfsPushControl(n) PROVE SysInv'
    <2>1. /\ entry' = [m \in DOMAIN entry \cup {n} |-> IF m = n THEN [value |-> NaN, doWrite |-> FALSE] ELSE entry[m]]
          /\ n \notin DOMAIN entry /\ flight = NoFlight /\ sysLast' = ""
          /\ UNCHANGED <<attr, controlSaver, jsonFile, flight, overridden>>
      BY <1>3 DEF SysfsPushControl, Ready
    <2>2. entry' \in [DOMAIN entry' -> [value : Nat, doWrite : BOOLEAN]] /\ DOMAIN entry' \subseteq Names
      BY <1>1, <2>1 DEF NaN
    <2>3. SysShape' /\ Ordered'
      BY <1>1, <2>1, <2>2 DEF SysShape, Ordered
    <2>4. EntriesOK'
      BY <1>1, <2>1 DEF EntriesOK, ToWrite, NaN
    <2> QED BY <1>0, <2>1, <2>3, <2>4 DEF SysRest
  <1>4. ASSUME NEW n \in Names, NEW f \in Freqs, SysfsAdjust(n, f) PROVE SysInv'
    <2>1. /\ entry' = IF entry[n].value # f THEN [entry EXCEPT ![n] = [value |-> f, doWrite |-> TRUE]] ELSE entry
          /\ n \in DOMAIN entry /\ flight = NoFlight /\ sysLast' = ""
          /\ UNCHANGED <<attr, controlSaver, jsonFile, flight, overridden>>
      BY <1>4 DEF SysfsAdjust, Ready
    <2>2. f \in Nat /\ f # NaN
      BY SysfsAssumption DEF NaN
    <2>3. entry' \in [DOMAIN entry' -> [value : Nat, doWrite : BOOLEAN]] /\ DOMAIN entry' \subseteq Names
      BY <1>1, <2>1, <2>2
    <2>4. SysShape' /\ Ordered'
      BY <1>1, <2>1, <2>3 DEF SysShape, Ordered
    <2>5. EntriesOK'
      BY <1>1, <2>1, <2>2 DEF EntriesOK, ToWrite
    <2> QED BY <1>0, <2>1, <2>4, <2>5 DEF SysRest
  <1>5. ASSUME NEW n \in Names, SysfsWriteDone(n) PROVE SysInv'
    BY <1>5, WriteDoneKeeps
  <1>6. ASSUME NEW n \in Names, NEW f \in Freqs, SysfsWriteControl(n, f) PROVE SysInv'
    <2> DEFINE a == Canonical(n)
    <2>1. /\ Accepts(attr, a, f) /\ attr' = [attr EXCEPT ![a] = f] /\ Override(a, "nobody")
          /\ flight = NoFlight /\ sysLast' = "" /\ UNCHANGED <<entry, controlSaver, jsonFile, flight>>
      BY <1>6 DEF SysfsWriteControl, Ready
    <2>2. f \in Nat /\ a \in Attrs
      BY SysfsAssumption DEF Canonical, Names, Attrs
    <2>3. attr' \in [Attrs -> Nat] /\ attr'["min"] <= attr'["max"]
      BY <1>1, <2>1, <2>2, StoreKeeps
    <2>4. SysShape' /\ Ordered'
      BY <1>1, <2>1, <2>3 DEF SysShape, Ordered
    <2>5. EntriesOK'
      <3> SUFFICES ASSUME NEW m \in DOMAIN entry
                   PROVE  /\ m \in ToWrite => entry[m].value # NaN
                          /\ m \notin ToWrite /\ m \notin overridden' /\ entry[m].value # NaN =>
                               attr'[Canonical(m)] = entry[m].value
        BY <2>1 DEF EntriesOK, ToWrite
      <3>1. m \in Names /\ m # "nobody" /\ Canonical(m) \in Attrs
        BY <1>1 DEF Names, Attrs, Canonical
      <3>2. Canonical(m) = a => m \in overridden'
        BY <2>1, <3>1 DEF Override
      <3>3. Canonical(m) # a => attr'[Canonical(m)] = attr[Canonical(m)] /\ (m \in overridden' <=> m \in overridden)
        BY <1>1, <2>1, <3>1 DEF Override
      <3> QED BY <1>1, <3>2, <3>3 DEF EntriesOK
    <2> QED BY <1>0, <2>1, <2>4, <2>5 DEF SysRest
  <1>7. CASE SysfsWriteBatch
    <2>1. /\ flight' = [pass |-> 1, left |-> {n \in DOMAIN entry : entry[n].doWrite}, failed |-> {}]
          /\ sysLast' = "" /\ UNCHANGED <<attr, entry, controlSaver, jsonFile, overridden>>
      BY <1>7 DEF SysfsWriteBatch
    <2>2. ToWrite' = ToWrite /\ ToWrite = {n \in DOMAIN entry : entry[n].doWrite}
      BY <1>1, <2>1 DEF ToWrite
    <2>3. flight'.pass = 1 /\ flight'.left = ToWrite' /\ flight'.failed = {}
      BY <2>1, <2>2
    <2>4. SysShape' /\ Ordered' /\ EntriesOK'
      BY <1>1, <2>1, <2>2 DEF SysShape, Ordered, EntriesOK
    <2>5. Refused' = {}
      BY <2>3 DEF Refused
    <2>6. FlightIsAll'
      <3>1. sysLast' = ""
        BY <2>1
      <3>2. flight'.pass # 0 /\ flight'.left \cup flight'.failed = ToWrite' /\ flight'.left \cap flight'.failed = {}
        BY <2>3
      <3> QED BY <3>1, <3>2 DEF FlightIsAll
    <2>7. OneRefused' /\ RefusedForGood' /\ BatchReaches'
      BY <2>1, <2>3, <2>5 DEF OneRefused, RefusedForGood, BatchReaches
    <2> QED BY <2>4, <2>6, <2>7 DEF SysInv
  <1>8. CASE SysfsPassDone
    <2>1. /\ flight.pass > 0 /\ flight.left = {} /\ UNCHANGED <<attr, entry, controlSaver, jsonFile, overridden>>
      BY <1>8 DEF SysfsPassDone
    <2>2. ToWrite' = ToWrite /\ (Agree' <=> Agree) /\ flight.failed = ToWrite /\ sysLast = ""
      <3>1. ToWrite' = ToWrite /\ (Agree' <=> Agree)
        BY <2>1 DEF ToWrite, Agree
      <3>2. flight.pass # 0
        BY <2>1
      <3> QED BY <1>1, <2>1, <3>1, <3>2 DEF FlightIsAll
    <2>3. CASE flight.failed # {} /\ flight.pass = 1
      <3>1. flight' = [pass |-> 2, left |-> flight.failed, failed |-> {}] /\ sysLast' = sysLast
        BY <1>8, <2>3 DEF SysfsPassDone
      <3>2. flight'.pass = 2 /\ flight'.left = flight.failed /\ flight'.failed = {}
        BY <3>1
      <3>3. Refused' = Refused
        BY <2>3, <3>2 DEF Refused
      <3>4. SysShape' /\ Ordered' /\ EntriesOK'
        BY <1>1, <2>1, <2>2, <3>1 DEF SysShape, Ordered, EntriesOK
      <3>5. FlightIsAll' /\ RefusedForGood' /\ BatchReaches'
        <4>1. FlightIsAll'
          <5>1. flight'.pass # 0
            BY <3>2
          <5>3. sysLast' = ""
            BY <2>2, <3>1
          <5>2. flight'.left \cup flight'.failed = ToWrite' /\ flight'.left \cap flight'.failed = {}
            BY <2>2, <3>2
          <5> QED BY <5>1, <5>2, <5>3 DEF FlightIsAll
        <4>2. sysLast' = "" /\ flight'.failed = {}
          BY <2>2, <3>1, <3>2
        <4> QED BY <4>1, <4>2 DEF RefusedForGood, BatchReaches
      <3>6. OneRefused'
        BY <1>1, <2>1, <2>2, <3>3 DEF OneRefused
      <3> QED BY <3>4, <3>5, <3>6 DEF SysInv
    <2>4. CASE ~(flight.failed # {} /\ flight.pass = 1)
      <3>1. flight' = NoFlight /\ sysLast' = IF flight.failed = {} THEN "write_batch" ELSE "failed"
        BY <1>8, <2>4 DEF SysfsPassDone
      <3>2. flight'.pass = 0 /\ flight'.failed = {} /\ Refused' = {}
        BY <3>1 DEF NoFlight, Refused
      <3>3. SysShape' /\ Ordered' /\ EntriesOK'
        BY <1>1, <2>1, <2>2, <3>1 DEF SysShape, Ordered, EntriesOK, NoFlight
      <3>4. FlightIsAll' /\ RefusedForGood' /\ OneRefused'
        BY <3>1, <3>2 DEF FlightIsAll, RefusedForGood, OneRefused
      <3>5. CASE flight.failed = {}
        <4>1. sysLast' = "write_batch" /\ ToWrite = {}
          BY <2>2, <3>1, <3>5
        <4>2. BatchReaches'
          BY <1>1, <2>1, <4>1 DEF BatchReaches, EntriesOK
        <4> QED BY <3>3, <3>4, <4>2 DEF SysInv
      <3>6. CASE flight.failed # {}
        <4>1. sysLast' = "failed" /\ flight.pass = 2
          BY <1>1, <2>1, <2>4, <3>1, <3>6 DEF SysShape
        <4>2. \A n \in DOMAIN entry : entry[n].doWrite => n \in flight.failed
          BY <1>1, <2>2 DEF ToWrite
        <4>3. BatchReaches'
          BY <1>1, <2>1, <2>2, <4>1, <4>2 DEF BatchReaches, RefusedForGood
        <4> QED BY <3>3, <3>4, <4>3 DEF SysInv
      <3> QED BY <3>5, <3>6
    <2> QED BY <2>3, <2>4
  <1>9. ASSUME NEW b \in BOOLEAN, SysfsSave(b) PROVE SysInv'
    <2>1. /\ flight = NoFlight /\ sysLast' = "" /\ UNCHANGED <<attr, entry, flight, overridden>>
          /\ controlSaver' = IF controlSaver = Nothing THEN SettingsNow ELSE controlSaver
          /\ jsonFile' = IF b THEN controlSaver' ELSE jsonFile
      BY <1>9 DEF SysfsSave, Ready
    <2>2. SettingsNow \in [Attrs -> Nat]
      BY <1>1 DEF SettingsNow, NaN
    <2>3. SysShape' /\ Ordered'
      BY <1>1, <2>1, <2>2 DEF SysShape, Ordered
    <2>4. EntriesOK'
      BY <1>1, <2>1 DEF EntriesOK, ToWrite
    <2> QED BY <1>0, <2>1, <2>3, <2>4 DEF SysRest
  <1>10. ASSUME NEW b \in BOOLEAN, SysfsRestore(b) PROVE SysInv'
    <2> DEFINE used == IF controlSaver = Nothing /\ b THEN jsonFile ELSE controlSaver
    <2>1. /\ flight = NoFlight /\ used # Nothing /\ sysLast' = "restore" /\ overridden' = Names
          /\ controlSaver' = used /\ attr' = Replay(attr, used) /\ UNCHANGED <<entry, jsonFile, flight>>
      BY <1>10 DEF SysfsRestore, Ready
    <2>2. used \in [Attrs -> Nat]
      BY <1>1, <2>1 DEF SysShape
    <2> HIDE DEF used
    <2>3. attr' \in [Attrs -> Nat] /\ attr'["min"] <= attr'["max"]
      BY <1>1, <2>1, <2>2, ReplayKeeps
    <2>4. SysShape' /\ Ordered'
      BY <1>1, <2>1, <2>2, <2>3 DEF SysShape, Ordered
    <2>5. EntriesOK'
      BY <1>1, <2>1 DEF EntriesOK, ToWrite
    <2> QED BY <1>0, <2>1, <2>4, <2>5 DEF SysRest
  <1>11. CASE SysfsRestart
    <2>1. /\ flight = NoFlight /\ sysLast' = "" /\ entry' = [n \in {} |-> NaN] /\ controlSaver' = Nothing
          /\ UNCHANGED <<attr, jsonFile, flight>>
      BY <1>11 DEF SysfsRestart, Ready
    <2>2. DOMAIN entry' = {} /\ entry' \in [DOMAIN entry' -> [value : Nat, doWrite : BOOLEAN]]
      BY <2>1
    <2>3. SysShape' /\ Ordered'
      BY <1>1, <2>1, <2>2 DEF SysShape, Ordered
    <2>4. EntriesOK'
      BY <2>2 DEF EntriesOK
    <2> QED BY <1>0, <2>1, <2>3, <2>4 DEF SysRest
  <1> QED BY <1>2, <1>3, <1>4, <1>5, <1>6, <1>7, <1>8, <1>9, <1>10, <1>11 DEF SysfsNext

\* A write_batch() that returns has put every adjusted setting in its file, and what it
\* gives up the kernel would refuse in every order: one retry is enough, for any set of
\* frequencies and any order in which IOUring completes the writes.
THEOREM OneRetryIsEnough == SysfsSpec => []BatchReaches
  <1>1. SysInv => BatchReaches
    BY DEF SysInv
  <1> QED BY <1>1, SysInvInit, SysInvNext, PTL DEF SysfsSpec

-----------------------------------------------------------------------------
(* MSRs: a read-modify-write leaves the other fields alone *)

\* The shapes of the records: what the provers need to know of EXCEPT.
BatchShape(b) ==
  /\ b = [isrd |-> b.isrd, data |-> b.data, mask |-> b.mask, val |-> b.val]
  /\ b.isrd \in BOOLEAN /\ b.data = [f \in Fields |-> b.data[f]]

CallShape(c) ==
  /\ c = [op |-> c.op, attempt |-> c.attempt, todo |-> c.todo, failed |-> c.failed,
          work |-> c.work, pass |-> c.pass, buf |-> c.buf]
  /\ c.pass \in {0, 1} /\ c.buf = [f \in Fields |-> c.buf[f]]
  /\ \E G, S : c.work \in Seq(G \X S)

MsrShape ==
  /\ msr = [f \in Fields |-> msr[f]]
  /\ ctx = [c \in {0, 1} |-> ctx[c]] /\ \A c \in {0, 1} : BatchShape(ctx[c])
  /\ CallShape(call)

Own == Fields \ ForeignFields

\* The batch of context c is between its two passes.
Busy(c) == InBatch /\ Context = c /\ call.pass = 1

\* The data of context c are the register with the adjusted fields replaced.
Modified(c) == \A f \in Own : ctx[c].data[f] = IF f \in ctx[c].mask THEN ctx[c].val[f] ELSE msr[f]

\* A context whose batch did not stop half way reads the register in its first pass,
\* and what it holds between its passes is still what the register has.
ContextsOK ==
  \A c \in {0, 1} :
    /\ Busy(c) => ctx[c].isrd = FALSE
    /\ c \notin torn => IF Busy(c) THEN Modified(c) ELSE ctx[c].isrd = TRUE

\* What write_msr() has read is still what the register has.
BufferOK ==
  /\ call.work # <<>> => ~InBatch
  /\ call.work # <<>> /\ call.pass = 1 => \A f \in Own : call.buf[f] = msr[f]
  /\ call.work = <<>> /\ ~InBatch => call.pass = 0

MsrInv == MsrShape /\ ContextsOK /\ BufferOK

LEMMA NoBatchShape == BatchShape(NoBatch)
  <1>1. NoBatch.isrd = TRUE /\ NoBatch.data = [f \in Fields |-> NoBatch.data[f]]
    BY DEF NoBatch, Blank
  <1>2. NoBatch = [isrd |-> NoBatch.isrd, data |-> NoBatch.data, mask |-> NoBatch.mask, val |-> NoBatch.val]
    BY DEF NoBatch
  <1> QED BY <1>1, <1>2 DEF BatchShape

LEMMA IdleShape == CallShape(Idle) /\ Idle.work = <<>> /\ Idle.pass = 0 /\ Idle.op = "idle"
  <1>1. Idle.work \in Seq(Fields \X Nat)
    BY DEF Idle
  <1>2. /\ Idle.work = <<>> /\ Idle.pass = 0 /\ Idle.op = "idle"
        /\ Idle.buf = [f \in Fields |-> Idle.buf[f]]
        /\ Idle = [op |-> Idle.op, attempt |-> Idle.attempt, todo |-> Idle.todo, failed |-> Idle.failed,
                   work |-> Idle.work, pass |-> Idle.pass, buf |-> Idle.buf]
    BY DEF Idle
  <1>3. \E G, S : Idle.work \in Seq(G \X S)
    BY <1>1
  <1> QED BY <1>2, <1>3 DEF CallShape

LEMMA MsrInvInit == MSRInit => MsrInv
  <1> SUFFICES ASSUME MSRInit PROVE MsrInv
    OBVIOUS
  <1>1. msr \in Registers /\ ctx = [c \in 0..1 |-> NoBatch] /\ call = Idle /\ torn = {}
    BY DEF MSRInit
  <1>0. 0..1 = {0, 1}
    OBVIOUS
  <1>2. msr = [f \in Fields |-> msr[f]]
    BY <1>1 DEF Registers, Fields
  <1>3. \A c \in {0, 1} : ctx[c] = NoBatch
    BY <1>0, <1>1
  <1>4. CallShape(call) /\ call.work = <<>> /\ call.pass = 0 /\ call.op = "idle"
    BY <1>1, IdleShape
  <1>6. ctx = [c \in {0, 1} |-> ctx[c]]
    BY <1>0, <1>1
  <1>7. MsrShape
    BY <1>2, <1>3, <1>4, <1>6, NoBatchShape DEF MsrShape
  <1>8. ContextsOK /\ BufferOK
    BY <1>3, <1>4 DEF ContextsOK, BufferOK, Busy, NoBatch
  <1> QED BY <1>7, <1>8 DEF MsrInv

\* A call starts, or goes on to a part that has read nothing yet, or ends: no batch was
\* in flight.
LEMMA AtIdle ==
    ASSUME MsrInv, ~InBatch, UNCHANGED <<ctx, torn>>, msr' = [f \in Fields |-> msr'[f]], CallShape(call'),
           call'.pass = 0, InBatch' => call'.work = <<>>
    PROVE  MsrInv'
  BY DEF MsrInv, MsrShape, ContextsOK, BufferOK, Busy

LEMMA WorkIsPairs ==
    ASSUME NEW f, NEW setting
    PROVE  \E G, S : WorkOf(f, setting) \in Seq(G \X S)
  <1> DEFINE G == {f, "EN"}
             S == {Encode(f, setting), Encode("EN", setting)}
             one == << <<f, Encode(f, setting)>> >>
             enable == << <<"EN", Encode("EN", setting)>> >>
  <1>1. <<f, Encode(f, setting)>> \in G \X S /\ <<"EN", Encode("EN", setting)>> \in G \X S
    OBVIOUS
  <1>2. one \in Seq(G \X S) /\ enable \in Seq(G \X S) /\ <<>> \in Seq(G \X S)
    BY <1>1
  <1>3. WorkOf(f, setting) = (IF f = "PL" THEN enable ELSE <<>>) \o one
    BY DEF WorkOf
  <1> HIDE DEF G, S, one, enable
  <1>4. WorkOf(f, setting) \in Seq(G \X S)
    BY <1>2, <1>3
  <1> QED BY <1>4

\* What KeepsOthers says of a step.
KeepsStep ==
  (InBatch => Context \notin torn) =>
    \A f \in Own : msr'[f] # msr[f] => Asked(f, msr'[f])

\* The step of a batch that writes the register, whether it succeeds or not: the data
\* differ from the register in adjusted fields only.
LEMMA BatchWrites ==
    ASSUME MsrInv, InBatch, ctx[Context].isrd = FALSE, msr' = ctx[Context].data
    PROVE  KeepsStep
  <1> SUFFICES ASSUME Context \notin torn, NEW f \in Own, msr'[f] # msr[f] PROVE Asked(f, msr'[f])
    BY DEF KeepsStep
  <1>1. Context \in {0, 1}
    BY DEF Context
  <1>2. Busy(Context) /\ Modified(Context)
    BY <1>1 DEF MsrInv, ContextsOK
  <1>3. f \in ctx[Context].mask /\ ctx[Context].val[f] = msr'[f]
    BY <1>2 DEF Modified
  <1> QED BY <1>3 DEF Asked

\* write_msr() writes what it read with one field replaced.
LEMMA DirectWrites ==
    ASSUME MsrInv, call.work # <<>>, call.pass = 1,
           msr' = [call.buf EXCEPT ![Head(call.work)[1]] = Head(call.work)[2]]
    PROVE  KeepsStep /\ msr' = [f \in Fields |-> msr'[f]]
  <1>1. PICK G, S : call.work \in Seq(G \X S)
    BY DEF MsrInv, MsrShape, CallShape
  <1>2. Head(call.work) \in G \X S
    BY <1>1
  <1>3. PICK g \in G, x \in S : Head(call.work) = <<g, x>>
    BY <1>2
  <1>4. call.buf = [f \in Fields |-> call.buf[f]] /\ \A f \in Own : call.buf[f] = msr[f]
    BY DEF MsrInv, MsrShape, CallShape, BufferOK
  <1>5. msr' = [call.buf EXCEPT ![g] = x]
    BY <1>3
  <1>6. \A f \in Fields : msr'[f] = IF f = g THEN x ELSE call.buf[f]
    BY <1>3, <1>4, <1>5
  <1>7. msr' = [f \in Fields |-> msr'[f]]
    BY <1>4, <1>5
  <1>8. \A f \in Own : msr'[f] # msr[f] => f = g /\ msr'[f] = x
    BY <1>4, <1>6 DEF Own
  <1> QED BY <1>3, <1>7, <1>8 DEF KeepsStep, Asked

LEMMA MsrStep == MsrInv /\ MSRNext => MsrInv' /\ KeepsStep
  <1> SUFFICES ASSUME MsrInv, MSRNext PROVE MsrInv' /\ KeepsStep
    OBVIOUS
  <1>1. /\ MsrShape /\ ContextsOK /\ BufferOK /\ CallShape(call) /\ Context \in {0, 1}
        /\ msr = [f \in Fields |-> msr[f]] /\ ctx = [c \in {0, 1} |-> ctx[c]]
        /\ \A c \in {0, 1} : BatchShape(ctx[c])
    BY DEF MsrInv, MsrShape, Context
  <1>2. call = Idle => ~InBatch /\ call.work = <<>>
    BY IdleShape DEF InBatch
  <1>3. UNCHANGED msr => KeepsStep
    BY DEF KeepsStep
  <1>4. UNCHANGED <<msr, ctx, torn, call>> => MsrInv'
    BY DEF MsrInv, MsrShape, ContextsOK, BufferOK, Busy, Modified, InBatch, Context
  <1>5. ASSUME NEW f \in Fields, PushControl(f) PROVE MsrInv' /\ KeepsStep
    BY <1>3, <1>4, <1>5 DEF PushControl
  <1>6. CASE Activate \/ SaveInMemory \/ SaveFile
    BY <1>3, <1>4, <1>6 DEF Activate, SaveInMemory, SaveFile
  <1>7. ASSUME NEW f \in Fields, NEW s, Adjust(f, s) PROVE MsrInv' /\ KeepsStep
    <2>1. PICK mask, val : ctx' = [ctx EXCEPT ![0].mask = mask, ![0].val = val]
      BY <1>7 DEF Adjust
    <2>2. /\ UNCHANGED <<msr, call, torn>> /\ call = Idle
      BY <1>7 DEF Adjust
    <2>3. ctx' = [c \in {0, 1} |-> ctx'[c]] /\ \A c \in {0, 1} : BatchShape(ctx'[c]) /\ ctx'[c].isrd = ctx[c].isrd
      BY <1>1, <2>1 DEF BatchShape
    <2>4. MsrShape'
      BY <1>1, <2>2, <2>3 DEF MsrShape
    <2>5. ContextsOK' /\ BufferOK'
      BY <1>1, <1>2, <2>2, <2>3 DEF ContextsOK, BufferOK, Busy, InBatch
    <2> QED BY <1>3, <2>2, <2>4, <2>5 DEF MsrInv
  <1>8. ASSUME NEW f \in Fields, NEW s, WriteControl(f, s) PROVE MsrInv' /\ KeepsStep
    <2>1. /\ call = Idle /\ UNCHANGED <<msr, ctx, torn>>
          /\ call' = [Idle EXCEPT !.op = "write_control", !.attempt = 1, !.work = WorkOf(f, s)]
      BY <1>8 DEF WriteControl, Begin
    <2>2. call'.op = "write_control" /\ call'.work = WorkOf(f, s) /\ call'.pass = 0 /\ call'.buf = Idle.buf
      BY <2>1 DEF Idle
    <2>3. CallShape(call')
      <3>1. call' = [op |-> call'.op, attempt |-> call'.attempt, todo |-> call'.todo, failed |-> call'.failed,
                     work |-> call'.work, pass |-> call'.pass, buf |-> call'.buf]
        BY <2>1 DEF Idle
      <3>2. \E G, S : call'.work \in Seq(G \X S)
        <4>1. PICK G, S : WorkOf(f, s) \in Seq(G \X S)
          BY WorkIsPairs
        <4>2. call'.work \in Seq(G \X S)
          BY <2>2, <4>1
        <4> QED BY <4>2
      <3>3. call'.pass \in {0, 1} /\ call'.buf = [g \in Fields |-> call'.buf[g]]
        BY <2>2, IdleShape DEF CallShape
      <3> QED BY <3>1, <3>2, <3>3 DEF CallShape
    <2> QED BY <1>1, <1>2, <1>3, <2>1, <2>2, <2>3, AtIdle DEF InBatch
  <1>9. CASE WriteBatch \/ RestoreFile
    <2>1. call = Idle /\ UNCHANGED <<msr, ctx, torn>>
      BY <1>9 DEF WriteBatch, RestoreFile, Begin
    <2>2. CallShape(call') /\ call'.work = <<>> /\ call'.pass = 0
      <3>1. \/ call' = [Idle EXCEPT !.op = "write_batch"]
            \/ call' = [Idle EXCEPT !.op = "restore_file", !.todo = FieldOrder]
        BY <1>9 DEF WriteBatch, RestoreFile, Begin
      <3>2. /\ call'.work = Idle.work /\ call'.pass = Idle.pass /\ call'.buf = Idle.buf
            /\ call' = [op |-> call'.op, attempt |-> call'.attempt, todo |-> call'.todo, failed |-> call'.failed,
                        work |-> call'.work, pass |-> call'.pass, buf |-> call'.buf]
        BY <3>1 DEF Idle
      <3> QED BY <3>2, IdleShape DEF CallShape
    <2> QED BY <1>1, <1>2, <1>3, <2>1, <2>2, AtIdle
  <1>10. CASE RestoreControl
    <2>1. /\ call = Idle /\ UNCHANGED <<msr, torn>> /\ call' = [Idle EXCEPT !.op = "restore_control"]
          /\ ctx' = [ctx EXCEPT ![1].mask = Fields, ![1].val = memory]
      BY <1>10 DEF RestoreControl, Begin
    <2>2. /\ call'.work = Idle.work /\ call'.pass = Idle.pass /\ call'.buf = Idle.buf
          /\ call' = [op |-> call'.op, attempt |-> call'.attempt, todo |-> call'.todo, failed |-> call'.failed,
                      work |-> call'.work, pass |-> call'.pass, buf |-> call'.buf]
      BY <2>1 DEF Idle
    <2>3. CallShape(call') /\ call'.work = <<>> /\ call'.pass = 0
      BY <2>2, IdleShape DEF CallShape
    <2>4. ctx' = [c \in {0, 1} |-> ctx'[c]] /\ \A c \in {0, 1} : BatchShape(ctx'[c]) /\ ctx'[c].isrd = ctx[c].isrd
      BY <1>1, <2>1 DEF BatchShape
    <2>5. MsrShape'
      BY <1>1, <2>1, <2>3, <2>4 DEF MsrShape
    <2>6. ContextsOK' /\ BufferOK'
      BY <1>1, <1>2, <2>1, <2>3, <2>4 DEF ContextsOK, BufferOK, Busy
    <2> QED BY <1>3, <2>1, <2>5, <2>6 DEF MsrInv
  <1>11. CASE FirstPass
    <2>0. PICK c \in {0, 1} : c = Context
      BY <1>1
    <2> DEFINE b == ctx[c]
               data == IF b.isrd THEN msr ELSE b.data
               new == [b EXCEPT !.isrd = FALSE, !.data = Modify(data, b.mask, b.val)]
    <2>1. /\ InBatch /\ call.pass = 0 /\ call' = [call EXCEPT !.pass = 1] /\ UNCHANGED torn
          /\ ctx' = [ctx EXCEPT ![c].isrd = FALSE, ![c].data = Modify(data, b.mask, b.val)]
          /\ IF b.isrd THEN UNCHANGED msr ELSE Written(b.data)
      BY <1>11, <2>0 DEF FirstPass
    <2>2. BatchShape(b)
      BY <1>1
    <2>3. ctx' = [ctx EXCEPT ![c] = new]
      BY <1>1, <2>1
    <2>4. /\ new = [isrd |-> new.isrd, data |-> new.data, mask |-> new.mask, val |-> new.val]
          /\ new.isrd = FALSE /\ new.mask = b.mask /\ new.val = b.val
          /\ new.data = [f \in Fields |-> IF f \in b.mask THEN b.val[f] ELSE data[f]]
      <3> DEFINE more == Modify(data, b.mask, b.val)
      <3>1. more = [f \in Fields |-> IF f \in b.mask THEN b.val[f] ELSE data[f]]
        BY DEF Modify
      <3>2. b = [isrd |-> b.isrd, data |-> b.data, mask |-> b.mask, val |-> b.val]
        BY <2>2 DEF BatchShape
      <3>3. new = [b EXCEPT !.isrd = FALSE, !.data = more]
        OBVIOUS
      <3> HIDE DEF more, new, data
      <3>4. new = [isrd |-> FALSE, data |-> more, mask |-> b.mask, val |-> b.val]
        BY <3>2, <3>3
      <3> QED BY <3>1, <3>4
    <2>5. BatchShape(new)
      BY <2>4 DEF BatchShape
    <2>6. ctx' = [d \in {0, 1} |-> ctx'[d]] /\ ctx'[c] = new /\ \A d \in {0, 1} : d # c => ctx'[d] = ctx[d]
      BY <1>1, <2>3
    <2>7. /\ call'.op = call.op /\ call'.work = call.work /\ call'.pass = 1 /\ call'.buf = call.buf
          /\ call' = [op |-> call'.op, attempt |-> call'.attempt, todo |-> call'.todo, failed |-> call'.failed,
                      work |-> call'.work, pass |-> call'.pass, buf |-> call'.buf]
      BY <1>1, <2>1 DEF CallShape
    <2>8. CallShape(call')
      BY <1>1, <2>7 DEF CallShape
    <2>9. msr' = [f \in Fields |-> msr'[f]]
      BY <1>1, <2>1, <2>2 DEF BatchShape, Written
    <2>10. MsrShape'
      BY <1>1, <2>5, <2>6, <2>8, <2>9 DEF MsrShape
    <2>11. c \notin torn => b.isrd = TRUE
      BY <1>1, <2>1 DEF ContextsOK, Busy
    <2>12. Context' = c /\ InBatch' /\ call.work = <<>>
      BY <1>1, <2>0, <2>1, <2>7 DEF Context, InBatch, BufferOK
    <2>13. BufferOK'
      BY <2>7, <2>12 DEF BufferOK
    <2>14. c \notin torn => Modified(c)'
      <3> SUFFICES ASSUME c \notin torn, NEW f \in Own
                   PROVE  ctx'[c].data[f] = IF f \in ctx'[c].mask THEN ctx'[c].val[f] ELSE msr'[f]
        BY DEF Modified
      <3>1. b.isrd = TRUE /\ msr' = msr /\ data = msr /\ f \in Fields
        BY <2>1, <2>11 DEF Own
      <3> HIDE DEF new, data
      <3> QED BY <2>4, <2>6, <3>1
    <2>15. ContextsOK'
      <3> SUFFICES ASSUME NEW d \in {0, 1}
                   PROVE  /\ Busy(d)' => ctx'[d].isrd = FALSE
                          /\ d \notin torn => IF Busy(d)' THEN Modified(d)' ELSE ctx'[d].isrd = TRUE
        BY <2>1 DEF ContextsOK
      <3>1. CASE d = c
        BY <2>4, <2>6, <2>7, <2>12, <2>14, <3>1 DEF Busy
      <3>2. CASE d # c
        <4>1. ~Busy(d)' /\ ~Busy(d) /\ ctx'[d] = ctx[d]
          BY <2>0, <2>6, <2>12, <3>2 DEF Busy
        <4> QED BY <1>1, <4>1 DEF ContextsOK
      <3> QED BY <3>1, <3>2
    <2>16. KeepsStep
      BY <2>0, <2>1, <2>11 DEF KeepsStep
    <2> QED BY <2>10, <2>13, <2>15, <2>16 DEF MsrInv
  <1>12. CASE SecondPass
    <2>0. PICK c \in {0, 1} : c = Context
      BY <1>1
    <2>1. /\ InBatch /\ call.pass = 1 /\ msr' = ctx[c].data /\ ctx' = [ctx EXCEPT ![c] = NoBatch]
          /\ torn' = torn \ {c} /\ call' = Idle
      BY <1>12, <2>0 DEF SecondPass, Written, Return
    <2>2. BatchShape(ctx[c]) /\ ctx[c].isrd = FALSE
      BY <1>1, <2>0, <2>1 DEF ContextsOK, Busy
    <2>3. KeepsStep
      BY <2>0, <2>1, <2>2, BatchWrites
    <2>4. msr' = [f \in Fields |-> msr'[f]]
      BY <2>1, <2>2 DEF BatchShape
    <2>5. ctx' = [d \in {0, 1} |-> ctx'[d]] /\ ctx'[c] = NoBatch /\ \A d \in {0, 1} : d # c => ctx'[d] = ctx[d]
      BY <1>1, <2>1
    <2>6. CallShape(call') /\ call'.work = <<>> /\ call'.pass = 0 /\ ~InBatch'
      BY <2>1, IdleShape DEF InBatch
    <2>7. MsrShape'
      BY <1>1, <2>4, <2>5, <2>6, NoBatchShape DEF MsrShape
    <2>8. BufferOK'
      BY <2>6 DEF BufferOK
    <2>9. ContextsOK'
      <3>1. NoBatch.isrd = TRUE
        BY DEF NoBatch
      <3>2. \A d \in {0, 1} : d # c /\ d \notin torn => ctx[d].isrd = TRUE
        BY <1>1, <2>0 DEF ContextsOK, Busy
      <3> QED BY <2>1, <2>5, <2>6, <3>1, <3>2 DEF ContextsOK, Busy
    <2> QED BY <2>3, <2>7, <2>8, <2>9 DEF MsrInv
  <1>13. CASE PassFails
    <2>0. PICK c \in {0, 1} : c = Context
      BY <1>1
    <2>1. /\ InBatch /\ UNCHANGED ctx /\ call' = Idle
          /\ UNCHANGED msr \/ (~ctx[c].isrd /\ msr' = ctx[c].data)
          /\ torn' = IF ~ctx[c].isrd THEN torn \cup {c} ELSE torn
      BY <1>13, <2>0 DEF PassFails, Written, Return
    <2>2. BatchShape(ctx[c]) /\ ctx[c].isrd \in BOOLEAN
      BY <1>1 DEF BatchShape
    <2>3. KeepsStep /\ msr' = [f \in Fields |-> msr'[f]]
      <3>1. CASE UNCHANGED msr
        BY <1>1, <1>3, <3>1
      <3>2. CASE ~ctx[c].isrd /\ msr' = ctx[c].data
        <4>1. ctx[c].isrd = FALSE
          BY <2>2, <3>2
        <4>2. KeepsStep
          BY <2>0, <2>1, <3>2, <4>1, BatchWrites
        <4> QED BY <2>2, <3>2, <4>2 DEF BatchShape
      <3> QED BY <2>1, <3>1, <3>2
    <2>4. CallShape(call') /\ call'.work = <<>> /\ call'.pass = 0 /\ ~InBatch'
      BY <2>1, IdleShape DEF InBatch
    <2>5. MsrShape' /\ BufferOK'
      BY <1>1, <2>1, <2>3, <2>4 DEF MsrShape, BufferOK
    <2>6. ASSUME NEW d \in {0, 1}, d \notin torn' PROVE ctx[d].isrd = TRUE
      <3>1. CASE d = c
        BY <2>1, <2>2, <2>6, <3>1
      <3>2. CASE d # c
        <4>1. d \notin torn /\ ~Busy(d)
          BY <2>0, <2>1, <2>6, <3>2 DEF Busy
        <4> QED BY <1>1, <4>1 DEF ContextsOK
      <3> QED BY <3>1, <3>2
    <2>7. ContextsOK'
      BY <2>1, <2>4, <2>6 DEF ContextsOK, Busy
    <2> QED BY <2>3, <2>5, <2>7 DEF MsrInv
  <1>14. CASE ReadMSR
    <2>1. /\ call.work # <<>> /\ UNCHANGED <<msr, ctx, torn>> /\ call' = [call EXCEPT !.pass = 1, !.buf = msr]
      BY <1>14 DEF ReadMSR
    <2>2. /\ call'.op = call.op /\ call'.work = call.work /\ call'.pass = 1 /\ call'.buf = msr
          /\ call' = [op |-> call'.op, attempt |-> call'.attempt, todo |-> call'.todo, failed |-> call'.failed,
                      work |-> call'.work, pass |-> call'.pass, buf |-> call'.buf]
      BY <1>1, <2>1 DEF CallShape
    <2>3. CallShape(call')
      BY <1>1, <2>2 DEF CallShape
    <2>4. MsrShape'
      BY <1>1, <2>1, <2>3 DEF MsrShape
    <2>5. ~InBatch /\ ~InBatch'
      BY <1>1, <2>1, <2>2 DEF BufferOK, InBatch
    <2>6. ContextsOK'
      BY <1>1, <2>1, <2>5 DEF ContextsOK, Busy
    <2>7. BufferOK'
      BY <2>1, <2>2, <2>5 DEF BufferOK
    <2> QED BY <1>3, <2>1, <2>4, <2>6, <2>7 DEF MsrInv
  <1>15. CASE WriteMSR
    <2>1. /\ call.work # <<>> /\ call.pass = 1 /\ UNCHANGED <<ctx, torn>>
          /\ msr' = [call.buf EXCEPT ![Head(call.work)[1]] = Head(call.work)[2]]
          /\ \/ call' = Idle
             \/ call' = [call EXCEPT !.work = Tail(@), !.pass = 0, !.buf = Blank]
      BY <1>15 DEF WriteMSR, Written, Return
    <2>2. KeepsStep /\ msr' = [f \in Fields |-> msr'[f]]
      BY <2>1, DirectWrites
    <2>3. ~InBatch
      BY <1>1, <2>1 DEF BufferOK
    <2>4. CallShape(call') /\ call'.pass = 0 /\ ~InBatch'
      <3>1. CASE call' = Idle
        BY <3>1, IdleShape DEF InBatch
      <3>2. CASE call' = [call EXCEPT !.work = Tail(@), !.pass = 0, !.buf = Blank]
        <4>1. /\ call' = [op |-> call'.op, attempt |-> call'.attempt, todo |-> call'.todo, failed |-> call'.failed,
                          work |-> call'.work, pass |-> call'.pass, buf |-> call'.buf]
              /\ call'.op = call.op /\ call'.work = Tail(call.work) /\ call'.pass = 0 /\ call'.buf = Blank
          BY <1>1, <3>2 DEF CallShape
        <4>2. PICK G, S : call.work \in Seq(G \X S)
          BY <1>1 DEF CallShape
        <4>3. call'.work \in Seq(G \X S)
          BY <2>1, <4>1, <4>2
        <4>4. \E F, T : call'.work \in Seq(F \X T)
          BY <4>3
        <4>5. call'.pass \in {0, 1} /\ call'.buf = [f \in Fields |-> call'.buf[f]]
          BY <4>1 DEF Blank
        <4> QED BY <2>3, <4>1, <4>4, <4>5 DEF CallShape, InBatch
      <3> QED BY <2>1, <3>1, <3>2
    <2> QED BY <2>1, <2>2, <2>3, <2>4, AtIdle
  <1>16. CASE AccessFails
    <2>1. /\ call.work # <<>> /\ UNCHANGED <<ctx, torn>>
          /\ \/ UNCHANGED msr
             \/ call.pass = 1 /\ msr' = [call.buf EXCEPT ![Head(call.work)[1]] = Head(call.work)[2]]
          /\ \/ call' = Idle
             \/ call' = [call EXCEPT !.work = <<>>, !.pass = 0, !.buf = Blank,
                                     !.failed = Append(@, Last(call.work)[1])]
      BY <1>16 DEF AccessFails, Written, Return
    <2>2. KeepsStep /\ msr' = [f \in Fields |-> msr'[f]]
      BY <1>1, <1>3, <2>1, DirectWrites
    <2>3. ~InBatch
      BY <1>1, <2>1 DEF BufferOK
    <2>4. CallShape(call') /\ call'.pass = 0 /\ ~InBatch'
      <3>1. CASE call' = Idle
        BY <3>1, IdleShape DEF InBatch
      <3>2. CASE call' = [call EXCEPT !.work = <<>>, !.pass = 0, !.buf = Blank,
                                      !.failed = Append(@, Last(call.work)[1])]
        <4> DEFINE worse == Append(call.failed, Last(call.work)[1])
        <4>0. call' = [call EXCEPT !.work = <<>>, !.pass = 0, !.buf = Blank, !.failed = worse]
          BY <3>2
        <4> HIDE DEF worse
        <4>1. /\ call' = [op |-> call'.op, attempt |-> call'.attempt, todo |-> call'.todo, failed |-> call'.failed,
                          work |-> call'.work, pass |-> call'.pass, buf |-> call'.buf]
              /\ call'.op = call.op /\ call'.work = <<>> /\ call'.pass = 0 /\ call'.buf = Blank
          BY <1>1, <4>0 DEF CallShape
        <4>2. call'.work \in Seq(Fields \X Nat)
          BY <4>1
        <4>3. \E G, T : call'.work \in Seq(G \X T)
          BY <4>2
        <4>4. call'.pass \in {0, 1} /\ call'.buf = [f \in Fields |-> call'.buf[f]]
          BY <4>1 DEF Blank
        <4> QED BY <2>3, <4>1, <4>3, <4>4 DEF CallShape, InBatch
      <3> QED BY <2>1, <3>1, <3>2
    <2> QED BY <2>1, <2>2, <2>3, <2>4, AtIdle
  <1>17. CASE NextSetting
    <2>1. PICK f, setting :
             /\ UNCHANGED <<msr, ctx, torn>> /\ call.op = "restore_file" /\ call.work = <<>>
             /\ \/ call' = [call EXCEPT !.todo = Tail(@), !.work = WorkOf(f, setting)]
                \/ call' = [call EXCEPT !.todo = Tail(@), !.failed = Append(@, f)]
      BY <1>17 DEF NextSetting
    <2>2. call.pass = 0 /\ ~InBatch
      BY <1>1, <2>1 DEF BufferOK, InBatch
    <2>3. \E work, todo, failed : /\ call' = [call EXCEPT !.todo = todo, !.work = work, !.failed = failed]
                                 /\ \E G, S : work \in Seq(G \X S)
      <3>1. CASE call' = [call EXCEPT !.todo = Tail(@), !.work = WorkOf(f, setting)]
        <4>1. call' = [call EXCEPT !.todo = Tail(call.todo), !.work = WorkOf(f, setting), !.failed = call.failed]
          BY <1>1, <3>1 DEF CallShape
        <4> QED BY <4>1, WorkIsPairs
      <3>2. CASE call' = [call EXCEPT !.todo = Tail(@), !.failed = Append(@, f)]
        <4>1. call' = [call EXCEPT !.todo = Tail(call.todo), !.work = call.work, !.failed = Append(call.failed, f)]
          BY <1>1, <3>2 DEF CallShape
        <4>2. \E G, S : call.work \in Seq(G \X S)
          BY <1>1 DEF CallShape
        <4> QED BY <4>1, <4>2
      <3> QED BY <2>1, <3>1, <3>2
    <2>4. PICK work, todo, failed : /\ call' = [call EXCEPT !.todo = todo, !.work = work, !.failed = failed]
                                    /\ \E G, S : work \in Seq(G \X S)
      BY <2>3
    <2>5. /\ call' = [op |-> call'.op, attempt |-> call'.attempt, todo |-> call'.todo, failed |-> call'.failed,
                      work |-> call'.work, pass |-> call'.pass, buf |-> call'.buf]
          /\ call'.op = call.op /\ call'.work = work /\ call'.pass = call.pass /\ call'.buf = call.buf
      BY <1>1, <2>4 DEF CallShape
    <2>6. CallShape(call')
      BY <1>1, <2>4, <2>5 DEF CallShape
    <2> QED BY <1>1, <1>3, <2>1, <2>2, <2>5, <2>6, AtIdle DEF InBatch
  <1>19. CASE EndAttempt
    <2>1. /\ UNCHANGED <<msr, ctx, torn>> /\ call.op = "restore_file" /\ call.work = <<>>
          /\ \/ call' = [call EXCEPT !.attempt = 1, !.todo = call.failed, !.failed = <<>>]
             \/ call' = Idle
      BY <1>19 DEF EndAttempt, Return
    <2>2. call.pass = 0 /\ ~InBatch
      BY <1>1, <2>1 DEF BufferOK, InBatch
    <2>3. CASE call' = [call EXCEPT !.attempt = 1, !.todo = call.failed, !.failed = <<>>]
      <3>1. /\ call' = [op |-> call'.op, attempt |-> call'.attempt, todo |-> call'.todo, failed |-> call'.failed,
                        work |-> call'.work, pass |-> call'.pass, buf |-> call'.buf]
            /\ call'.op = call.op /\ call'.work = call.work /\ call'.pass = call.pass /\ call'.buf = call.buf
        BY <1>1, <2>3 DEF CallShape
      <3>2. CallShape(call')
        BY <1>1, <3>1 DEF CallShape
      <3> QED BY <1>1, <1>3, <2>1, <2>2, <3>1, <3>2, AtIdle DEF InBatch
    <2>4. CASE call' = Idle
      BY <1>1, <1>3, <2>1, <2>2, <2>4, IdleShape, AtIdle DEF InBatch
    <2> QED BY <2>1, <2>3, <2>4
  <1>18. ASSUME NEW f \in ForeignFields, NEW c, ForeignWrite(f, c) PROVE MsrInv' /\ KeepsStep
    <2>1. msr' = [msr EXCEPT ![f] = c] /\ UNCHANGED <<ctx, torn, call>>
      BY <1>18 DEF ForeignWrite
    <2>2. msr' = [g \in Fields |-> msr'[g]] /\ \A g \in Own : msr'[g] = msr[g]
      BY <1>1, <2>1 DEF Own
    <2>3. MsrShape' /\ KeepsStep
      BY <1>1, <2>1, <2>2 DEF MsrShape, KeepsStep
    <2>4. ContextsOK' /\ BufferOK'
      BY <1>1, <2>1, <2>2, ZenonT(40) DEF ContextsOK, BufferOK, Busy, Modified, InBatch, Context
    <2> QED BY <2>3, <2>4 DEF MsrInv
  <1> QED
    BY <1>5, <1>6, <1>7, <1>8, <1>9, <1>10, <1>11, <1>12, <1>13, <1>14, <1>15, <1>16, <1>17, <1>18, <1>19
       DEF MSRNext

\* A read-modify-write of the batch, of a direct write and of a restore changes the
\* fields it was asked to change and no other, in every order of the calls and of
\* failing accesses, unless the context has a batch that stopped half way.
THEOREM OtherFieldsKept == MSRSpec => KeepsOthers
  <1>1. MsrInv /\ [MSRNext]_msrVars => MsrInv' /\ [KeepsStep]_msrVars
    <2>1. MsrInv /\ UNCHANGED msrVars => MsrInv'
      BY DEF msrVars, MsrInv, MsrShape, ContextsOK, BufferOK, Busy, Modified, InBatch, Context
    <2> QED BY <2>1, MsrStep
  <1>2. MSRSpec => [][KeepsStep]_msrVars
    BY <1>1, MsrInvInit, PTL DEF MSRSpec
  <1> QED BY <1>2 DEF KeepsStep, KeepsOthers, Own

-----------------------------------------------------------------------------
(* Level Zero metrics: no report is counted twice or forgotten, and no streamer is
   closed under the thread that drains it *)

\* The counters of reports.
CountersOK ==
  /\ fifo \in [Chips -> Nat] /\ accum \in [Chips -> Nat] /\ told \in [Chips -> Nat]
  /\ lost \in [Chips -> Nat] /\ made \in [Chips -> Nat]

\* The two threads: the background thread has ended before the destructor begins with the
\* chips, because it runs only while its flag is set or the destructor waits for it.
ThreadsOK ==
  /\ thread.at \in {"none", "loop", "scan", "ended"}
  /\ server.at \in {"idle", "read", "start", "join", "destroy", "gone"}
  /\ server.at \in {"destroy", "gone"} => thread.at \in {"none", "ended"}
  /\ server.at \in {"idle", "read", "start"} /\ thread.at \in {"loop", "scan"} => threadActive
  /\ DOMAIN server = {"at", "todo"}

\* The chips that metric_read() has opened have an open streamer.
OpenOK == initialized \subseteq streamer

-----------------------------------------------------------------------------
\* A drain moves the reports of one streamer and loses none of the count.
LEMMA DrainConserves ==
  ASSUME CountersOK, NEW c \in Chips, NEW n \in Nat, DrainOk(c, n)
  PROVE  /\ n >= accum[c]
         /\ fifo' \in [Chips -> Nat] /\ lost' \in [Chips -> Nat]
         /\ fifo'[c] + n + lost'[c] = fifo[c] + accum[c] + lost[c]
         /\ \A e \in Chips \ {c} : fifo'[e] = fifo[e] /\ lost'[e] = lost[e]
  <1>1. fifo[c] \in Nat /\ accum[c] \in Nat /\ lost[c] \in Nat
    BY DEF CountersOK
  <1>2. n >= accum[c] /\ n - accum[c] <= fifo[c]
    BY <1>1, MetricsAssumption DEF DrainOk, Least
  <1>3. lost' = [lost EXCEPT ![c] = lost[c] + fifo[c] - (n - accum[c])] /\ fifo' = [fifo EXCEPT ![c] = 0]
    BY DEF DrainOk
  <1>4. lost[c] + fifo[c] - (n - accum[c]) \in Nat
    BY <1>1, <1>2
  <1>5. /\ fifo' \in [Chips -> Nat] /\ lost' \in [Chips -> Nat]
        /\ fifo'[c] = 0 /\ lost'[c] = lost[c] + fifo[c] - (n - accum[c])
        /\ \A e \in Chips \ {c} : fifo'[e] = fifo[e] /\ lost'[e] = lost[e]
    BY <1>3, <1>4 DEF CountersOK
  <1> QED BY <1>1, <1>2, <1>5

\* So does a drain that fails, before the streamer is emptied or after.
LEMMA FailureConserves ==
  ASSUME CountersOK, NEW c \in Chips, DrainFails(c)
  PROVE  /\ fifo' \in [Chips -> Nat] /\ lost' \in [Chips -> Nat]
         /\ \A e \in Chips : fifo'[e] + lost'[e] = fifo[e] + lost[e]
  BY DEF DrainFails, CountersOK

\* With the other counters as they were, nothing is miscounted then.
LEMMA FailureKeeps ==
  ASSUME CountersOK, ReportsConserved, NEW c \in Chips, DrainFails(c), UNCHANGED <<accum, told, made>>
  PROVE  CountersOK' /\ ReportsConserved'
  <1>1. /\ fifo' \in [Chips -> Nat] /\ lost' \in [Chips -> Nat]
        /\ \A e \in Chips : fifo'[e] + lost'[e] = fifo[e] + lost[e]
    BY FailureConserves
  <1>2. CountersOK'
    BY <1>1 DEF CountersOK
  <1>3. ASSUME NEW e \in Chips
        PROVE  made[e] = fifo'[e] + accum[e] + told[e] + lost'[e]
    <2>1. /\ fifo'[e] \in Nat /\ lost'[e] \in Nat /\ fifo[e] \in Nat /\ lost[e] \in Nat
          /\ accum[e] \in Nat /\ told[e] \in Nat
      BY <1>1 DEF CountersOK
    <2> QED BY <1>1, <2>1 DEF ReportsConserved
  <1> QED BY <1>2, <1>3 DEF ReportsConserved

\* Every report is in the streamer, gathered, told once or lost, whatever the threads do.
LEMMA ReportsStep ==
  ASSUME CountersOK, ReportsConserved, [MetricsNext]_lzVars
  PROVE  CountersOK' /\ ReportsConserved'
  <1>1. CASE UNCHANGED <<fifo, accum, told, lost, made>>
    BY <1>1 DEF CountersOK, ReportsConserved
  <1>2. ASSUME NEW c \in Chips, MetricRead(c)
        PROVE  CountersOK' /\ ReportsConserved'
    <2>1. CASE /\ \E n \in accum[c] .. accum[c] + FifoSize :
                    DrainOk(c, n) /\ told' = [told EXCEPT ![c] = @ + n]
               /\ accum' = [accum EXCEPT ![c] = 0]
      <3>1. PICK n \in accum[c] .. accum[c] + FifoSize :
                    DrainOk(c, n) /\ told' = [told EXCEPT ![c] = told[c] + n]
        BY <2>1
      <3>2. n \in Nat /\ accum[c] \in Nat /\ told[c] \in Nat
        BY MetricsAssumption DEF CountersOK
      <3>3. /\ fifo' \in [Chips -> Nat] /\ lost' \in [Chips -> Nat]
            /\ fifo'[c] + n + lost'[c] = fifo[c] + accum[c] + lost[c]
            /\ \A e \in Chips \ {c} : fifo'[e] = fifo[e] /\ lost'[e] = lost[e]
        BY <3>1, <3>2, DrainConserves
      <3>4. /\ told' \in [Chips -> Nat] /\ accum' \in [Chips -> Nat]
            /\ told'[c] = told[c] + n /\ accum'[c] = 0
            /\ \A e \in Chips \ {c} : told'[e] = told[e] /\ accum'[e] = accum[e]
        BY <2>1, <3>1, <3>2 DEF CountersOK
      <3>5. UNCHANGED made
        BY <1>2 DEF MetricRead
      <3>6. CountersOK'
        BY <3>3, <3>4, <3>5 DEF CountersOK
      <3>7. made[c] = fifo'[c] + accum'[c] + told'[c] + lost'[c]
        <4>1. made[c] = fifo[c] + accum[c] + told[c] + lost[c]
          BY DEF ReportsConserved
        <4>2. fifo'[c] \in Nat /\ lost'[c] \in Nat /\ fifo[c] \in Nat /\ lost[c] \in Nat
          BY <3>3 DEF CountersOK
        <4>3. /\ fifo'[c] + n + lost'[c] = fifo[c] + accum[c] + lost[c]
              /\ told'[c] = told[c] + n /\ accum'[c] = 0
          BY <3>3, <3>4
        <4> QED BY <3>2, <4>1, <4>2, <4>3
      <3> QED BY <3>3, <3>4, <3>5, <3>6, <3>7 DEF ReportsConserved
    <2>2. CASE DrainFails(c) /\ UNCHANGED <<told, accum>>
      BY <1>2, <2>2, FailureKeeps DEF MetricRead
    <2> QED BY <1>2, <2>1, <2>2 DEF MetricRead
  <1>3. ASSUME NEW c \in Chips, ThreadDrains(c)
        PROVE  CountersOK' /\ ReportsConserved'
    <2>0. UNCHANGED <<told, made>>
      BY <1>3 DEF ThreadDrains
    <2>1. CASE \E n \in accum[c] .. accum[c] + FifoSize :
                  DrainOk(c, n) /\ accum' = [accum EXCEPT ![c] = n]
      <3>1. PICK n \in accum[c] .. accum[c] + FifoSize :
                    DrainOk(c, n) /\ accum' = [accum EXCEPT ![c] = n]
        BY <2>1
      <3>2. n \in Nat /\ accum[c] \in Nat /\ told[c] \in Nat
        BY MetricsAssumption DEF CountersOK
      <3>3. /\ fifo' \in [Chips -> Nat] /\ lost' \in [Chips -> Nat]
            /\ fifo'[c] + n + lost'[c] = fifo[c] + accum[c] + lost[c]
            /\ \A e \in Chips \ {c} : fifo'[e] = fifo[e] /\ lost'[e] = lost[e]
        BY <3>1, <3>2, DrainConserves
      <3>4. /\ accum' \in [Chips -> Nat] /\ accum'[c] = n
            /\ \A e \in Chips \ {c} : accum'[e] = accum[e]
        BY <3>1, <3>2 DEF CountersOK
      <3>5. CountersOK'
        BY <2>0, <3>3, <3>4 DEF CountersOK
      <3>6. made[c] = fifo'[c] + accum'[c] + told[c] + lost'[c]
        <4>1. made[c] = fifo[c] + accum[c] + told[c] + lost[c]
          BY DEF ReportsConserved
        <4>2. fifo'[c] \in Nat /\ lost'[c] \in Nat /\ fifo[c] \in Nat /\ lost[c] \in Nat
          BY <3>3 DEF CountersOK
        <4> QED BY <3>2, <3>3, <3>4, <4>1, <4>2
      <3> QED BY <2>0, <3>3, <3>4, <3>5, <3>6 DEF ReportsConserved
    <2>2. CASE DrainFails(c) /\ UNCHANGED accum
      BY <2>0, <2>2, FailureKeeps
    <2> QED BY <1>3, <2>1, <2>2 DEF ThreadDrains
  <1>4. ASSUME NEW c \in Chips, Report(c)
        PROVE  CountersOK' /\ ReportsConserved'
    <2>1. UNCHANGED <<accum, told>>
      BY <1>4 DEF Report
    <2>2. /\ made' \in [Chips -> Nat] /\ fifo' \in [Chips -> Nat] /\ lost' \in [Chips -> Nat]
          /\ made'[c] = made[c] + 1 /\ fifo'[c] + lost'[c] = fifo[c] + lost[c] + 1
          /\ \A e \in Chips \ {c} : made'[e] = made[e] /\ fifo'[e] = fifo[e] /\ lost'[e] = lost[e]
      BY <1>4 DEF Report, CountersOK
    <2>3. CountersOK'
      BY <2>1, <2>2 DEF CountersOK
    <2>4. made'[c] = fifo'[c] + accum[c] + told[c] + lost'[c]
      <3>1. /\ fifo[c] \in Nat /\ accum[c] \in Nat /\ told[c] \in Nat /\ lost[c] \in Nat
            /\ fifo'[c] \in Nat /\ lost'[c] \in Nat
        BY <2>2 DEF CountersOK
      <3> QED BY <2>2, <3>1 DEF ReportsConserved
    <2> QED BY <2>1, <2>2, <2>3, <2>4 DEF ReportsConserved
  <1>5. ReadMetrics \/ MetricThreadStart \/ StopThread \/ Join \/ ThreadLoop \/ UNCHANGED lzVars
          => UNCHANGED <<fifo, accum, told, lost, made>>
    BY DEF ReadMetrics, MetricThreadStart, StopThread, Join, ThreadLoop, lzVars
  <1>6. \A c \in Chips : MetricReadError(c) \/ MetricExecuteFails(c) \/ MetricDestroy(c) \/ ThreadSkips(c)
          => UNCHANGED <<fifo, accum, told, lost, made>>
    BY DEF MetricReadError, MetricExecuteFails, MetricDestroy, ThreadSkips
  <1> QED BY <1>1, <1>2, <1>3, <1>4, <1>5, <1>6 DEF MetricsNext

\* Every report that the hardware makes is in one mean at most, and is lost only where the
\* streamer overflows or a drain passes it over or fails, also when a metric_read() throws half way
\* (metric_read(), metric_drain() and metric_sample_thread() of LevelZero.cpp).
THEOREM ReportsAreConserved == MetricsSpec => []ReportsConserved
  <1>1. MetricsInit => CountersOK /\ ReportsConserved
    BY DEF MetricsInit, Zero, CountersOK, ReportsConserved
  <1> QED BY <1>1, ReportsStep, PTL DEF MetricsSpec

-----------------------------------------------------------------------------
\* One step of the two threads.
LEMMA ThreadsStep ==
  ASSUME ThreadsOK, OpenOK, [MetricsNext]_lzVars
  PROVE  ThreadsOK' /\ OpenOK'
  <1> USE DEF ThreadsOK, OpenOK
  <1>1. CASE ReadMetrics
    BY <1>1 DEF ReadMetrics
  <1>2. CASE MetricThreadStart
    BY <1>2 DEF MetricThreadStart
  <1>3. CASE StopThread
    BY <1>3 DEF StopThread
  <1>4. CASE Join
    BY <1>4 DEF Join
  <1>5. CASE ThreadLoop
    BY <1>5 DEF ThreadLoop
  <1>6. ASSUME NEW c \in Chips, MetricReadError(c) PROVE ThreadsOK' /\ OpenOK'
    BY <1>6 DEF MetricReadError, Throw
  <1>7. ASSUME NEW c \in Chips, MetricExecuteFails(c) PROVE ThreadsOK' /\ OpenOK'
    BY <1>7 DEF MetricExecuteFails, Throw
  <1>8. ASSUME NEW c \in Chips, MetricRead(c) PROVE ThreadsOK' /\ OpenOK'
    BY <1>8 DEF MetricRead, Throw
  <1>9. ASSUME NEW c \in Chips, MetricDestroy(c) PROVE ThreadsOK' /\ OpenOK'
    BY <1>9 DEF MetricDestroy
  <1>10. ASSUME NEW c \in Chips, ThreadSkips(c) PROVE ThreadsOK' /\ OpenOK'
    BY <1>10 DEF ThreadSkips, NextTurn
  <1>11. ASSUME NEW c \in Chips, ThreadDrains(c) PROVE ThreadsOK' /\ OpenOK'
    BY <1>11 DEF ThreadDrains, NextTurn
  <1>12. ASSUME NEW c \in Chips, Report(c) PROVE ThreadsOK' /\ OpenOK'
    BY <1>12 DEF Report
  <1>13. CASE UNCHANGED lzVars
    BY <1>13 DEF lzVars
  <1> QED
    BY <1>1, <1>2, <1>3, <1>4, <1>5, <1>6, <1>7, <1>8, <1>9, <1>10, <1>11, <1>12, <1>13 DEF MetricsNext

\* No streamer is closed before the background thread has ended, and the thread drains
\* open streamers only: ~LevelZeroImp() stops and joins the thread before it destroys the
\* metrics of any chip.
THEOREM ThreadDrainsOpen == MetricsSpec => []DrainsOpenOnly
  <1>1. MetricsInit => ThreadsOK /\ OpenOK
    BY DEF MetricsInit, ThreadsOK, OpenOK
  <1>2. ThreadsOK /\ OpenOK => DrainsOpenOnly
    BY DEF ThreadsOK, OpenOK, DrainsOpenOnly
  <1> QED BY <1>1, <1>2, ThreadsStep, PTL DEF MetricsSpec

-----------------------------------------------------------------------------
(* Level Zero: an energy is read with its time stamp *)

\* What is kept of one signal that was pushed.
SlotRecord == [sig : {"ENERGY", "ENERGY_TIMESTAMP", "POWER"}, idx : Index]

Entry(s, i) == [sig |-> s, idx |-> i]

\* A signal is in the list of those that were pushed.
Holds(q, s, i) == \E j \in DOMAIN q : q[j] = Entry(s, i)

\* The list of what was pushed: nothing twice, and no time stamp before its energy.
ListOK(q) ==
    /\ q \in Seq(SlotRecord)
    /\ \A j, k \in DOMAIN q : q[j] = q[k] => j = k
    /\ \A k \in DOMAIN q : q[k].sig = "ENERGY_TIMESTAMP" =>
          \E j \in DOMAIN q : j < k /\ q[j] = Entry("ENERGY", q[k].idx)

\* With a derivative its parts are in the list.
PartsListed(q) ==
    \A k \in DOMAIN q : q[k].sig = "POWER" =>
        Holds(q, "ENERGY", q[k].idx) /\ Holds(q, "ENERGY_TIMESTAMP", q[k].idx)

\* The index of a signal in the list is that of an entry for it, when there is one.
LEMMA PlaceIs ==
    ASSUME NEW q \in Seq(SlotRecord), NEW s, NEW i
    PROVE  /\ PlaceOf(q, s, i) = 0 <=> ~Holds(q, Object(s), i)
           /\ PlaceOf(q, s, i) # 0 =>
                PlaceOf(q, s, i) \in DOMAIN q /\ q[PlaceOf(q, s, i)] = Entry(Object(s), i)
  <1> DEFINE I == {k \in 1..Len(q) : q[k].sig = Object(s) /\ q[k].idx = i}
  <1>1. PlaceOf(q, s, i) = IF I # {} THEN Min(I) ELSE 0
    BY DEF PlaceOf, SelectInSeq
  <1>2. DOMAIN q = 1..Len(q) /\ Len(q) \in Nat
    OBVIOUS
  <1>3. \A k \in DOMAIN q : q[k] \in SlotRecord
    OBVIOUS
  <1>4. \A k \in DOMAIN q : q[k] = Entry(Object(s), i) <=> q[k].sig = Object(s) /\ q[k].idx = i
    BY <1>3 DEF SlotRecord, Entry
  <1>5. I # {} => Min(I) \in I
    <2>1. I \subseteq Nat
      BY <1>2
    <2> HIDE DEF I
    <2> QED BY <2>1, MinIsLeast
  <1>6. I # {} <=> Holds(q, Object(s), i)
    BY <1>2, <1>4 DEF Holds
  <1> QED BY <1>1, <1>2, <1>4, <1>5, <1>6

\* All that is in one list is in the other.
Within(q, r) == \A s, i : Holds(q, s, i) => Holds(r, s, i)

\* The derivatives of a list that are new in another belong to one index.
NewPower(q, r, i) == \A j : Holds(r, "POWER", j) => Holds(q, "POWER", j) \/ j = i

\* Where the names lead to.
LEMMA Objects ==
    ASSUME sigGroup = "LEVELZERO"
    PROVE  /\ Object("TOTAL") = "ENERGY" /\ Object("ENERGY") = "ENERGY" /\ Object("POWER") = "POWER"
           /\ Object("ENERGY_TIMESTAMP") = "ENERGY_TIMESTAMP"
  BY DEF Object, Ways, SignalBehaviours, LevelZeroSignals, Behaviour

\* One entry is put at the end, unless it is there.
LEMMA ListedIs ==
    ASSUME NEW q, ListOK(q), NEW s, NEW i \in Index,
           Object(s) \in {"ENERGY", "ENERGY_TIMESTAMP", "POWER"},
           Object(s) = "ENERGY_TIMESTAMP" => Holds(q, "ENERGY", i)
    PROVE  /\ ListOK(Listed(q, s, i))
           /\ Within(q, Listed(q, s, i))
           /\ Holds(Listed(q, s, i), Object(s), i)
           /\ \A t, j : Holds(Listed(q, s, i), t, j) => Holds(q, t, j) \/ (t = Object(s) /\ j = i)
  <1> DEFINE e == Entry(Object(s), i)
             r == Append(q, e)
  <1>1. q \in Seq(SlotRecord) /\ e \in SlotRecord
    BY DEF ListOK, Entry, SlotRecord
  <1>2. CASE Holds(q, Object(s), i)
    <2>1. Listed(q, s, i) = q
      BY <1>1, <1>2, PlaceIs DEF Listed
    <2> QED BY <1>2, <2>1 DEF Within
  <1>3. CASE ~Holds(q, Object(s), i)
    <2>1. Listed(q, s, i) = r
      BY <1>1, <1>3, PlaceIs DEF Listed, Entry
    <2> HIDE DEF e
    <2>2. /\ r \in Seq(SlotRecord) /\ DOMAIN r = 1..Len(q) + 1 /\ DOMAIN q = 1..Len(q) /\ Len(q) \in Nat
          /\ r[Len(q) + 1] = e /\ \A k \in DOMAIN q : r[k] = q[k]
      BY <1>1
    <2> HIDE DEF r
    <2>3. \A k \in DOMAIN q : q[k] # e
      BY <1>3 DEF Holds, e
    <2>4. ASSUME NEW j \in DOMAIN r, NEW k \in DOMAIN r, r[j] = r[k] PROVE j = k
      <3>1. j \in DOMAIN q /\ k \in DOMAIN q => j = k
        BY <2>2, <2>4 DEF ListOK
      <3> QED BY <2>2, <2>3, <2>4, <3>1
    <2>5. ASSUME NEW k \in DOMAIN r, r[k].sig = "ENERGY_TIMESTAMP"
          PROVE  \E j \in DOMAIN r : j < k /\ r[j] = Entry("ENERGY", r[k].idx)
      <3>1. CASE k \in DOMAIN q
        <4>1. PICK j \in DOMAIN q : j < k /\ q[j] = Entry("ENERGY", q[k].idx)
          BY <2>2, <2>5, <3>1 DEF ListOK
        <4> QED BY <2>2, <3>1, <4>1
      <3>2. CASE k = Len(q) + 1
        <4>1. e.sig = "ENERGY_TIMESTAMP" /\ e.sig = Object(s) /\ e.idx = i
          BY <2>2, <2>5, <3>2 DEF e, Entry
        <4>2. PICK j \in DOMAIN q : q[j] = Entry("ENERGY", i)
          BY <4>1 DEF Holds
        <4> QED BY <2>2, <3>2, <4>1, <4>2
      <3> QED BY <2>2, <3>1, <3>2
    <2>6. ListOK(r)
      BY <2>2, <2>4, <2>5 DEF ListOK
    <2>7. Within(q, r) /\ Holds(r, Object(s), i)
      BY <2>2 DEF Within, Holds, e
    <2>8. ASSUME NEW t, NEW j, Holds(r, t, j) PROVE Holds(q, t, j) \/ (t = Object(s) /\ j = i)
      <3>1. PICK k \in DOMAIN r : r[k] = Entry(t, j)
        BY <2>8 DEF Holds
      <3>2. CASE k \in DOMAIN q
        BY <2>2, <3>1, <3>2 DEF Holds
      <3>3. CASE k = Len(q) + 1
        <4>1. e.sig = t /\ e.idx = j
          BY <2>2, <3>1, <3>3 DEF Entry
        <4> QED BY <4>1 DEF e, Entry
      <3> QED BY <2>2, <3>2, <3>3
    <2> QED BY <2>1, <2>6, <2>7, <2>8
  <1> QED BY <1>2, <1>3

\* push_signal() of LevelZeroIOGroup keeps the energy before its time stamp, and what a
\* derivative needs in the list.
LEMMA LevelZeroListed ==
    ASSUME sigGroup = "LEVELZERO", NEW q, ListOK(q), PartsListed(q), NEW i \in Index,
           NEW s \in {"ENERGY", "TOTAL", "ENERGY_TIMESTAMP", "POWER"}
    PROVE  ListOK(ListedLevelZero(q, s, i)) /\ PartsListed(ListedLevelZero(q, s, i))
  <1>1. \A r : ListOK(r) => r \in Seq(SlotRecord)
    BY DEF ListOK
  <1>2. ASSUME NEW r, ListOK(r), Within(q, r), NewPower(q, r, i),
               Holds(r, "POWER", i) => Holds(r, "ENERGY", i) /\ Holds(r, "ENERGY_TIMESTAMP", i)
        PROVE  PartsListed(r)
    <2> SUFFICES ASSUME NEW k \in DOMAIN r, r[k].sig = "POWER"
                 PROVE  Holds(r, "ENERGY", r[k].idx) /\ Holds(r, "ENERGY_TIMESTAMP", r[k].idx)
      BY DEF PartsListed
    <2>1. r[k] = Entry("POWER", r[k].idx)
      <3>1. r[k] \in SlotRecord
        BY <1>1, <1>2
      <3> QED BY <3>1 DEF SlotRecord, Entry
    <2>2. Holds(r, "POWER", r[k].idx)
      BY <2>1 DEF Holds
    <2>3. CASE r[k].idx = i
      BY <1>2, <2>2, <2>3
    <2>4. CASE Holds(q, "POWER", r[k].idx)
      <3>1. PICK l \in DOMAIN q : q[l] = Entry("POWER", r[k].idx)
        BY <2>4 DEF Holds
      <3>2. Holds(q, "ENERGY", r[k].idx) /\ Holds(q, "ENERGY_TIMESTAMP", r[k].idx)
        BY <3>1 DEF PartsListed, Entry
      <3> QED BY <1>2, <3>2 DEF Within
    <2> QED BY <1>2, <2>2, <2>3, <2>4 DEF NewPower
  <1>3. Holds(q, "POWER", i) => Holds(q, "ENERGY", i) /\ Holds(q, "ENERGY_TIMESTAMP", i)
    BY DEF PartsListed, Holds, Entry
  <1>4. PlaceOf(q, "ENERGY", i) = 0 <=> ~Holds(q, "ENERGY", i)
    BY <1>1, PlaceIs, Objects
  \* The energy and its time stamp at the end of a list.
  <1>5. ASSUME NEW p, ListOK(p), Within(q, p)
        PROVE  LET w == Listed(Listed(p, "ENERGY", i), "ENERGY_TIMESTAMP", i)
               IN  /\ ListOK(w) /\ Within(q, w) /\ Holds(w, "ENERGY", i)
                   /\ \A j : Holds(w, "POWER", j) => Holds(p, "POWER", j)
    <2> DEFINE e == Listed(p, "ENERGY", i)
    <2>1. /\ ListOK(e) /\ Within(p, e) /\ Holds(e, "ENERGY", i)
          /\ \A j : Holds(e, "POWER", j) => Holds(p, "POWER", j)
      BY <1>5, ListedIs, Objects
    <2> HIDE DEF e
    <2> DEFINE w == Listed(e, "ENERGY_TIMESTAMP", i)
    <2>2. /\ ListOK(w) /\ Within(e, w)
          /\ \A j : Holds(w, "POWER", j) => Holds(e, "POWER", j)
      BY <2>1, ListedIs, Objects
    <2> HIDE DEF w
    <2>3. ListOK(w) /\ Within(q, w) /\ Holds(w, "ENERGY", i) /\ \A j : Holds(w, "POWER", j) => Holds(p, "POWER", j)
      BY <1>5, <2>1, <2>2 DEF Within
    <2> QED BY <2>3 DEF w, e
  <1>6. Within(q, q)
    BY DEF Within
  <1> DEFINE isNew == PlaceOf(q, "ENERGY", i) = 0
             withStamp == IF isNew THEN Listed(Listed(q, "ENERGY", i), "ENERGY_TIMESTAMP", i) ELSE q
  <1>7. /\ ListOK(withStamp) /\ Within(q, withStamp) /\ Holds(withStamp, "ENERGY", i)
        /\ \A j : Holds(withStamp, "POWER", j) => Holds(q, "POWER", j)
    BY <1>4, <1>5, <1>6
  <1>8. CASE s = "ENERGY"
    <2>1. ListedLevelZero(q, s, i) = withStamp
      BY <1>8 DEF ListedLevelZero
    <2> HIDE DEF withStamp
    <2>2. Holds(withStamp, "POWER", i) => Holds(withStamp, "ENERGY_TIMESTAMP", i)
      BY <1>3, <1>7 DEF Within
    <2> QED BY <1>2, <1>7, <2>1, <2>2 DEF NewPower
  <1>9. CASE s = "TOTAL"
    <2> DEFINE w == Listed(q, "TOTAL", i)
    <2>1. /\ ListOK(w) /\ Within(q, w) /\ Holds(w, "ENERGY", i)
          /\ \A j : Holds(w, "POWER", j) => Holds(q, "POWER", j)
      BY ListedIs, Objects
    <2>2. ListedLevelZero(q, s, i) = w
      BY <1>9 DEF ListedLevelZero
    <2> HIDE DEF w
    <2>3. Holds(w, "POWER", i) => Holds(w, "ENERGY_TIMESTAMP", i)
      BY <1>3, <2>1 DEF Within
    <2> QED BY <1>2, <2>1, <2>2, <2>3 DEF NewPower
  <1>10. CASE s = "ENERGY_TIMESTAMP"
    <2> HIDE DEF withStamp
    <2> DEFINE w == Listed(withStamp, "ENERGY_TIMESTAMP", i)
    <2>1. /\ ListOK(w) /\ Within(withStamp, w) /\ Holds(w, "ENERGY_TIMESTAMP", i)
          /\ \A j : Holds(w, "POWER", j) => Holds(withStamp, "POWER", j)
      BY <1>7, ListedIs, Objects
    <2>2. ListedLevelZero(q, s, i) = w
      BY <1>10 DEF ListedLevelZero, withStamp
    <2> HIDE DEF w
    <2>3. Within(q, w) /\ NewPower(q, w, i) /\ Holds(w, "ENERGY", i)
      BY <1>7, <2>1 DEF Within, NewPower
    <2> QED BY <1>2, <2>1, <2>2, <2>3
  <1>11. CASE s = "POWER"
    <2> DEFINE p == Listed(q, "POWER", i)
    <2>1. ListOK(p) /\ Within(q, p) /\ NewPower(q, p, i)
      BY ListedIs, Objects DEF NewPower
    <2> HIDE DEF p
    <2> DEFINE e == IF isNew THEN Listed(Listed(p, "ENERGY", i), "ENERGY_TIMESTAMP", i) ELSE p
    <2>2. /\ ListOK(e) /\ Within(q, e) /\ Holds(e, "ENERGY", i)
          /\ \A j : Holds(e, "POWER", j) => Holds(p, "POWER", j)
      <3>1. CASE isNew
        BY <1>5, <2>1, <3>1
      <3>2. CASE ~isNew
        BY <1>4, <2>1, <3>2 DEF Within
      <3> QED BY <3>1, <3>2
    <2> HIDE DEF e
    <2> DEFINE w == Listed(e, "ENERGY_TIMESTAMP", i)
    <2>3. /\ ListOK(w) /\ Within(e, w) /\ Holds(w, "ENERGY_TIMESTAMP", i)
          /\ \A j : Holds(w, "POWER", j) => Holds(e, "POWER", j)
      BY <2>2, ListedIs, Objects
    <2>4. ListedLevelZero(q, s, i) = w
      BY <1>11 DEF ListedLevelZero, w, e, p
    <2> HIDE DEF w
    <2>5. Within(q, w) /\ NewPower(q, w, i) /\ Holds(w, "ENERGY", i)
      BY <2>1, <2>2, <2>3 DEF Within, NewPower
    <2> QED BY <1>2, <2>3, <2>4, <2>5
  <1> QED BY <1>8, <1>9, <1>10, <1>11

-----------------------------------------------------------------------------
\* The slots that read_batch() has to read.
ToRead == {k \in DOMAIN slots : slots[k].sig # "POWER"}

\* What the slots of the energy and of the time stamp hold agrees, and while the batch is
\* read the stamp that was kept is that of the energy that was stored.
PairsStored ==
    \A j, k \in ToRead \ batch.left :
        slots[j].sig = "ENERGY" =>
            /\ batch.state = "reading" => stamp[slots[j].idx] = stored[j]
            /\ slots[k] = Entry("ENERGY_TIMESTAMP", slots[j].idx) => stored[k] = stored[j]

\* The record of a read_batch().
BatchOK ==
    /\ batch = [left |-> batch.left, begin |-> batch.begin, count |-> batch.count, state |-> batch.state]
    /\ batch.left \subseteq Nat /\ batch.count \in Nat

\* The induction hypothesis.
PairInv ==
    sigGroup = "LEVELZERO" =>
        /\ ListOK(slots) /\ PartsListed(slots)
        /\ doRead = DOMAIN slots /\ DOMAIN stored = DOMAIN slots
        /\ DOMAIN stamp = Index
        /\ BatchOK
        /\ batch.state = "idle" \/ batch.count > 0
        /\ batch.state = "done" => batch.left = {}
        /\ batch.state \in {"reading", "done"} =>
              /\ batch.left \subseteq ToRead
              /\ \A k \in ToRead \ batch.left, l \in batch.left : k < l
              /\ PairsStored

\* How LevelZeroIOGroup behaves.
LEMMA LevelZeroWays ==
    ASSUME sigGroup = "LEVELZERO"
    PROVE  /\ Ways.slots = "list" /\ Ways.reads = "each" /\ Ways.closes = "enter"
           /\ Available = {"ENERGY", "TOTAL", "ENERGY_TIMESTAMP", "POWER"}
           /\ DomainOf = Index
  BY DEF Ways, SignalBehaviours, LevelZeroSignals, Behaviour, Available, DomainOf

\* Nothing is pushed before the first push_signal().
LEMMA PairInvInit == SignalInit => PairInv
  <1> SUFFICES ASSUME SignalInit, sigGroup = "LEVELZERO" PROVE PairInv
    BY DEF PairInv
  <1>1. slots = <<>>
    BY LevelZeroWays DEF SignalInit, SortedNames
  <1>2. doRead = {} /\ DOMAIN stored = DOMAIN slots /\ DOMAIN stamp = Index
    BY DEF SignalInit
  <1>3. DOMAIN slots = {} /\ slots \in Seq(SlotRecord)
    BY <1>1
  <1>4. ListOK(slots) /\ PartsListed(slots)
    BY <1>3 DEF ListOK, PartsListed
  <1>5. batch = [left |-> {}, begin |-> 0, count |-> 0, state |-> "idle"]
    BY DEF SignalInit, NoRead
  <1>6. BatchOK /\ batch.state = "idle"
    BY <1>5 DEF BatchOK
  <1> QED BY <1>2, <1>3, <1>4, <1>6 DEF PairInv

\* push_signal() puts the parts of a derivative into the list with it, and read_batch() reads
\* the list from its start: what it has read of a pair is of the same reading.
LEMMA PairInvNext == PairInv /\ [SignalNext]_sigVars => PairInv'
  <1> SUFFICES ASSUME PairInv, [SignalNext]_sigVars PROVE PairInv'
    OBVIOUS
  <1>0. sigGroup' = sigGroup
    <2>1. \A s, i : PushOne(s, i) \/ ReadSignal(s, i) => sigGroup' = sigGroup
      BY DEF PushOne, ReadSignal
    <2>2. ReadBatch \/ ReadOne \/ ReadAll => sigGroup' = sigGroup
      BY DEF ReadBatch, ReadOne, ReadAll
    <2>3. ReadFails \/ EndBatch \/ Pass \/ UNCHANGED sigVars => sigGroup' = sigGroup
      BY DEF ReadFails, EndBatch, Pass, sigVars
    <2> QED BY <2>1, <2>2, <2>3 DEF SignalNext
  <1> SUFFICES ASSUME sigGroup = "LEVELZERO", sigGroup' = "LEVELZERO" PROVE PairInv'
    BY <1>0 DEF PairInv
  <1>1. /\ ListOK(slots) /\ PartsListed(slots)
        /\ doRead = DOMAIN slots /\ DOMAIN stored = DOMAIN slots
        /\ DOMAIN stamp = Index
        /\ BatchOK
        /\ batch.state = "idle" \/ batch.count > 0
        /\ batch.state = "done" => batch.left = {}
    BY DEF PairInv
  <1>2. batch.state \in {"reading", "done"} =>
          /\ batch.left \subseteq ToRead
          /\ \A k \in ToRead \ batch.left, l \in batch.left : k < l
          /\ PairsStored
    BY DEF PairInv
  <1>3. /\ slots \in Seq(SlotRecord) /\ DOMAIN slots = 1..Len(slots) /\ Len(slots) \in Nat
        /\ \A k \in DOMAIN slots : slots[k] \in SlotRecord
    BY <1>1 DEF ListOK
  <1>4. \A k \in DOMAIN slots : slots[k].idx \in Index
    BY <1>3 DEF SlotRecord
  <1>5. ASSUME NEW s \in Available, NEW i \in Index, PushOne(s, i) PROVE PairInv'
    <2>1. batch.count = 0 /\ batch.state = "idle"
      <3>1. ~IsClosed
        BY <1>5 DEF PushOne
      <3>2. ~(batch.count > 0)
        BY <3>1, LevelZeroWays DEF IsClosed
      <3> QED BY <1>1, <3>2 DEF BatchOK
    <2>2. slots' = ListedLevelZero(slots, s, i)
      <3>1. slots' = SlotsAfter(s, i)
        BY <1>5 DEF PushOne
      <3>2. SlotsAfter(s, i) = ListedLevelZero(slots, s, i)
        BY LevelZeroWays DEF SlotsAfter
      <3> QED BY <3>1, <3>2
    <2>3. ListOK(slots') /\ PartsListed(slots')
      BY <1>1, <2>2, LevelZeroListed, LevelZeroWays
    <2>4. doRead' = DOMAIN slots' /\ DOMAIN stored' = DOMAIN slots'
      BY <1>5, <2>2, LevelZeroWays DEF PushOne
    <2>5. UNCHANGED <<batch, stamp>>
      BY <1>5 DEF PushOne
    <2> QED BY <1>1, <2>1, <2>3, <2>4, <2>5 DEF PairInv, BatchOK
  <1>6. ASSUME NEW s \in Available, NEW i \in Index, ReadSignal(s, i) PROVE PairInv'
    <2>1. UNCHANGED <<slots, doRead, stored, batch>> /\ batch.state # "reading" /\ DOMAIN stamp' = Index
      BY <1>1, <1>6 DEF ReadSignal, Stamped
    <2>2. ToRead' = ToRead
      BY <2>1 DEF ToRead
    <2>3. PairsStored => PairsStored'
      BY <2>1, <2>2 DEF PairsStored
    <2> QED BY <1>1, <1>2, <2>1, <2>2, <2>3 DEF PairInv, BatchOK
  <1>7. CASE ReadBatch
    <2>1. UNCHANGED <<slots, doRead, stored, stamp>>
      BY <1>7 DEF ReadBatch
    <2>2. {k \in DOMAIN slots : IsRead(k)} = ToRead
      BY <1>1, LevelZeroWays DEF IsRead, IsDerived, ToRead
    <2>3. batch' = [left |-> ToRead, begin |-> now, count |-> batch.count + 1, state |-> "reading"]
      BY <1>7, <2>2 DEF ReadBatch
    <2>4. ToRead' = ToRead /\ ToRead \subseteq Nat
      BY <1>3, <2>1 DEF ToRead
    <2>5. PairsStored'
      BY <2>3, <2>4 DEF PairsStored
    <2>6. BatchOK' /\ batch'.count > 0
      BY <1>1, <2>3, <2>4 DEF BatchOK
    <2> QED BY <1>1, <2>1, <2>3, <2>4, <2>5, <2>6 DEF PairInv
  <1>8. CASE ReadOne
    <2> DEFINE m == Min(batch.left)
    <2>1. /\ batch.state = "reading" /\ batch.left # {}
          /\ stored' = [stored EXCEPT ![m] = Device(slots[m].sig, slots[m].idx)]
          /\ stamp' = Stamped(slots[m].sig, slots[m].idx)
          /\ batch' = [batch EXCEPT !.left = batch.left \ {m}]
          /\ UNCHANGED <<slots, doRead>>
      BY <1>8 DEF ReadOne
    <2>2. m \in batch.left /\ (\A l \in batch.left : m <= l)
      BY <1>1, <2>1, MinIsLeast DEF BatchOK
    <2> HIDE DEF m
    <2>3. m \in ToRead /\ m \in DOMAIN slots /\ slots[m] \in SlotRecord /\ slots[m].sig # "POWER"
      BY <1>2, <1>3, <2>1, <2>2 DEF ToRead
    <2>4. ToRead' = ToRead /\ batch'.left = batch.left \ {m} /\ batch'.state = "reading" /\ batch'.count = batch.count
      BY <1>1, <2>1 DEF ToRead, BatchOK
    <2>5. BatchOK'
      BY <1>1, <2>1 DEF BatchOK
    <2>6. DOMAIN stored' = DOMAIN slots /\ DOMAIN stamp' = Index
      BY <1>1, <2>1 DEF Stamped
    <2>7. \A k \in ToRead \ batch'.left, l \in batch'.left : k < l
      <3> SUFFICES ASSUME NEW k \in ToRead \ batch'.left, NEW l \in batch'.left PROVE k < l
        OBVIOUS
      <3>1. l \in batch.left /\ l # m /\ m <= l /\ l \in Nat /\ m \in Nat
        BY <1>1, <2>2, <2>4 DEF BatchOK
      <3>2. CASE k = m
        BY <3>1, <3>2
      <3>3. CASE k \notin batch.left
        BY <1>2, <2>1, <3>1, <3>3
      <3> QED BY <2>4, <3>2, <3>3
    \* Two slots for the same signal are the same.
    <2>8. \A j, k \in DOMAIN slots : slots[j] = slots[k] => j = k
      BY <1>1 DEF ListOK
    <2>9. PairsStored
      BY <1>2, <2>1
    <2>10. ASSUME NEW j \in ToRead \ batch'.left, slots[j].sig = "ENERGY"
           PROVE  stamp'[slots[j].idx] = stored'[j]
      <3>1. j \in DOMAIN slots /\ slots[j].idx \in Index
        BY <1>4 DEF ToRead
      <3>2. CASE j = m
        <4>1. stored'[j] = now
          BY <1>1, <2>1, <2>3, <2>10, <3>2 DEF Device
        <4>2. stamp' = [stamp EXCEPT ![slots[j].idx] = now]
          BY <2>1, <2>10, <3>2, Objects DEF Stamped
        <4> QED BY <1>1, <3>1, <4>1, <4>2
      <3>3. CASE j # m
        <4>1. stored'[j] = stored[j] /\ j \notin batch.left
          BY <1>1, <2>1, <2>4, <3>1, <3>3
        <4>2. stamp[slots[j].idx] = stored[j]
          BY <2>1, <2>9, <2>10, <4>1 DEF PairsStored
        <4>3. slots[m].sig = "ENERGY" => slots[m].idx # slots[j].idx
          <5>1. slots[j] \in SlotRecord
            BY <1>3, <3>1
          <5>2. slots[m].sig = "ENERGY" /\ slots[m].idx = slots[j].idx => slots[m] = slots[j]
            BY <2>3, <2>10, <5>1 DEF SlotRecord
          <5> QED BY <2>3, <2>8, <3>1, <3>3, <5>2
        <4>4. slots[m].sig # "ENERGY" => stamp' = stamp
          <5>1. slots[m].sig \in {"ENERGY", "ENERGY_TIMESTAMP", "POWER"}
            BY <2>3 DEF SlotRecord
          <5>2. slots[m].sig # "ENERGY" => Object(slots[m].sig) # "ENERGY"
            BY <5>1, Objects
          <5> QED BY <2>1, <5>2 DEF Stamped
        <4>5. stamp' = stamp \/ stamp' = [stamp EXCEPT ![slots[m].idx] = now]
          BY <2>1 DEF Stamped
        <4>6. stamp'[slots[j].idx] = stamp[slots[j].idx]
          BY <1>1, <3>1, <4>3, <4>4, <4>5
        <4> QED BY <4>1, <4>2, <4>6
      <3> QED BY <3>2, <3>3
    <2>11. ASSUME NEW j \in ToRead \ batch'.left, NEW k \in ToRead \ batch'.left, slots[j].sig = "ENERGY",
                  slots[k] = Entry("ENERGY_TIMESTAMP", slots[j].idx)
           PROVE  stored'[k] = stored'[j]
      <3>1. j \in DOMAIN slots /\ k \in DOMAIN slots /\ slots[j] \in SlotRecord
        BY <1>3 DEF ToRead
      <3>2. slots[k].sig = "ENERGY_TIMESTAMP" /\ slots[k].idx = slots[j].idx /\ k # j
        BY <2>11 DEF Entry
      <3>3. j < k
        <4>1. PICK l \in DOMAIN slots : l < k /\ slots[l] = Entry("ENERGY", slots[k].idx)
          BY <1>1, <3>1, <3>2 DEF ListOK
        <4>2. slots[l] = slots[j]
          BY <2>11, <3>1, <3>2, <4>1 DEF Entry, SlotRecord
        <4> QED BY <2>8, <3>1, <4>1, <4>2
      <3>4. CASE k = m
        <4>1. j \notin batch.left /\ j # m
          BY <1>3, <2>2, <2>3, <2>4, <3>1, <3>3, <3>4
        <4>2. stored'[j] = stored[j] /\ stored'[k] = stamp[slots[j].idx]
          BY <1>1, <2>1, <3>1, <3>2, <3>4, <4>1 DEF Device
        <4> QED BY <2>1, <2>9, <2>11, <4>1, <4>2 DEF PairsStored
      <3>5. CASE j = m
        <4>1. k \notin batch.left
          BY <2>4, <3>2, <3>5
        <4> QED BY <1>2, <1>3, <2>1, <2>2, <2>3, <3>1, <3>3, <3>5, <4>1
      <3>6. CASE j # m /\ k # m
        <4>1. j \notin batch.left /\ k \notin batch.left
          BY <2>4, <3>6
        <4>2. stored'[j] = stored[j] /\ stored'[k] = stored[k]
          BY <1>1, <2>1, <3>1, <3>6
        <4> QED BY <2>9, <2>11, <4>1, <4>2 DEF PairsStored
      <3> QED BY <3>4, <3>5, <3>6
    <2>12. PairsStored'
      BY <2>1, <2>4, <2>10, <2>11 DEF PairsStored
    <2>13. batch'.left \subseteq ToRead'
      BY <1>2, <2>1, <2>4
    <2>14. batch'.count > 0
      BY <1>1, <2>1, <2>4
    <2> QED BY <1>1, <2>1, <2>4, <2>5, <2>6, <2>7, <2>12, <2>13, <2>14 DEF PairInv
  <1>9. CASE ReadAll
    BY <1>9, LevelZeroWays DEF ReadAll
  <1>10. CASE ReadFails
    <2>1. UNCHANGED <<slots, doRead, stored, stamp>> /\ batch' = [batch EXCEPT !.left = {}, !.state = "failed"]
          /\ batch.state = "reading"
      BY <1>10 DEF ReadFails
    <2>2. BatchOK'
          /\ batch'.count > 0 /\ batch'.state = "failed"
      BY <1>1, <2>1 DEF BatchOK
    <2> QED BY <1>1, <2>1, <2>2 DEF PairInv
  <1>11. CASE EndBatch
    <2>1. UNCHANGED <<slots, doRead, stored, stamp>> /\ batch' = [batch EXCEPT !.state = "done"]
          /\ batch.state = "reading" /\ batch.left = {}
      BY <1>11 DEF EndBatch
    <2>2. BatchOK'
          /\ batch'.count > 0 /\ batch'.state = "done" /\ batch'.left = {}
      BY <1>1, <2>1 DEF BatchOK
    <2>3. ToRead' = ToRead
      BY <2>1 DEF ToRead
    <2>4. PairsStored'
      BY <1>2, <2>1, <2>2, <2>3 DEF PairsStored
    <2> QED BY <1>1, <2>1, <2>2, <2>3, <2>4 DEF PairInv
  <1>12. CASE Pass \/ UNCHANGED sigVars
    <2>1. UNCHANGED <<slots, doRead, stored, stamp, batch>>
      BY <1>12 DEF Pass, sigVars
    <2>2. ToRead' = ToRead
      BY <2>1 DEF ToRead
    <2>3. PairsStored' <=> PairsStored
      BY <2>1, <2>2 DEF PairsStored
    <2> QED BY <1>1, <1>2, <2>1, <2>2, <2>3 DEF PairInv, BatchOK
  <1> QED BY <1>5, <1>6, <1>7, <1>8, <1>9, <1>10, <1>11, <1>12 DEF SignalNext

\* An energy and its time stamp, and the parts of a power, are of one reading when read_batch()
\* is over, for any devices, any order of the pushes and any number of readings before.
THEOREM PairsAreRead == SignalSpec => []PairsMatch
  <1>1. PairInv => PairsMatch
    <2> SUFFICES ASSUME PairInv, sigGroup = "LEVELZERO", batch.state = "done", NEW j \in DOMAIN slots, NEW k \in DOMAIN slots
                 PROVE  /\ slots[j].sig = "ENERGY" /\ slots[k] = Entry("ENERGY_TIMESTAMP", slots[j].idx)
                             => SampleSignal(j) = SampleSignal(k)
                        /\ IsDerived(slots[j].sig) => SampleSignal(j)[1] = SampleSignal(j)[2]
      BY DEF PairsMatch, Entry
    <2>1. ListOK(slots) /\ PartsListed(slots) /\ batch.left = {} /\ PairsStored
      BY DEF PairInv
    <2>2. ASSUME slots[j].sig = "ENERGY", slots[k] = Entry("ENERGY_TIMESTAMP", slots[j].idx)
          PROVE  SampleSignal(j) = SampleSignal(k)
      <3>1. slots[k].sig = "ENERGY_TIMESTAMP"
        BY <2>2 DEF Entry
      <3>2. SampleSignal(j) = <<stored[j]>> /\ SampleSignal(k) = <<stored[k]>>
        BY <2>2, <3>1, LevelZeroWays DEF SampleSignal, IsDerived
      <3>3. j \in ToRead \ batch.left /\ k \in ToRead \ batch.left
        BY <2>1, <2>2, <3>1 DEF ToRead
      <3> QED BY <2>1, <2>2, <3>2, <3>3 DEF PairsStored
    <2>3. ASSUME IsDerived(slots[j].sig)
          PROVE  SampleSignal(j)[1] = SampleSignal(j)[2]
      <3> DEFINE a == PlaceOf(slots, "ENERGY", slots[j].idx)
                 b == PlaceOf(slots, "ENERGY_TIMESTAMP", slots[j].idx)
      <3>1. SampleSignal(j) = <<stored[a], stored[b]>>
        <4>1. Ways.reads # "none"
          BY LevelZeroWays
        <4> QED BY <2>3, <4>1 DEF SampleSignal
      <3>2. Holds(slots, "ENERGY", slots[j].idx) /\ Holds(slots, "ENERGY_TIMESTAMP", slots[j].idx)
        BY <2>1, <2>3 DEF PartsListed, IsDerived
      <3>3. /\ a \in DOMAIN slots /\ slots[a] = Entry("ENERGY", slots[j].idx)
            /\ b \in DOMAIN slots /\ slots[b] = Entry("ENERGY_TIMESTAMP", slots[j].idx)
        BY <2>1, <3>2, PlaceIs, Objects DEF ListOK
      <3> HIDE DEF a, b
      <3>4. slots[a].sig = "ENERGY" /\ slots[b] = Entry("ENERGY_TIMESTAMP", slots[a].idx)
            /\ slots[b].sig = "ENERGY_TIMESTAMP"
        BY <3>3 DEF Entry
      <3>5. a \in ToRead \ batch.left /\ b \in ToRead \ batch.left
        BY <2>1, <3>3, <3>4 DEF ToRead
      <3>6. stored[b] = stored[a]
        BY <2>1, <3>4, <3>5 DEF PairsStored
      <3> QED BY <3>1, <3>6
    <2> QED BY <2>2, <2>3
  <1> QED BY <1>1, PairInvInit, PairInvNext, PTL DEF SignalSpec

=============================================================================
