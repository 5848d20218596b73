----------------------------- MODULE AccessLists -----------------------------
(***************************************************************************)
(* The access lists of the service: one directory per Unix group and one   *)
(* for everybody, with a file of signals and one of controls in each.      *)
(* Administrators change them with geopmaccess, which may write the files  *)
(* itself (--direct) while geopmd reads them for a client that opens a     *)
(* session.  geopmd opens a file, checks what it has opened, and moves it  *)
(* out of the way if it does not have the owner and permissions it should; *)
(* a file is written under another name and renamed.                       *)
(***************************************************************************)
EXTENDS Integers, Sequences, SequencesExt, FiniteSetsExt

CONSTANTS
  AccessGroups,  \* groups with access lists, with the default
  DefaultGroup,  \* GEOPM_SERVICE_DEFAULT_ACCESS
  GroupOrder,    \* the groups of the user, in the order of getgrouplist()
  AllSignals, AllControls,  \* names that the platform has
  Strange,       \* names that it does not have
  Admins,        \* processes of geopmaccess
  MaxWrites,     \* bound: changes of the lists
  MaxDamage      \* bound: changes of owners and permissions by somebody else

ASSUME AccessAssumption ==
  /\ DefaultGroup \in AccessGroups
  /\ GroupOrder \in Seq(AccessGroups \ {DefaultGroup})
  /\ Strange \cap (AllSignals \union AllControls) = {}
  /\ MaxWrites \in Nat /\ MaxDamage \in Nat

VARIABLES
  lists,    \* per group and kind: the names in the file and whether it is as it should be
  dirs,     \* per group: "none", "good" or "bad"
  admin,    \* per process of geopmaccess: where it is and what it is about to write
  request,  \* get_user_access() of geopmd: what it has still to read and what it has
  session,  \* the lists of the session that was opened last
  whole,    \* per group and kind: the list that was written last
  always,   \* per group and kind: names in the file all through the request
  atTimes,  \* names that were allowed at some time in it
  changes   \* changes so far

accessVars == <<lists, dirs, admin, request, session, whole, always, atTimes, changes>>

Kinds == {"controls", "signals"}
Names == AllSignals \union AllControls \union Strange
All(kind) == IF kind = "controls" THEN AllControls ELSE AllSignals

NoList == [there |-> FALSE, good |-> TRUE, names |-> {}]
ListOf(names) == [there |-> TRUE, good |-> TRUE, names |-> names]
EmptyDir == [k \in Kinds |-> NoList]
NoNames == [k \in Kinds |-> {}]

\* _read_allowed() and _filter_valid_*(); controls may also be read.
ReadNames(l, kind, controls) ==
  LET found == IF l[kind].there /\ l[kind].good THEN l[kind].names ELSE {}
  IN (IF kind = "signals" THEN found \union controls ELSE found) \cap All(kind)

\* The names that a file allows; controls may also be read.
InFile(g, kind) == IF dirs[g] # "none" THEN ReadNames(lists[g], kind, ReadNames(lists[g], "controls", {})) ELSE {}

\* The names that a file stands for: those written last, while it can be read.
Listed(g, kind) ==
  IF dirs[g] = "good" /\ lists[g][kind].there /\ lists[g][kind].good THEN whole[g][kind] \cap All(kind) ELSE {}

\* The groups that count for a user.
UserGroups == ToSet(GroupOrder) \union {DefaultGroup}

----------------------------------------------------------------------------
(* geopmaccess *)

\* --edit shows the list as it is read, --write takes any names; other names than those
\* of the platform only by force.
Edit(a, g, kind, names, force) ==
  /\ admin[a].at = "idle"
  /\ changes.writes < MaxWrites
  /\ force \/ names \subseteq All(kind)
  /\ changes' = [changes EXCEPT !.writes = @ + 1]
  /\ admin' = [admin EXCEPT ![a] = [at |-> "writing", group |-> g, kind |-> kind, names |-> names]]
  /\ UNCHANGED <<lists, dirs, request, session, whole>>

\* A directory that is moved away takes the temporary files in it along.
MovedAway(g) == [a \in Admins |-> IF admin[a].at = "renaming" /\ admin[a].group = g
                                  THEN [admin[a] EXCEPT !.at = "lost"] ELSE admin[a]]

\* secure_make_dirs(): what is not as it should be is replaced by a new directory.
MakeDirs(g) ==
  /\ dirs' = [dirs EXCEPT ![g] = "good"]
  /\ lists' = [lists EXCEPT ![g] = IF dirs[g] = "good" THEN @ ELSE EmptyDir]

\* (bug) The file is truncated and written in place.
WriteInPlace(a) ==
  LET w == admin[a]
  IN /\ w.at = "writing"
     /\ dirs' = [dirs EXCEPT ![w.group] = "good"]
     /\ lists' = [lists EXCEPT ![w.group] = [(IF dirs[w.group] = "good" THEN @ ELSE EmptyDir) EXCEPT ![w.kind] = ListOf({})]]
     /\ admin' = [admin EXCEPT ![a].at = "renaming"]
     /\ UNCHANGED <<request, session, whole, changes>>

\* secure_make_dirs(), and secure_make_file() up to the rename.
Write(a) ==
  LET w == admin[a]
      left == IF dirs[w.group] = "bad" THEN MovedAway(w.group) ELSE admin
  IN /\ w.at = "writing"
     /\ MakeDirs(w.group)
     /\ admin' = [left EXCEPT ![a].at = "renaming"]
     /\ UNCHANGED <<request, session, whole, changes>>

\* The rename, which raises an error if the temporary file has gone.
Rename(a) ==
  LET w == admin[a]
  IN /\ w.at \in {"renaming", "lost"}
     /\ lists' = IF w.at = "lost" THEN lists ELSE [lists EXCEPT ![w.group][w.kind] = ListOf(w.names)]
     /\ whole' = IF w.at = "lost" THEN whole ELSE [whole EXCEPT ![w.group][w.kind] = w.names]
     /\ admin' = [admin EXCEPT ![a] = [at |-> "idle"]]
     /\ UNCHANGED <<dirs, request, session, changes>>

\* geopmaccess is killed before the rename; the temporary file stays.
Killed(a) ==
  /\ admin[a].at = "renaming"
  /\ admin' = [admin EXCEPT ![a] = [at |-> "idle"]]
  /\ UNCHANGED <<lists, dirs, request, session, whole, changes>>

\* Owner or permissions of a file or a directory are changed by somebody else.
Damage(g, what) ==
  /\ changes.damage < MaxDamage
  /\ changes' = [changes EXCEPT !.damage = @ + 1]
  /\ \/ what \in Kinds /\ dirs[g] # "none" /\ lists[g][what].there
        /\ lists' = [lists EXCEPT ![g][what].good = FALSE]
        /\ UNCHANGED dirs
     \/ what = "dir" /\ dirs[g] = "good" /\ dirs' = [dirs EXCEPT ![g] = "bad"] /\ UNCHANGED lists
  /\ UNCHANGED <<admin, request, session, whole>>

----------------------------------------------------------------------------
(* get_user_access() and get_group_access() in geopmd, one access to the files   *)
(* at a time                                                                     *)

NoAccessRequest == [active |-> FALSE, groups |-> <<>>, next |-> "dir", bad |-> FALSE,
              controls |-> {}, lists |-> NoNames]

\* get_user_access() and _get_user_groups(): the groups are asked for only if one has a
\* directory; a process with CAP_SYS_ADMIN may use everything.
GetUserAccess(isAdmin) ==
  LET only == \A g \in AccessGroups \ {DefaultGroup} : dirs[g] = "none"
  IN /\ ~request.active
     /\ IF isAdmin
          THEN session' = [k \in Kinds |-> All(k)] /\ UNCHANGED request
          ELSE /\ request' = [NoAccessRequest EXCEPT !.active = TRUE,
                                               !.groups = (IF only THEN <<>> ELSE GroupOrder) \o <<DefaultGroup>>]
               /\ UNCHANGED session
     /\ UNCHANGED <<lists, dirs, admin, whole, changes>>

\* os.path.isdir() and secure_make_dirs().
CheckDir ==
  LET g == Head(request.groups)
  IN /\ request.active /\ request.groups # <<>> /\ request.next = "dir"
     /\ IF dirs[g] = "none"
          THEN /\ request' = [request EXCEPT !.groups = Tail(@)]
               /\ UNCHANGED <<lists, dirs, admin>>
          ELSE /\ request' = [request EXCEPT !.next = "controls"]
               /\ MakeDirs(g)
               /\ admin' = IF dirs[g] = "bad" THEN MovedAway(g) ELSE admin
     /\ UNCHANGED <<session, whole, changes>>

\* What has been read of one file, and what is read next.
HaveRead(r, found) ==
  [r EXCEPT !.bad = FALSE,
            !.next = IF @ = "controls" THEN "signals" ELSE "dir",
            !.groups = IF r.next = "controls" THEN @ ELSE Tail(@),
            !.controls = IF r.next = "controls" THEN found ELSE {},
            !.lists[r.next] = @ \union found]

\* secure_read_file() up to the rename of a file that is not as it should be.
ReadFile ==
  LET g == Head(request.groups)
      k == request.next
  IN /\ request.active /\ request.groups # <<>> /\ k \in Kinds /\ ~request.bad
     /\ request' = IF lists[g][k].good
                   THEN HaveRead(request, ReadNames(lists[g], k, request.controls))
                   ELSE [request EXCEPT !.bad = TRUE]
     /\ UNCHANGED <<lists, dirs, admin, session, whole, changes>>

\* is_secure_file(): the name is renamed, whatever it names by now.
Discard ==
  LET g == Head(request.groups)
      k == request.next
  IN /\ request.active /\ request.bad
     /\ lists' = [lists EXCEPT ![g][k] = NoList]
     /\ request' = HaveRead(request, IF k = "signals" THEN request.controls \cap AllSignals ELSE {})
     /\ UNCHANGED <<dirs, admin, session, whole, changes>>

\* add_client()
Granted ==
  /\ request.active /\ request.groups = <<>>
  /\ session' = request.lists
  /\ request' = [request EXCEPT !.active = FALSE]
  /\ UNCHANGED <<lists, dirs, admin, whole, changes>>

----------------------------------------------------------------------------
AccessInit ==
  /\ lists = [g \in AccessGroups |-> IF g = DefaultGroup THEN [k \in Kinds |-> ListOf(All(k))] ELSE EmptyDir]
  /\ dirs = [g \in AccessGroups |-> IF g = DefaultGroup THEN "good" ELSE "none"]
  /\ admin = [a \in Admins |-> [at |-> "idle"]]
  /\ request = NoAccessRequest
  /\ session = NoNames
  /\ whole = [g \in AccessGroups |-> [k \in Kinds |-> lists[g][k].names]]
  /\ always = [g \in UserGroups |-> NoNames]
  /\ atTimes = NoNames
  /\ changes = [writes |-> 0, damage |-> 0]

\* History, from the start of a request to its end.
History ==
  LET allowed == [k \in Kinds |-> UNION {InFile(g, k)' : g \in UserGroups}]
      listed == [g \in UserGroups |-> [k \in Kinds |-> Listed(g, k)']]
  IN CASE request.active ->
            /\ always' = [g \in UserGroups |-> [k \in Kinds |-> always[g][k] \cap listed[g][k]]]
            /\ atTimes' = [k \in Kinds |-> atTimes[k] \union allowed[k]]
       [] ~request.active /\ request'.active -> always' = listed /\ atTimes' = allowed
       [] OTHER -> always' = [g \in UserGroups |-> NoNames] /\ atTimes' = NoNames

AccessStep ==
  \/ \E a \in Admins :
       \/ \E g \in AccessGroups, k \in Kinds, force \in BOOLEAN : \E names \in SUBSET Names : Edit(a, g, k, names, force)
       \/ Write(a) \/ Rename(a) \/ Killed(a)
  \/ \E g \in AccessGroups, what \in Kinds \union {"dir"} : Damage(g, what)
  \/ (\E isAdmin \in BOOLEAN : GetUserAccess(isAdmin)) \/ CheckDir \/ ReadFile \/ Discard \/ Granted

AccessNext == AccessStep /\ History

AccessSpec == AccessInit /\ [][AccessNext]_accessVars

----------------------------------------------------------------------------
(* Properties *)

\* The type invariant.
AccessTypeOK ==
  /\ \A g \in AccessGroups : dirs[g] \in {"none", "good", "bad"} /\ \A k \in Kinds : lists[g][k].names \subseteq Names
  /\ \A a \in Admins : admin[a].at \in {"idle", "writing", "renaming", "lost"}
  /\ \A k \in Kinds : session[k] \subseteq All(k)

\* A session has every name that was in one of the files throughout the time it was
\* opened, and nothing that they did not allow at some time in it, whoever wrote to
\* them and made them unusable meanwhile (get_user_access() reads file by file).
SessionJustified ==
  request.active /\ request.groups = <<>> =>
    /\ \A g \in UserGroups, k \in Kinds : always[g][k] \subseteq request.lists[k]
    /\ \A g \in UserGroups : always[g]["controls"] \cap AllSignals \subseteq request.lists["signals"]
    /\ \A k \in Kinds : request.lists[k] \subseteq atTimes[k]

\* Only a file that is not as it should be is moved out of the way: not so, one that
\* geopmaccess has put in its place after is_secure_file() looked is moved away too.
OnlyBadDiscarded == request.active /\ request.bad => LET f == lists[Head(request.groups)][request.next] IN ~(f.there /\ f.good)
==============================================================================
