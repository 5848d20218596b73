-------------------------- MODULE Service_proofs --------------------------
(***************************************************************************)
(* Proofs about two parts of geopmd, which share no state.                 *)
(*                                                                         *)
(* ProfileService, for any set of clients, users and profile names: the    *)
(* induction hypothesis is TypeOK /\ SessionsSound with ProfilesMatch;     *)
(* NoLeftover needs them and that all clients belong to one user.          *)
(*                                                                         *)
(* AccessLists, for any groups, names and number of processes that write   *)
(* to the lists meanwhile: a session gets the names that were allowed all  *)
(* the time it was being opened, and none that was allowed at no time.     *)
(***************************************************************************)
EXTENDS AccessLists, ProfileService, TLAPS

-----------------------------------------------------------------------------
(* ProfileService                                                          *)

\* The clients that are profiled all run as one user.
SingleUser == \A c, e \in Client : Uid[c] = Uid[e]

-----------------------------------------------------------------------------
\* The three forms a session takes are sessions.
LEMMA SessionForms ==
    /\ NoSession \in SessionType
    /\ \A s \in SessionType : Opened(s) \in SessionType
    /\ \A s \in SessionType : s.ref > 1 =>
          [s EXCEPT !.ref = @ - 1] \in SessionType
    /\ \A s \in SessionType : s.ref > 1 =>
          [ref |-> s.ref - 1, name |-> NoName, open |-> TRUE] \in SessionType
    /\ \A s \in SessionType, n \in Name : [s EXCEPT !.name = n] \in SessionType
  BY DEF SessionType, NoSession, Opened

\* What the forms say of the profile name and of being open.
LEMMA SessionFields ==
    /\ NoSession.name = NoName /\ NoSession.open = FALSE
    /\ \A s \in SessionType :
         /\ Opened(s).open
         /\ (s.name # NoName => s.open) => Opened(s).name = s.name
         /\ [s EXCEPT !.ref = @ - 1].name = s.name
         /\ [s EXCEPT !.ref = @ - 1].open = s.open
    /\ \A s \in SessionType, n \in Name :
         /\ [s EXCEPT !.name = n].name = n
         /\ [s EXCEPT !.name = n].open = s.open
  BY DEF SessionType, NoSession, Opened

\* Writing a session changes that client's entry in memory and its file only.
LEMMA SetSessionEffect ==
    ASSUME TypeOK, NEW c \in Client, NEW s \in SessionType, SetSession(c, s)
    PROVE  /\ sessions' \in [Client -> SessionType]
           /\ files' \in [Client -> SessionType]
           /\ sessions'[c] = s /\ files'[c] = s
           /\ \A e \in Client \ {c} : sessions'[e] = sessions[e] /\ files'[e] = files[e]
  BY DEF TypeOK, SetSession

\* Leaving a profile keeps the types of what it changes.
LEMMA LeaveProfileTypes ==
    ASSUME TypeOK, NEW c \in Client, sessions[c].name # NoName, LeaveProfile(c)
    PROVE  /\ profiles' \in [Name -> SUBSET Client]
           /\ names' \subseteq Name
           /\ logs' \subseteq Client
           /\ status' \subseteq {Uid[e] : e \in Client}
  <1>1. sessions[c].name \in Name
    BY DEF TypeOK, SessionType
  <1>2. profiles' \in [Name -> SUBSET Client]
    BY DEF TypeOK, LeaveProfile, Left
  <1>3. names' \subseteq Name /\ logs' \subseteq Client
    BY <1>1 DEF TypeOK, LeaveProfile
  <1>4. status' \subseteq status
    BY DEF LeaveProfile, Unlinked
  <1> QED
    BY <1>2, <1>3, <1>4 DEF TypeOK

\* Closing a session completely keeps the types of what it changes.
LEMMA CloseTypes ==
    ASSUME TypeOK, NEW c \in Client, CloseCompletely(c)
    PROVE  /\ sessions' \in [Client -> SessionType]
           /\ files' \in [Client -> SessionType]
           /\ profiles' \in [Name -> SUBSET Client]
           /\ names' \subseteq Name
           /\ logs' \subseteq Client
           /\ status' \subseteq {Uid[e] : e \in Client}
           /\ profiler' \in Client \cup {NoClient}
  <1>1. /\ sessions' \in [Client -> SessionType]
        /\ files' \in [Client -> SessionType]
    BY SetSessionEffect, SessionForms DEF CloseCompletely
  <1>2. /\ profiles' \in [Name -> SUBSET Client]
        /\ names' \subseteq Name
        /\ logs' \subseteq Client
        /\ status' \subseteq {Uid[e] : e \in Client}
    <2>1. CASE sessions[c].name # NoName
      BY <2>1, LeaveProfileTypes DEF CloseCompletely
    <2>2. CASE sessions[c].name = NoName
      BY <2>2 DEF CloseCompletely, TypeOK
    <2> QED
      BY <2>1, <2>2
  <1>3. profiler' \in Client \cup {NoClient}
    BY DEF CloseCompletely, Release, TypeOK
  <1> QED
    BY <1>1, <1>2, <1>3

\* The initial state is well typed.
LEMMA TypeInit == Init => TypeOK
  <1> SUFFICES ASSUME Init PROVE TypeOK
    OBVIOUS
  <1>1. /\ sessions \in [Client -> SessionType]
        /\ files \in [Client -> SessionType]
    BY SessionForms DEF Init
  <1>2. crashes \in 0 .. MaxCrash
    BY ProfileServiceAssumption DEF Init
  <1> QED
    BY <1>1, <1>2 DEF Init, TypeOK

\* Every step keeps the types.
LEMMA TypeNext == TypeOK /\ [Next]_vars => TypeOK'
  <1> SUFFICES ASSUME TypeOK, [Next]_vars PROVE TypeOK'
    OBVIOUS
  <1>1. ASSUME NEW c \in Client, OpenSession(c) PROVE TypeOK'
    <2>1. Opened(sessions[c]) \in SessionType
      BY SessionForms DEF TypeOK
    <2>2. /\ sessions' \in [Client -> SessionType]
          /\ files' \in [Client -> SessionType]
      BY <1>1, <2>1, SetSessionEffect DEF OpenSession
    <2> QED
      BY <1>1, <2>2 DEF TypeOK, OpenSession
  <1>2. ASSUME NEW c \in Client, CloseSession(c) PROVE TypeOK'
    <2>1. CASE sessions[c].ref > 1
      <3>1. [sessions[c] EXCEPT !.ref = @ - 1] \in SessionType
        BY <2>1, SessionForms DEF TypeOK
      <3>2. /\ sessions' \in [Client -> SessionType]
            /\ files' \in [Client -> SessionType]
        BY <1>2, <2>1, <3>1, SetSessionEffect DEF CloseSession
      <3> QED
        BY <1>2, <2>1, <3>2 DEF TypeOK, CloseSession
    <2>2. CASE ~(sessions[c].ref > 1)
      <3>1. CloseCompletely(c) /\ UNCHANGED <<alive, up, crashes, pending>>
        BY <1>2, <2>2 DEF CloseSession
      <3> QED
        BY <3>1, CloseTypes DEF TypeOK
    <2> QED
      BY <2>1, <2>2
  <1>3. ASSUME NEW c \in Client, Unsessioned(c) PROVE TypeOK'
    BY <1>3, CloseTypes DEF TypeOK, Unsessioned
  <1>4. ASSUME NEW c \in Client, CheckClient(c) PROVE TypeOK'
    BY <1>4, CloseTypes DEF TypeOK, CheckClient
  <1>5. ASSUME NEW c \in Client, NEW n \in Name, StartProfile(c, n) PROVE TypeOK'
    <2>1. Opened(sessions[c]) \in SessionType
      BY SessionForms DEF TypeOK
    <2>2. /\ sessions' \in [Client -> SessionType]
          /\ files' \in [Client -> SessionType]
      BY <1>5, <2>1, SetSessionEffect DEF StartProfile
    <2> QED
      BY <1>5, <2>2 DEF TypeOK, StartProfile
  <1>6. ASSUME AddProfile PROVE TypeOK'
    <2> DEFINE c == pending.client
               n == pending.name
    <2>1. c \in Client /\ n \in Name
      BY <1>6 DEF TypeOK, AddProfile
    <2>2. [sessions[c] EXCEPT !.name = n] \in SessionType
      BY <2>1, SessionForms DEF TypeOK
    <2>3. /\ sessions' \in [Client -> SessionType]
          /\ files' \in [Client -> SessionType]
      <3>1. sessions' \in [Client -> SessionType]
        BY <1>6, <2>1, <2>2 DEF TypeOK, AddProfile
      <3> QED
        BY <1>6, <2>1, <3>1 DEF TypeOK, AddProfile
    <2>4. /\ profiles' \in [Name -> SUBSET Client]
          /\ logs' \subseteq Client
          /\ status' \subseteq {Uid[e] : e \in Client}
      BY <1>6, <2>1 DEF TypeOK, AddProfile
    <2> QED
      BY <1>6, <2>3, <2>4 DEF TypeOK, AddProfile
  <1>7. ASSUME NEW c \in Client, StopProfile(c) PROVE TypeOK'
    <2>1. /\ profiles' \in [Name -> SUBSET Client]
          /\ names' \subseteq Name
          /\ logs' \subseteq Client
          /\ status' \subseteq {Uid[e] : e \in Client}
      BY <1>7, LeaveProfileTypes DEF StopProfile
    <2>2. /\ sessions' \in [Client -> SessionType]
          /\ files' \in [Client -> SessionType]
          /\ profiler' \in Client \cup {NoClient}
      <3>1. CASE sessions[c].ref > 1
        <4>1. [ref |-> sessions[c].ref - 1, name |-> NoName, open |-> TRUE] \in SessionType
          BY <3>1, SessionForms DEF TypeOK
        <4> QED
          BY <1>7, <3>1, <4>1, SetSessionEffect DEF StopProfile, TypeOK
      <3>2. CASE ~(sessions[c].ref > 1)
        <4>1. SetSession(c, NoSession) /\ profiler' = Release(c)
          BY <1>7, <3>2 DEF StopProfile
        <4> QED
          BY <4>1, SessionForms, SetSessionEffect DEF Release, TypeOK
      <3> QED
        BY <3>1, <3>2
    <2> QED
      BY <1>7, <2>1, <2>2 DEF TypeOK, StopProfile
  <1>8. ASSUME NEW c \in Client, GetProfilePids(c) PROVE TypeOK'
    BY <1>8 DEF TypeOK, GetProfilePids, memVars
  <1>9. ASSUME NEW c \in Client, NEW n \in Name, PopRegionNames(c, n) PROVE TypeOK'
    BY <1>9 DEF TypeOK, PopRegionNames
  <1>10. ASSUME NEW c \in Client, Die(c) PROVE TypeOK'
    BY <1>10 DEF TypeOK, Die, memVars, diskVars
  <1>11. ASSUME Crash PROVE TypeOK'
    <2>1. crashes' \in 0 .. MaxCrash
      BY <1>11, ProfileServiceAssumption DEF TypeOK, Crash
    <2> QED
      BY <1>11, <2>1 DEF TypeOK, Crash, diskVars
  <1>12. ASSUME Restart PROVE TypeOK'
    <2>1. \A c \in Client : Reloaded(c) \in SessionType
      BY SessionForms DEF TypeOK, Reloaded
    <2>2. /\ sessions' \in [Client -> SessionType]
          /\ files' \in [Client -> SessionType]
      BY <1>12, <2>1 DEF Restart
    <2>3. /\ profiles' \in [Name -> SUBSET Client]
          /\ status' \subseteq {Uid[e] : e \in Client}
          /\ logs' \subseteq Client /\ names' \subseteq Name
      BY <1>12 DEF Restart
    <2>4. profiler' \in Client \cup {NoClient}
      BY <1>12 DEF TypeOK, Restart
    <2> QED
      BY <1>12, <2>2, <2>3, <2>4 DEF TypeOK, Restart
  <1>13. ASSUME UNCHANGED vars PROVE TypeOK'
    BY <1>13 DEF TypeOK, vars, memVars, diskVars
  <1> QED
    BY <1>1, <1>2, <1>3, <1>4, <1>5, <1>6, <1>7, <1>8, <1>9, <1>10, <1>11, <1>12, <1>13
       DEF Next, Request

\* The state of geopmd about profiles is always well typed, in particular region
\* names are only ever kept for profile names.
THEOREM TypeCorrect == Spec => []TypeOK
  <1>1. Init => TypeOK
    BY TypeInit
  <1>2. TypeOK /\ [Next]_vars => TypeOK'
    BY TypeNext
  <1> QED
    BY <1>1, <1>2, PTL DEF Spec

-----------------------------------------------------------------------------
\* A step that writes the session of one client and moves that client to the
\* profile the session names, and nobody else, keeps Inv.
LEMMA OneChanged ==
    ASSUME TypeOK, Inv, up, up', NEW c \in Client, NEW s \in SessionType,
           SetSession(c, s),
           s.name # NoName => s.open,
           pending' # NoRequest => pending'.client = c /\ s.open,
           \A n \in Name : c \in profiles'[n] <=> s.name = n,
           \A e \in Client \ {c}, n \in Name : e \in profiles'[n] <=> e \in profiles[n]
    PROVE  Inv'
  <1>1. /\ sessions'[c] = s /\ files'[c] = s
        /\ \A e \in Client \ {c} : sessions'[e] = sessions[e] /\ files'[e] = files[e]
    BY SetSessionEffect
  <1>2. /\ \A e \in Client : sessions'[e].name # NoName => sessions'[e].open
        /\ \A e \in Client : files'[e].name # NoName => files'[e].open
    BY <1>1 DEF Inv, SessionsSound
  <1>3. pending' # NoRequest => sessions'[pending'.client].open
    BY <1>1
  <1>4. SessionsSound'
    BY <1>2, <1>3 DEF SessionsSound, NoRequest
  <1>5. ASSUME NEW e \in Client, NEW n \in Name
        PROVE  e \in profiles'[n] <=> sessions'[e].name = n
    <2>1. CASE e = c
      BY <1>1, <2>1
    <2>2. CASE e # c
      BY <1>1, <2>2 DEF Inv, ProfilesMatch
    <2> QED
      BY <2>1, <2>2
  <1>6. ProfilesMatch'
    BY <1>5 DEF ProfilesMatch
  <1> QED
    BY <1>4, <1>6 DEF Inv

\* Leaving takes the client out of every profile and moves nobody else.
LEMMA LeaveEffect ==
    ASSUME TypeOK, NEW c \in Client, LeaveProfile(c)
    PROVE  /\ \A n \in Name : c \notin profiles'[n]
           /\ \A e \in Client \ {c}, n \in Name : e \in profiles'[n] <=> e \in profiles[n]
  BY DEF LeaveProfile, Left

\* Closing a session completely leaves the client in no profile.
LEMMA CloseSound ==
    ASSUME TypeOK, Inv, up, NEW c \in Client, CloseCompletely(c), up' = up,
           pending' = NoRequest
    PROVE  Inv'
  <1>1. NoSession.name = NoName /\ NoSession \in SessionType
    BY SessionForms, SessionFields
  <1>2. \A n \in Name : NoSession.name # n
    BY <1>1, ProfileServiceAssumption
  <1>3. /\ \A n \in Name : c \notin profiles'[n]
        /\ \A e \in Client \ {c}, n \in Name : e \in profiles'[n] <=> e \in profiles[n]
    <2>1. CASE sessions[c].name # NoName
      BY <2>1, LeaveEffect DEF CloseCompletely
    <2>2. CASE sessions[c].name = NoName
      <3>1. \A n \in Name : c \notin profiles[n]
        BY <2>2, ProfileServiceAssumption DEF Inv, ProfilesMatch
      <3> QED
        BY <2>2, <3>1 DEF CloseCompletely
    <2> QED
      BY <2>1, <2>2
  <1>4. SetSession(c, NoSession)
    BY DEF CloseCompletely
  <1> QED
    BY <1>1, <1>2, <1>3, <1>4, OneChanged

\* Nobody has a session or a profile at first.
LEMMA SoundInit == Init => Inv
  <1> SUFFICES ASSUME Init PROVE Inv
    OBVIOUS
  <1>1. NoSession.name = NoName /\ NoName \notin Name
    BY SessionFields, ProfileServiceAssumption
  <1>2. SessionsSound
    BY <1>1 DEF Init, SessionsSound
  <1>3. ProfilesMatch
    BY <1>1 DEF Init, ProfilesMatch
  <1> QED
    BY <1>2, <1>3 DEF Inv

\* Every step keeps Inv.
LEMMA SoundNext == TypeOK /\ Inv /\ [Next]_vars => Inv'
  <1> SUFFICES ASSUME TypeOK, Inv, [Next]_vars PROVE Inv'
    OBVIOUS
  <1>a. \A c \in Client : /\ sessions[c] \in SessionType
                          /\ sessions[c].name # NoName => sessions[c].open
    BY DEF TypeOK, Inv, SessionsSound
  <1>b. up => \A c \in Client, n \in Name : c \in profiles[n] <=> sessions[c].name = n
    BY DEF Inv, ProfilesMatch
  <1>1. ASSUME NEW c \in Client, OpenSession(c) PROVE Inv'
    <2>1. /\ Opened(sessions[c]) \in SessionType
          /\ Opened(sessions[c]).open /\ Opened(sessions[c]).name = sessions[c].name
      BY <1>a, SessionForms, SessionFields
    <2>2. /\ SetSession(c, Opened(sessions[c]))
          /\ up /\ up' /\ pending' = NoRequest /\ profiles' = profiles
      BY <1>1 DEF OpenSession, Ready
    <2> QED
      BY <2>1, <2>2, <1>b, OneChanged
  <1>2. ASSUME NEW c \in Client, CloseSession(c) PROVE Inv'
    <2>0. up /\ up' = up /\ pending' = NoRequest
      BY <1>2 DEF CloseSession, Ready
    <2>1. CASE sessions[c].ref > 1
      <3> DEFINE s == [sessions[c] EXCEPT !.ref = @ - 1]
      <3>1. s \in SessionType /\ s.name = sessions[c].name /\ s.open = sessions[c].open
        BY <2>1, <1>a, SessionForms, SessionFields
      <3>2. SetSession(c, s) /\ profiles' = profiles
        BY <1>2, <2>1 DEF CloseSession
      <3> HIDE DEF s
      <3> QED
        BY <2>0, <3>1, <3>2, <1>a, <1>b, OneChanged
    <2>2. CASE ~(sessions[c].ref > 1)
      BY <1>2, <2>0, <2>2, CloseSound DEF CloseSession
    <2> QED
      BY <2>1, <2>2
  <1>3. ASSUME NEW c \in Client, Unsessioned(c) PROVE Inv'
    BY <1>3, CloseSound DEF Unsessioned, Ready
  <1>4. ASSUME NEW c \in Client, CheckClient(c) PROVE Inv'
    BY <1>4, CloseSound DEF CheckClient, Ready
  <1>5. ASSUME NEW c \in Client, NEW n \in Name, StartProfile(c, n) PROVE Inv'
    <2>1. /\ Opened(sessions[c]) \in SessionType
          /\ Opened(sessions[c]).open /\ Opened(sessions[c]).name = sessions[c].name
      BY <1>a, SessionForms, SessionFields
    <2>2. /\ SetSession(c, Opened(sessions[c]))
          /\ up /\ up' /\ pending'.client = c /\ profiles' = profiles
      BY <1>5 DEF StartProfile, Ready
    <2> QED
      BY <2>1, <2>2, <1>b, OneChanged
  <1>6. ASSUME AddProfile PROVE Inv'
    <2> DEFINE c == pending.client
               n == pending.name
               s == [sessions[c] EXCEPT !.name = n]
    <2>1. /\ c \in Client /\ n \in Name
          /\ up /\ up' /\ pending # NoRequest /\ pending' = NoRequest
      BY <1>6 DEF TypeOK, AddProfile
    <2>2. CASE Rejected(c)
      <3>1. UNCHANGED <<sessions, files, profiles>>
        BY <1>6, <2>2 DEF AddProfile
      <3> QED
        BY <2>1, <3>1 DEF Inv, SessionsSound, ProfilesMatch, NoRequest
    <2>3. CASE ~Rejected(c)
      <3>1. s.name = n /\ s.open = sessions[c].open
        BY <2>1, <1>a, SessionFields
      <3>2. sessions[c].open
        BY <2>1 DEF Inv, SessionsSound
      <3>3. /\ profiles' = [profiles EXCEPT ![n] = @ \cup {c}]
            /\ sessions' = [sessions EXCEPT ![c] = s]
            /\ files' = IF c \in logs THEN files ELSE [files EXCEPT ![c] = sessions'[c]]
        BY <1>6, <2>3 DEF AddProfile
      <3>4. sessions[c].name = NoName
        BY <2>3 DEF Rejected
      <3> HIDE DEF s, n, c
      <3>5. /\ sessions'[c] = s
            /\ \A e \in Client \ {c} : sessions'[e] = sessions[e]
            /\ \A e \in Client \ {c} : files'[e] = files[e]
            /\ files'[c] \in {files[c], s}
        BY <2>1, <3>3 DEF TypeOK
      <3>6. SessionsSound'
        <4>1. \A e \in Client : sessions'[e].name # NoName => sessions'[e].open
          BY <3>1, <3>2, <3>5, <1>a
        <4>2. \A e \in Client : files'[e].name # NoName => files'[e].open
          BY <3>1, <3>2, <3>5, <2>1 DEF Inv, SessionsSound
        <4> QED
          BY <4>1, <4>2, <2>1 DEF SessionsSound, NoRequest
      <3>7. ASSUME NEW e \in Client, NEW m \in Name
            PROVE  e \in profiles'[m] <=> sessions'[e].name = m
        <4>1. e \in profiles'[m] <=> (e \in profiles[m] \/ (e = c /\ m = n))
          BY <2>1, <3>3 DEF TypeOK
        <4>2. \A k \in Name : c \notin profiles[k]
          BY <2>1, <3>4, <1>b, ProfileServiceAssumption
        <4> QED
          BY <4>1, <4>2, <2>1, <3>1, <3>5, <1>b
      <3> QED
        BY <3>6, <3>7 DEF Inv, ProfilesMatch
    <2> QED
      BY <2>2, <2>3
  <1>7. ASSUME NEW c \in Client, StopProfile(c) PROVE Inv'
    <2>0. up /\ up' = up /\ pending' = NoRequest /\ LeaveProfile(c)
      BY <1>7 DEF StopProfile, Ready
    <2>1. /\ \A n \in Name : c \notin profiles'[n]
          /\ \A e \in Client \ {c}, n \in Name : e \in profiles'[n] <=> e \in profiles[n]
      BY <2>0, LeaveEffect
    <2>2. CASE sessions[c].ref > 1
      <3> DEFINE s == [ref |-> sessions[c].ref - 1, name |-> NoName, open |-> TRUE]
      <3>1. s \in SessionType
        BY <2>2, <1>a, SessionForms
      <3>2. s.name = NoName
        OBVIOUS
      <3>3. SetSession(c, s)
        BY <1>7, <2>2 DEF StopProfile
      <3> HIDE DEF s
      <3> QED
        BY <2>0, <2>1, <3>1, <3>2, <3>3, OneChanged, ProfileServiceAssumption
    <2>3. CASE ~(sessions[c].ref > 1)
      <3>1. SetSession(c, NoSession)
        BY <1>7, <2>3 DEF StopProfile
      <3> QED
        BY <2>0, <2>1, <3>1, SessionForms, SessionFields, OneChanged, ProfileServiceAssumption
    <2> QED
      BY <2>2, <2>3
  <1>8. ASSUME NEW c \in Client, GetProfilePids(c) PROVE Inv'
    BY <1>8 DEF Inv, SessionsSound, ProfilesMatch, GetProfilePids, memVars
  <1>9. ASSUME NEW c \in Client, NEW n \in Name, PopRegionNames(c, n) PROVE Inv'
    BY <1>9 DEF Inv, SessionsSound, ProfilesMatch, PopRegionNames
  <1>10. ASSUME NEW c \in Client, Die(c) PROVE Inv'
    BY <1>10 DEF Inv, SessionsSound, ProfilesMatch, Die, memVars, diskVars
  <1>11. ASSUME Crash PROVE Inv'
    BY <1>11 DEF Inv, SessionsSound, ProfilesMatch, Crash, diskVars, NoRequest
  <1>12. ASSUME Restart PROVE Inv'
    <2>1. /\ \A c \in Client : sessions'[c] = Reloaded(c)
          /\ files' = sessions' /\ up'
          /\ \A n \in Name : profiles'[n] = {c \in Client : sessions'[c].name = n}
          /\ pending' = pending /\ ~up
      BY <1>12 DEF Restart
    <2>2. \A c \in Client : sessions'[c].name # NoName => sessions'[c].open
      BY <2>1, SessionFields DEF Reloaded, Inv, SessionsSound
    <2>3. pending' = NoRequest
      BY <2>1 DEF Inv, SessionsSound
    <2> QED
      BY <2>1, <2>2, <2>3 DEF Inv, SessionsSound, ProfilesMatch, NoRequest
  <1>13. ASSUME UNCHANGED vars PROVE Inv'
    BY <1>13 DEF Inv, SessionsSound, ProfilesMatch, vars, memVars, diskVars
  <1> QED
    BY <1>1, <1>2, <1>3, <1>4, <1>5, <1>6, <1>7, <1>8, <1>9, <1>10, <1>11, <1>12, <1>13
       DEF Next, Request

\* Between requests, through failures, deaths of clients and restarts of geopmd,
\* a process is a member of exactly the profile its session names.
THEOREM Membership == Spec => []ProfilesMatch
  <1>1. Init => TypeOK /\ Inv
    BY TypeInit, SoundInit
  <1>2. (TypeOK /\ Inv) /\ [Next]_vars => (TypeOK /\ Inv)'
    BY TypeNext, SoundNext
  <1>3. TypeOK /\ Inv => ProfilesMatch
    BY DEF Inv
  <1> QED
    BY <1>1, <1>2, <1>3, PTL DEF Spec

-----------------------------------------------------------------------------
\* With one user, the last process to leave takes the only status file there
\* can be with it.
LEMMA LeaveClean ==
    ASSUME TypeOK, SingleUser, NoLeftover, up, NEW c \in Client, LeaveProfile(c)
    PROVE  NoLeftover'
  <1>1. \A e \in Client \ {c}, n \in Name : e \in profiles'[n] <=> e \in profiles[n]
    BY LeaveEffect
  <1>2. \A e \in logs' : e \in logs \ {c} /\ e \in Client
    BY DEF LeaveProfile, TypeOK
  <1>3. \A e \in logs' : \E n \in Name : e \in profiles'[n]
    BY <1>1, <1>2 DEF NoLeftover
  <1>4. status \subseteq {Uid[c]}
    BY DEF TypeOK, SingleUser
  <1>5. NoProfiles' => status' = {}
    <2>1. NoProfiles' => \A n \in Name : Left(c)[n] = {}
      BY DEF LeaveProfile, NoProfiles
    <2> QED
      BY <2>1, <1>4 DEF LeaveProfile, Unlinked
  <1> QED
    BY <1>3, <1>5 DEF NoLeftover

\* Closing a session completely leaves no file behind.
LEMMA CloseClean ==
    ASSUME TypeOK, SingleUser, NoLeftover, up, up' = up, NEW c \in Client,
           CloseCompletely(c)
    PROVE  NoLeftover'
  <1>1. CASE sessions[c].name # NoName
    BY <1>1, LeaveClean DEF CloseCompletely
  <1>2. CASE sessions[c].name = NoName
    BY <1>2 DEF CloseCompletely, NoLeftover, NoProfiles
  <1> QED
    BY <1>1, <1>2

\* Every step leaves no file behind, as long as there is one user.
LEMMA CleanNext ==
    ASSUME SingleUser
    PROVE  TypeOK /\ NoLeftover /\ [Next]_vars => NoLeftover'
  <1> SUFFICES ASSUME TypeOK, NoLeftover, [Next]_vars PROVE NoLeftover'
    OBVIOUS
  <1>1. ASSUME NEW c \in Client, OpenSession(c) PROVE NoLeftover'
    BY <1>1 DEF OpenSession, NoLeftover, NoProfiles
  <1>2. ASSUME NEW c \in Client, CloseSession(c) PROVE NoLeftover'
    <2>0. up /\ up' = up
      BY <1>2 DEF CloseSession, Ready
    <2>1. CASE sessions[c].ref > 1
      BY <1>2, <2>1 DEF CloseSession, NoLeftover, NoProfiles
    <2>2. CASE ~(sessions[c].ref > 1)
      BY <1>2, <2>0, <2>2, CloseClean DEF CloseSession
    <2> QED
      BY <2>1, <2>2
  <1>3. ASSUME NEW c \in Client, Unsessioned(c) PROVE NoLeftover'
    BY <1>3, CloseClean DEF Unsessioned, Ready
  <1>4. ASSUME NEW c \in Client, CheckClient(c) PROVE NoLeftover'
    BY <1>4, CloseClean DEF CheckClient, Ready
  <1>5. ASSUME NEW c \in Client, NEW n \in Name, StartProfile(c, n) PROVE NoLeftover'
    BY <1>5 DEF StartProfile, NoLeftover, NoProfiles
  <1>6. ASSUME AddProfile PROVE NoLeftover'
    <2> DEFINE c == pending.client
               n == pending.name
    <2>1. c \in Client /\ n \in Name /\ up /\ up' = up
      BY <1>6 DEF TypeOK, AddProfile
    <2>2. CASE Rejected(c)
      BY <1>6, <2>1, <2>2 DEF AddProfile, NoLeftover, NoProfiles
    <2>3. CASE ~Rejected(c)
      <3>1. /\ profiles' = [profiles EXCEPT ![n] = @ \cup {c}]
            /\ logs' = logs \cup {c}
        BY <1>6, <2>3 DEF AddProfile
      <3> HIDE DEF c, n
      <3>2. /\ c \in profiles'[n]
            /\ \A e \in Client, m \in Name : e \in profiles[m] => e \in profiles'[m]
        BY <2>1, <3>1 DEF TypeOK
      <3>3. \A e \in logs' : \E m \in Name : e \in profiles'[m]
        BY <2>1, <3>1, <3>2 DEF NoLeftover, TypeOK
      <3>4. ~NoProfiles'
        BY <2>1, <3>2 DEF NoProfiles
      <3> QED
        BY <3>3, <3>4 DEF NoLeftover
    <2> QED
      BY <2>2, <2>3
  <1>7. ASSUME NEW c \in Client, StopProfile(c) PROVE NoLeftover'
    BY <1>7, LeaveClean DEF StopProfile, Ready
  <1>8. ASSUME NEW c \in Client, GetProfilePids(c) PROVE NoLeftover'
    BY <1>8 DEF GetProfilePids, memVars, NoLeftover, NoProfiles
  <1>9. ASSUME NEW c \in Client, NEW n \in Name, PopRegionNames(c, n) PROVE NoLeftover'
    BY <1>9 DEF PopRegionNames, NoLeftover, NoProfiles
  <1>10. ASSUME NEW c \in Client, Die(c) PROVE NoLeftover'
    BY <1>10 DEF Die, memVars, diskVars, NoLeftover, NoProfiles
  <1>11. ASSUME Crash PROVE NoLeftover'
    BY <1>11 DEF Crash, NoLeftover
  <1>12. ASSUME Restart PROVE NoLeftover'
    BY <1>12 DEF Restart, NoLeftover
  <1>13. ASSUME UNCHANGED vars PROVE NoLeftover'
    BY <1>13 DEF vars, memVars, diskVars, NoLeftover, NoProfiles
  <1> QED
    BY <1>1, <1>2, <1>3, <1>4, <1>5, <1>6, <1>7, <1>8, <1>9, <1>10, <1>11, <1>12, <1>13
       DEF Next, Request

\* When all profiled processes belong to one user, no profile file outlives the
\* profiles, however clients and geopmd fail.  The run with two users shows that
\* the assumption cannot be dropped.
THEOREM CleanWithOneUser == ASSUME SingleUser PROVE Spec => []NoLeftover
  <1>1. Init => TypeOK /\ NoLeftover
    BY TypeInit DEF Init, NoLeftover
  <1>2. (TypeOK /\ NoLeftover) /\ [Next]_vars => (TypeOK /\ NoLeftover)'
    BY TypeNext, CleanNext
  <1> QED
    BY <1>1, <1>2, PTL DEF Spec

-----------------------------------------------------------------------------
(* AccessLists                                                             *)

ListType == [there : BOOLEAN, good : BOOLEAN, names : SUBSET Names]
Directory == [Kinds -> ListType]
NamesOfKinds == [Kinds -> SUBSET Names]
ListRequest == [active : BOOLEAN, groups : Seq(UserGroups), next : {"dir", "controls", "signals"}, bad : BOOLEAN,
            controls : SUBSET Names, lists : NamesOfKinds]

\* What a process of geopmaccess is about to write.
AdminShape(w) ==
  \/ w = [at |-> "idle"]
  \/ /\ w = [at |-> w.at, group |-> w.group, kind |-> w.kind, names |-> w.names]
     /\ w.group \in AccessGroups /\ w.kind \in Kinds /\ w.names \in SUBSET Names

\* The files, and what was written to them last.
FilesOK ==
  /\ lists \in [AccessGroups -> Directory]
  /\ dirs \in [AccessGroups -> {"none", "good", "bad"}]
  /\ whole \in [AccessGroups -> NamesOfKinds]
  /\ admin = [a \in Admins |-> admin[a]] /\ \A a \in Admins : AdminShape(admin[a])

\* A file that is there has the names that were written last: it is replaced as a whole.
WholeOK == \A g \in AccessGroups, k \in Kinds : lists[g][k].there => lists[g][k].names = whole[g][k]

HistoryOK == always \in [UserGroups -> NamesOfKinds] /\ atTimes \in NamesOfKinds

\* What a request has by now of a group that it is through with.
Has(g) ==
  /\ \A k \in Kinds : always[g][k] \subseteq request.lists[k]
  /\ always[g]["controls"] \cap AllSignals \subseteq request.lists["signals"]

\* A request in progress: groups that are done, the group at hand, and nothing that was
\* never allowed.
Reading ==
  /\ \A g \in UserGroups : g \notin ToSet(request.groups) => Has(g)
  /\ \A g \in UserGroups, k \in Kinds : always[g][k] \subseteq Listed(g, k)
  /\ \A k \in Kinds : request.lists[k] \subseteq atTimes[k]
  /\ request.controls \cap AllSignals \subseteq atTimes["signals"]
  /\ request.next # "dir" => request.groups # <<>> /\ dirs[Head(request.groups)] # "none"
  /\ request.bad = TRUE => request.next # "dir"
  /\ request.next = "signals" => /\ always[Head(request.groups)]["controls"] \subseteq request.controls
                                 /\ request.controls \subseteq request.lists["controls"]

AccessInv == FilesOK /\ WholeOK /\ HistoryOK /\ request \in ListRequest /\ (request.active => Reading)

-----------------------------------------------------------------------------
LEMMA Constants ==
    /\ UserGroups \subseteq AccessGroups /\ DefaultGroup \in UserGroups
    /\ GroupOrder \in Seq(UserGroups)
    /\ \A k \in Kinds : All(k) \subseteq Names
    /\ All("controls") = AllControls /\ All("signals") = AllSignals
    /\ "controls" \in Kinds /\ "signals" \in Kinds
  <1>1. GroupOrder \in Seq(AccessGroups \ {DefaultGroup}) /\ DefaultGroup \in AccessGroups
    BY AccessAssumption
  <1>2. ToSet(GroupOrder) = {GroupOrder[i] : i \in 1..Len(GroupOrder)}
    BY <1>1 DEF ToSet
  <1>3. UserGroups \subseteq AccessGroups /\ DefaultGroup \in UserGroups /\ \A i \in 1..Len(GroupOrder) : GroupOrder[i] \in UserGroups
    BY <1>1, <1>2 DEF UserGroups
  <1>4. GroupOrder \in Seq(UserGroups)
    BY <1>1, <1>3
  <1> QED BY <1>3, <1>4 DEF Kinds, All, Names

LEMMA ToSetTail ==
    ASSUME NEW S, NEW q \in Seq(S), q # <<>>
    PROVE  /\ Head(q) \in S /\ Tail(q) \in Seq(S)
           /\ ToSet(q) = {Head(q)} \cup ToSet(Tail(q))
  <1>1. Head(q) \in S /\ Tail(q) \in Seq(S) /\ Len(q) \in Nat /\ Len(q) > 0 /\ Len(Tail(q)) = Len(q) - 1
    OBVIOUS
  <1>2. ToSet(q) = {q[i] : i \in 1..Len(q)} /\ ToSet(Tail(q)) = {Tail(q)[i] : i \in 1..Len(q) - 1}
    <2>1. DOMAIN q = 1..Len(q) /\ DOMAIN Tail(q) = 1..Len(Tail(q))
      BY <1>1
    <2>2. DOMAIN Tail(q) = 1..Len(q) - 1
      BY <1>1, <2>1
    <2> QED BY <2>1, <2>2 DEF ToSet
  <1>3. \A i \in 1..Len(q) - 1 : Tail(q)[i] = q[i + 1]
    BY <1>1
  <1>4. Head(q) = q[1]
    OBVIOUS
  <1>5. ASSUME NEW i \in 1..Len(q) PROVE q[i] \in {Head(q)} \cup ToSet(Tail(q))
    <2>1. CASE i = 1
      BY <1>4, <2>1
    <2>2. CASE i # 1
      <3>1. i - 1 \in 1..Len(q) - 1 /\ Tail(q)[i - 1] = q[i]
        BY <1>1, <1>3, <2>2
      <3> QED BY <1>2, <3>1
    <2> QED BY <2>1, <2>2
  <1>6. ASSUME NEW i \in 1..Len(q) - 1 PROVE Tail(q)[i] \in ToSet(q)
    <2>1. i + 1 \in 1..Len(q)
      BY <1>1
    <2> QED BY <1>2, <1>3, <2>1
  <1>7. Head(q) \in ToSet(q)
    BY <1>1, <1>2, <1>4
  <1> QED BY <1>1, <1>2, <1>5, <1>6, <1>7

LEMMA ToSetAppend ==
    ASSUME NEW S, NEW q \in Seq(S), NEW x \in S
    PROVE  q \o <<x>> \in Seq(S) /\ ToSet(q \o <<x>>) = ToSet(q) \cup {x} /\ ToSet(<<x>>) = {x}
  <1>1. /\ q \o <<x>> \in Seq(S) /\ Len(q \o <<x>>) = Len(q) + 1 /\ Len(q) \in Nat
        /\ \A i \in 1..Len(q) : (q \o <<x>>)[i] = q[i]
        /\ (q \o <<x>>)[Len(q) + 1] = x
    OBVIOUS
  <1>2. ToSet(q \o <<x>>) = {(q \o <<x>>)[i] : i \in 1..Len(q) + 1} /\ ToSet(q) = {q[i] : i \in 1..Len(q)}
    BY <1>1 DEF ToSet
  <1>3. \A i \in 1..Len(q) + 1 : i \in 1..Len(q) \/ i = Len(q) + 1
    BY <1>1
  <1>4. ToSet(<<x>>) = {x}
    BY DEF ToSet
  <1>5. ToSet(q \o <<x>>) \subseteq ToSet(q) \cup {x}
    BY <1>1, <1>2, <1>3
  <1>6. \A i \in 1..Len(q) : i \in 1..Len(q) + 1
    BY <1>1
  <1>7. ToSet(q) \cup {x} \subseteq ToSet(q \o <<x>>)
    BY <1>1, <1>2, <1>6
  <1> QED BY <1>1, <1>4, <1>5, <1>7

-----------------------------------------------------------------------------
\* A list that can be read has what was written last.
LEMMA ListedIsRead ==
    ASSUME FilesOK, WholeOK, NEW g \in AccessGroups, NEW k \in Kinds, NEW c
    PROVE  Listed(g, k) \subseteq ReadNames(lists[g], k, c) /\ Listed(g, k) \subseteq Names
  <1>1. lists[g][k] \in ListType /\ All(k) \subseteq Names
    BY Constants DEF FilesOK, Directory
  <1> QED BY <1>1 DEF Listed, ReadNames, WholeOK, ListType

\* The names of a request are names.
LEMMA ReadIsNames ==
    ASSUME FilesOK, NEW g \in AccessGroups, NEW k \in Kinds, NEW c
    PROVE  ReadNames(lists[g], k, c) \in SUBSET Names /\ InFile(g, k) \in SUBSET Names
  BY Constants DEF ReadNames, InFile

\* While a request is in progress, what counts for all of it can only shrink and what
\* counts for some of it can only grow.
LEMMA HistoryStep ==
    ASSUME AccessInv, History, request.active, FilesOK', WholeOK'
    PROVE  /\ HistoryOK'
           /\ \A g \in UserGroups, k \in Kinds : always'[g][k] = always[g][k] \cap Listed(g, k)'
           /\ \A k \in Kinds : atTimes[k] \subseteq atTimes'[k] /\ \A g \in UserGroups : InFile(g, k)' \subseteq atTimes'[k]
  <1> DEFINE allowed == [k \in Kinds |-> UNION {InFile(g, k)' : g \in UserGroups}]
             listed == [g \in UserGroups |-> [k \in Kinds |-> Listed(g, k)']]
  <1>1. /\ always' = [g \in UserGroups |-> [k \in Kinds |-> always[g][k] \cap listed[g][k]]]
        /\ atTimes' = [k \in Kinds |-> atTimes[k] \union allowed[k]]
    BY DEF History
  <1>2. always \in [UserGroups -> NamesOfKinds] /\ atTimes \in NamesOfKinds
    BY DEF AccessInv, HistoryOK
  <1>3. \A g \in UserGroups, k \in Kinds : always'[g][k] = always[g][k] \cap Listed(g, k)'
    BY <1>1
  <1>4. \A g \in UserGroups, k \in Kinds : InFile(g, k)' \in SUBSET Names
    BY Constants DEF InFile, ReadNames
  <1>5. \A k \in Kinds : allowed[k] = UNION {InFile(g, k)' : g \in UserGroups}
    OBVIOUS
  <1>6. \A k \in Kinds : allowed[k] \in SUBSET Names
    BY <1>4, <1>5
  <1> HIDE DEF allowed
  <1>7. always' \in [UserGroups -> NamesOfKinds]
    BY <1>1, <1>2 DEF NamesOfKinds
  <1>8. atTimes' \in NamesOfKinds
    BY <1>1, <1>2, <1>6 DEF NamesOfKinds
  <1>9. \A k \in Kinds : atTimes[k] \subseteq atTimes'[k] /\ \A g \in UserGroups : InFile(g, k)' \subseteq atTimes'[k]
    BY <1>1, <1>5
  <1> QED BY <1>3, <1>7, <1>8, <1>9 DEF HistoryOK

\* Outside a request nothing is recorded, and at its start what the files have then.
LEMMA HistoryStart ==
    ASSUME AccessInv, History, ~request.active, FilesOK', WholeOK', request' \in ListRequest
    PROVE  /\ HistoryOK'
           /\ request'.active => \A g \in UserGroups, k \in Kinds : always'[g][k] = Listed(g, k)'
  <1> DEFINE allowed == [k \in Kinds |-> UNION {InFile(g, k)' : g \in UserGroups}]
             listed == [g \in UserGroups |-> [k \in Kinds |-> Listed(g, k)']]
  <1>1. CASE request'.active
    <2>1. always' = listed /\ atTimes' = allowed
      BY <1>1 DEF History
    <2>2. \A g \in UserGroups, k \in Kinds : InFile(g, k)' \in SUBSET Names /\ Listed(g, k)' \in SUBSET Names
      BY Constants DEF InFile, ReadNames, Listed
    <2>3. always' \in [UserGroups -> NamesOfKinds]
      BY <2>1, <2>2 DEF NamesOfKinds
    <2>4. \A k \in Kinds : UNION {InFile(g, k)' : g \in UserGroups} \in SUBSET Names
      BY <2>2
    <2>5. atTimes' \in NamesOfKinds
      BY <2>1, <2>4 DEF NamesOfKinds
    <2> QED BY <2>1, <2>3, <2>5 DEF HistoryOK
  <1>2. CASE ~request'.active
    <2>1. always' = [g \in UserGroups |-> NoNames] /\ atTimes' = NoNames
      BY <1>2 DEF History
    <2>2. NoNames \in NamesOfKinds
      BY DEF NoNames, NamesOfKinds
    <2> QED BY <1>2, <2>1, <2>2 DEF HistoryOK
  <1> QED BY <1>1, <1>2

\* Whatever happens to the files, a request keeps what it has.
LEMMA FilesChange ==
    ASSUME AccessInv, History, UNCHANGED request, FilesOK', WholeOK',
           \A g \in AccessGroups : dirs[g] # "none" => dirs'[g] # "none"
    PROVE  AccessInv'
  <1>1. request \in ListRequest
    BY DEF AccessInv
  <1>2. CASE ~request.active
    <2>1. HistoryOK'
      BY <1>1, <1>2, HistoryStart
    <2> QED BY <1>1, <1>2, <2>1 DEF AccessInv
  <1>3. CASE request.active
    <2>1. /\ HistoryOK'
          /\ \A g \in UserGroups, k \in Kinds : always'[g][k] = always[g][k] \cap Listed(g, k)'
          /\ \A k \in Kinds : atTimes[k] \subseteq atTimes'[k]
      BY <1>3, HistoryStep
    <2>2. Reading
      BY <1>3 DEF AccessInv
    <2>3. \A g \in UserGroups : Has(g) => Has(g)'
      BY <2>1, Constants DEF Has
    <2>4. request.groups # <<>> => Head(request.groups) \in UserGroups /\ Head(request.groups) \in AccessGroups
      BY <1>1, Constants DEF ListRequest
    <2>5. request.next \in {"dir", "controls", "signals"}
      BY <1>1 DEF ListRequest
    <2>6. \A g \in UserGroups : g \notin ToSet(request'.groups) => Has(g)'
      BY <2>2, <2>3 DEF Reading
    <2>7. \A k \in Kinds : request'.lists[k] \subseteq atTimes'[k]
      BY <2>1, <2>2 DEF Reading
    <2>8. request'.controls \cap AllSignals \subseteq atTimes'["signals"]
      BY <2>1, <2>2, Constants DEF Reading
    <2>9. request'.next # "dir" => request'.groups # <<>> /\ dirs'[Head(request'.groups)] # "none"
      BY <2>2, <2>4 DEF Reading
    <2>10. request'.next = "signals" => /\ always'[Head(request'.groups)]["controls"] \subseteq request'.controls
                                        /\ request'.controls \subseteq request'.lists["controls"]
      BY <2>1, <2>2, <2>4, Constants DEF Reading
    <2>11. Reading'
      BY <2>1, <2>2, <2>6, <2>7, <2>8, <2>9, <2>10 DEF Reading
    <2> QED BY <1>1, <2>1, <2>11 DEF AccessInv
  <1> QED BY <1>2, <1>3

-----------------------------------------------------------------------------
(* The files *)

LEMMA EmptyDirOK == EmptyDir \in Directory /\ NoList \in ListType /\ \A k \in Kinds : EmptyDir[k].there = FALSE
  <1>1. NoList \in ListType /\ NoList.there = FALSE
    BY DEF NoList, ListType
  <1> QED BY <1>1 DEF EmptyDir, Directory

LEMMA ListOfOK == ASSUME NEW n \in SUBSET Names PROVE ListOf(n) \in ListType /\ ListOf(n).names = n
  BY DEF ListOf, ListType

\* secure_make_dirs() leaves the files of a directory that is as it should be, and else
\* an empty one.
LEMMA MakeDirsOK ==
    ASSUME FilesOK, WholeOK, NEW g \in AccessGroups, MakeDirs(g), UNCHANGED whole
    PROVE  /\ lists' \in [AccessGroups -> Directory] /\ dirs' \in [AccessGroups -> {"none", "good", "bad"}]
           /\ WholeOK' /\ dirs'[g] # "none" /\ \A h \in AccessGroups : dirs[h] # "none" => dirs'[h] # "none"
  <1>1. lists \in [AccessGroups -> Directory] /\ dirs \in [AccessGroups -> {"none", "good", "bad"}]
    BY DEF FilesOK
  <1>2. PICK d : d \in {lists[g], EmptyDir} /\ lists' = [lists EXCEPT ![g] = d]
    BY DEF MakeDirs
  <1>3. d \in Directory
    BY <1>1, <1>2, EmptyDirOK
  <1>4. lists' \in [AccessGroups -> Directory]
    BY <1>1, <1>2, <1>3
  <1>5. dirs' = [dirs EXCEPT ![g] = "good"]
    BY DEF MakeDirs
  <1>6. /\ dirs' \in [AccessGroups -> {"none", "good", "bad"}] /\ dirs'[g] # "none"
        /\ \A h \in AccessGroups : dirs[h] # "none" => dirs'[h] # "none"
    BY <1>1, <1>5
  <1>7. WholeOK'
    <2> SUFFICES ASSUME NEW h \in AccessGroups, NEW k \in Kinds, lists'[h][k].there
                 PROVE  lists'[h][k].names = whole[h][k]
      BY DEF WholeOK
    <2>1. CASE h # g
      <3>1. lists'[h] = lists[h]
        BY <1>1, <1>2, <2>1
      <3> QED BY <3>1 DEF WholeOK
    <2>2. CASE h = g
      <3>1. lists'[h] = d
        BY <1>1, <1>2, <2>2
      <3>2. d # EmptyDir
        BY <3>1, EmptyDirOK
      <3> QED BY <1>2, <2>2, <3>1, <3>2 DEF WholeOK
    <2> QED BY <2>1, <2>2
  <1> QED BY <1>4, <1>6, <1>7

LEMMA MovedAwayOK ==
    ASSUME FilesOK, NEW g
    PROVE  MovedAway(g) = [a \in Admins |-> MovedAway(g)[a]] /\ \A a \in Admins : AdminShape(MovedAway(g)[a])
  <1>1. MovedAway(g) = [a \in Admins |-> MovedAway(g)[a]]
    BY DEF MovedAway
  <1>2. ASSUME NEW a \in Admins PROVE AdminShape(MovedAway(g)[a])
    <2>1. AdminShape(admin[a])
      BY DEF FilesOK
    <2>2. CASE MovedAway(g)[a] = admin[a]
      BY <2>1, <2>2
    <2>3. CASE admin[a].at = "renaming" /\ MovedAway(g)[a] = [admin[a] EXCEPT !.at = "lost"]
      <3>1. admin[a] # [at |-> "idle"]
        BY <2>3
      <3> QED BY <2>1, <2>3, <3>1 DEF AdminShape
    <2> QED BY <2>2, <2>3 DEF MovedAway
  <1> QED BY <1>1, <1>2

LEMMA AccessInvInit == AccessInit => AccessInv
  <1> SUFFICES ASSUME AccessInit PROVE AccessInv
    OBVIOUS
  <1>1. /\ lists = [g \in AccessGroups |-> IF g = DefaultGroup THEN [k \in Kinds |-> ListOf(All(k))] ELSE EmptyDir]
        /\ dirs = [g \in AccessGroups |-> IF g = DefaultGroup THEN "good" ELSE "none"]
        /\ admin = [a \in Admins |-> [at |-> "idle"]] /\ request = NoAccessRequest
        /\ whole = [g \in AccessGroups |-> [k \in Kinds |-> lists[g][k].names]]
        /\ always = [g \in UserGroups |-> NoNames] /\ atTimes = NoNames
    BY DEF AccessInit
  <1>2. [k \in Kinds |-> ListOf(All(k))] \in Directory
    BY Constants, ListOfOK DEF Directory
  <1>3. lists \in [AccessGroups -> Directory]
    BY <1>1, <1>2, EmptyDirOK
  <1>4. \A g \in AccessGroups, k \in Kinds : lists[g][k].names \in SUBSET Names
    BY <1>3 DEF Directory, ListType
  <1>5. whole \in [AccessGroups -> NamesOfKinds] /\ WholeOK
    BY <1>1, <1>4 DEF NamesOfKinds, WholeOK
  <1>6. dirs \in [AccessGroups -> {"none", "good", "bad"}]
    BY <1>1
  <1>7. admin = [a \in Admins |-> admin[a]] /\ \A a \in Admins : AdminShape(admin[a])
    BY <1>1 DEF AdminShape
  <1>8. NoNames \in NamesOfKinds
    BY DEF NoNames, NamesOfKinds
  <1>9. request \in ListRequest /\ ~request.active
    BY <1>1, <1>8 DEF NoAccessRequest, ListRequest
  <1> QED BY <1>1, <1>3, <1>5, <1>6, <1>7, <1>8, <1>9 DEF AccessInv, FilesOK, HistoryOK

-----------------------------------------------------------------------------
(* The steps *)

\* A file has been read, or was moved out of the way: the request goes on.
LEMMA ReadOn ==
    ASSUME AccessInv, History, request.active, FilesOK', WholeOK', NEW g \in UserGroups, NEW k \in Kinds,
           request.groups # <<>>, g = Head(request.groups), k = request.next,
           NEW found \in SUBSET Names, request' = HaveRead(request, found), dirs'[g] # "none",
           Listed(g, k)' \subseteq found, k = "signals" => request.controls \cap AllSignals \subseteq found,
           found \subseteq atTimes'[k], k = "controls" => found \cap AllSignals \subseteq atTimes'["signals"]
    PROVE  AccessInv'
  <1>1. request \in ListRequest /\ Reading
    BY DEF AccessInv
  <1>2. /\ HistoryOK' /\ \A h \in UserGroups, j \in Kinds : always'[h][j] = always[h][j] \cap Listed(h, j)'
        /\ \A j \in Kinds : atTimes[j] \subseteq atTimes'[j]
    BY HistoryStep
  <1>3. /\ Tail(request.groups) \in Seq(UserGroups)
        /\ ToSet(request.groups) = {g} \cup ToSet(Tail(request.groups))
    <2>1. request.groups \in Seq(UserGroups)
      BY <1>1 DEF ListRequest
    <2> QED BY <2>1, ToSetTail
  <1>4. request.lists \in NamesOfKinds
    BY <1>1 DEF ListRequest
  <1>5. /\ request' = [request EXCEPT !.bad = FALSE, !.next = IF k = "controls" THEN "signals" ELSE "dir",
                                     !.groups = IF k = "controls" THEN request.groups ELSE Tail(request.groups),
                                     !.controls = IF k = "controls" THEN found ELSE {},
                                     !.lists = [request.lists EXCEPT ![k] = @ \union found]]
    BY <1>1 DEF HaveRead, ListRequest
  <1>6. /\ request'.active = request.active /\ request'.bad = FALSE
        /\ request'.next = IF k = "controls" THEN "signals" ELSE "dir"
        /\ request'.groups = IF k = "controls" THEN request.groups ELSE Tail(request.groups)
        /\ request'.controls = IF k = "controls" THEN found ELSE {}
        /\ request'.lists = [request.lists EXCEPT ![k] = @ \union found]
    BY <1>1, <1>5 DEF ListRequest
  <1>7. /\ request'.lists \in NamesOfKinds
        /\ \A j \in Kinds : request.lists[j] \subseteq request'.lists[j]
        /\ request'.lists[k] = request.lists[k] \union found
        /\ \A j \in Kinds : j # k => request'.lists[j] = request.lists[j]
    BY <1>4, <1>6 DEF NamesOfKinds
  <1>8. request' \in ListRequest
    BY <1>1, <1>3, <1>5, <1>7 DEF ListRequest
  <1>9. always'[g][k] \subseteq request'.lists[k]
    BY <1>2, <1>7
  <1>10. ASSUME NEW h \in UserGroups, h \notin ToSet(request'.groups) PROVE Has(h)'
    <2>1. CASE h # g \/ k = "controls"
      <3>1. h \notin ToSet(request.groups)
        BY <1>3, <1>6, <1>10, <2>1
      <3>2. Has(h)
        BY <1>1, <3>1 DEF Reading
      <3> QED BY <1>2, <1>7, <3>2, Constants DEF Has
    <2>2. CASE h = g /\ k # "controls"
      <3>1. k = "signals"
        BY <2>2 DEF Kinds
      <3>2. always[g]["controls"] \subseteq request.controls /\ request.controls \subseteq request.lists["controls"]
        BY <1>1, <3>1 DEF Reading
      <3>3. always'[g]["controls"] \subseteq request.controls
        BY <1>2, <3>2, Constants
      <3>4. always'[g]["controls"] \subseteq request'.lists["controls"]
        BY <1>7, <3>2, <3>3, Constants
      <3>5. always'[g]["controls"] \cap AllSignals \subseteq request'.lists["signals"]
        BY <1>7, <3>1, <3>3
      <3> QED BY <1>9, <2>2, <3>1, <3>4, <3>5 DEF Has, Kinds
    <2> QED BY <2>1, <2>2
  <1>11. \A h \in UserGroups, j \in Kinds : always'[h][j] \subseteq Listed(h, j)'
    BY <1>2
  <1>12. \A j \in Kinds : request'.lists[j] \subseteq atTimes'[j]
    BY <1>1, <1>2, <1>7 DEF Reading
  <1>13. request'.controls \cap AllSignals \subseteq atTimes'["signals"]
    BY <1>6
  <1>14. request'.next # "dir" => request'.groups # <<>> /\ dirs'[Head(request'.groups)] # "none"
    BY <1>6
  <1>15. request'.next = "signals" => /\ always'[Head(request'.groups)]["controls"] \subseteq request'.controls
                                      /\ request'.controls \subseteq request'.lists["controls"]
    <2> SUFFICES ASSUME request'.next = "signals"
                 PROVE  /\ always'[Head(request'.groups)]["controls"] \subseteq request'.controls
                        /\ request'.controls \subseteq request'.lists["controls"]
      OBVIOUS
    <2>1. k = "controls" /\ request'.groups = request.groups /\ request'.controls = found
      BY <1>6
    <2> QED BY <1>2, <1>7, <2>1
  <1>16. Reading'
    BY <1>6, <1>10, <1>11, <1>12, <1>13, <1>14, <1>15 DEF Reading
  <1> QED BY <1>2, <1>8, <1>16 DEF AccessInv

LEMMA AccessInvNext == AccessInv /\ [AccessNext]_accessVars => AccessInv'
  <1> SUFFICES ASSUME AccessInv, [AccessNext]_accessVars PROVE AccessInv'
    OBVIOUS
  <1>1. FilesOK /\ WholeOK /\ HistoryOK /\ request \in ListRequest
    BY DEF AccessInv
  <1>2. CASE UNCHANGED accessVars
    BY <1>2 DEF AccessInv, accessVars, FilesOK, WholeOK, HistoryOK, Reading, Has, Listed
  <1>3. ASSUME History, NEW a \in Admins, NEW g \in AccessGroups, NEW k \in Kinds, NEW n \in SUBSET Names, NEW f,
               Edit(a, g, k, n, f)
        PROVE  AccessInv'
    <2>1. /\ admin' = [admin EXCEPT ![a] = [at |-> "writing", group |-> g, kind |-> k, names |-> n]]
          /\ UNCHANGED <<lists, dirs, request, whole>>
      BY <1>3 DEF Edit
    <2>2. admin' = [b \in Admins |-> admin'[b]] /\ \A b \in Admins : AdminShape(admin'[b])
      BY <1>1, <2>1 DEF FilesOK, AdminShape
    <2>3. FilesOK' /\ WholeOK'
      BY <1>1, <2>1, <2>2 DEF FilesOK, WholeOK
    <2> QED BY <1>3, <2>1, <2>3, FilesChange
  <1>4. ASSUME History, NEW a \in Admins, Write(a) PROVE AccessInv'
    <2> DEFINE w == admin[a]
               left == IF dirs[w.group] = "bad" THEN MovedAway(w.group) ELSE admin
    <2>1. /\ w.at = "writing" /\ MakeDirs(w.group) /\ admin' = [left EXCEPT ![a].at = "renaming"]
          /\ UNCHANGED <<request, whole>>
      BY <1>4 DEF Write
    <2>2. /\ w = [at |-> w.at, group |-> w.group, kind |-> w.kind, names |-> w.names]
          /\ w.group \in AccessGroups /\ w.kind \in Kinds /\ w.names \in SUBSET Names
      BY <1>1, <2>1 DEF FilesOK, AdminShape
    <2>3. left = [b \in Admins |-> left[b]] /\ \A b \in Admins : AdminShape(left[b])
      BY <1>1, MovedAwayOK DEF FilesOK
    <2>4. left[a] = w
      BY <2>1 DEF MovedAway
    <2> HIDE DEF left, w
    <2>5. admin' = [b \in Admins |-> admin'[b]] /\ \A b \in Admins : AdminShape(admin'[b])
      BY <2>1, <2>2, <2>3, <2>4 DEF AdminShape
    <2>6. /\ lists' \in [AccessGroups -> Directory] /\ dirs' \in [AccessGroups -> {"none", "good", "bad"}]
          /\ WholeOK' /\ \A h \in AccessGroups : dirs[h] # "none" => dirs'[h] # "none"
      BY <1>1, <2>1, <2>2, MakeDirsOK
    <2>7. FilesOK'
      BY <1>1, <2>1, <2>5, <2>6 DEF FilesOK
    <2> QED BY <1>4, <2>1, <2>6, <2>7, FilesChange
  <1>5. ASSUME History, NEW a \in Admins, Rename(a) PROVE AccessInv'
    <2> DEFINE w == admin[a]
    <2>1. /\ w.at \in {"renaming", "lost"} /\ admin' = [admin EXCEPT ![a] = [at |-> "idle"]]
          /\ lists' = IF w.at = "lost" THEN lists ELSE [lists EXCEPT ![w.group][w.kind] = ListOf(w.names)]
          /\ whole' = IF w.at = "lost" THEN whole ELSE [whole EXCEPT ![w.group][w.kind] = w.names]
          /\ UNCHANGED <<dirs, request>>
      BY <1>5 DEF Rename
    <2>2. w.group \in AccessGroups /\ w.kind \in Kinds /\ w.names \in SUBSET Names
      BY <1>1, <2>1 DEF FilesOK, AdminShape
    <2>3. admin' = [b \in Admins |-> admin'[b]] /\ \A b \in Admins : AdminShape(admin'[b])
      BY <1>1, <2>1 DEF FilesOK, AdminShape
    <2>4. CASE w.at = "lost"
      <3>1. FilesOK' /\ WholeOK'
        BY <1>1, <2>1, <2>3, <2>4 DEF FilesOK, WholeOK
      <3> QED BY <1>5, <2>1, <3>1, FilesChange
    <2>5. CASE w.at # "lost"
      <3>1. PICK g \in AccessGroups, k \in Kinds, n \in SUBSET Names : g = w.group /\ k = w.kind /\ n = w.names
        BY <2>2
      <3>2. lists' = [lists EXCEPT ![g][k] = ListOf(n)] /\ whole' = [whole EXCEPT ![g][k] = n]
        BY <2>1, <2>5, <3>1
      <3>3. lists \in [AccessGroups -> Directory] /\ whole \in [AccessGroups -> NamesOfKinds]
        BY <1>1 DEF FilesOK
      <3>4. /\ lists' \in [AccessGroups -> Directory]
            /\ \A h \in AccessGroups, j \in Kinds : lists'[h][j] = IF h = g /\ j = k THEN ListOf(n) ELSE lists[h][j]
        <4> DEFINE x == ListOf(n)
        <4>1. x \in ListType /\ lists' = [lists EXCEPT ![g][k] = x]
          BY <3>2, ListOfOK
        <4> HIDE DEF x
        <4>2. /\ lists' \in [AccessGroups -> Directory]
              /\ \A h \in AccessGroups, j \in Kinds : lists'[h][j] = IF h = g /\ j = k THEN x ELSE lists[h][j]
          BY <3>3, <4>1 DEF Directory
        <4> QED BY <4>2 DEF x
      <3>5. /\ whole' \in [AccessGroups -> NamesOfKinds]
            /\ \A h \in AccessGroups, j \in Kinds : whole'[h][j] = IF h = g /\ j = k THEN n ELSE whole[h][j]
        BY <3>2, <3>3 DEF NamesOfKinds
      <3>6. WholeOK'
        BY <1>1, <3>4, <3>5, ListOfOK DEF WholeOK
      <3>7. FilesOK'
        BY <1>1, <2>1, <2>3, <3>4, <3>5 DEF FilesOK
      <3> QED BY <1>5, <2>1, <3>6, <3>7, FilesChange
    <2> QED BY <2>4, <2>5
  <1>6. ASSUME History, NEW a \in Admins, Killed(a) PROVE AccessInv'
    <2>1. admin' = [admin EXCEPT ![a] = [at |-> "idle"]] /\ UNCHANGED <<lists, dirs, request, whole>>
      BY <1>6 DEF Killed
    <2>2. admin' = [b \in Admins |-> admin'[b]] /\ \A b \in Admins : AdminShape(admin'[b])
      BY <1>1, <2>1 DEF FilesOK, AdminShape
    <2>3. FilesOK' /\ WholeOK'
      BY <1>1, <2>1, <2>2 DEF FilesOK, WholeOK
    <2> QED BY <1>6, <2>1, <2>3, FilesChange
  <1>7. ASSUME History, NEW g \in AccessGroups, NEW what \in Kinds \union {"dir"}, Damage(g, what) PROVE AccessInv'
    <2>1. UNCHANGED <<admin, request, whole>>
      BY <1>7 DEF Damage
    <2>2. CASE what \in Kinds /\ lists' = [lists EXCEPT ![g][what].good = FALSE] /\ UNCHANGED dirs
      <3> DEFINE x == [lists[g][what] EXCEPT !.good = FALSE]
      <3>1. lists \in [AccessGroups -> Directory]
        BY <1>1 DEF FilesOK
      <3>2. lists[g][what] \in ListType
        BY <2>2, <3>1 DEF Directory
      <3>3. x \in ListType /\ x.there = lists[g][what].there /\ x.names = lists[g][what].names
        BY <3>2 DEF ListType
      <3>4. lists' = [lists EXCEPT ![g][what] = x]
        BY <2>2, <3>1
      <3> HIDE DEF x
      <3>5. /\ lists' \in [AccessGroups -> Directory]
            /\ \A h \in AccessGroups, j \in Kinds : lists'[h][j] = IF h = g /\ j = what THEN x ELSE lists[h][j]
        <4>1. what \in Kinds
          BY <2>2
        <4> QED BY <3>1, <3>3, <3>4, <4>1 DEF Directory
      <3>6. FilesOK' /\ WholeOK'
        BY <1>1, <2>1, <2>2, <3>3, <3>5 DEF FilesOK, WholeOK
      <3> QED BY <1>7, <2>1, <2>2, <3>6, FilesChange
    <2>3. CASE dirs[g] = "good" /\ dirs' = [dirs EXCEPT ![g] = "bad"] /\ UNCHANGED lists
      <3>1. dirs \in [AccessGroups -> {"none", "good", "bad"}]
        BY <1>1 DEF FilesOK
      <3>2. /\ dirs' \in [AccessGroups -> {"none", "good", "bad"}]
            /\ \A h \in AccessGroups : dirs[h] # "none" => dirs'[h] # "none"
        BY <2>3, <3>1
      <3>3. FilesOK' /\ WholeOK'
        BY <1>1, <2>1, <2>3, <3>2 DEF FilesOK, WholeOK
      <3> QED BY <1>7, <2>1, <3>2, <3>3, FilesChange
    <2> QED BY <1>7, <2>2, <2>3 DEF Damage
  <1>8. ASSUME History, NEW b \in BOOLEAN, GetUserAccess(b) PROVE AccessInv'
    <2> DEFINE only == \A g \in AccessGroups \ {DefaultGroup} : dirs[g] = "none"
               order == (IF only THEN <<>> ELSE GroupOrder) \o <<DefaultGroup>>
    <2>1. UNCHANGED <<lists, dirs, admin, whole>> /\ ~request.active
      BY <1>8 DEF GetUserAccess
    <2>2. FilesOK' /\ WholeOK'
      BY <1>1, <2>1 DEF FilesOK, WholeOK
    <2>3. CASE UNCHANGED request
      BY <1>8, <2>1, <2>2, <2>3, FilesChange
    <2>4. CASE request' = [NoAccessRequest EXCEPT !.active = TRUE, !.groups = order]
      <3>1. /\ order \in Seq(UserGroups) /\ DefaultGroup \in ToSet(order)
            /\ \A g \in UserGroups : g \notin ToSet(order) => dirs[g] = "none"
        <4>1. CASE only
          <5>1. order = <<DefaultGroup>>
            <6>1. order = <<>> \o <<DefaultGroup>>
              BY <4>1
            <6>2. <<>> \o <<DefaultGroup>> = <<DefaultGroup>>
              OBVIOUS
            <6> HIDE DEF order
            <6> QED BY <6>1, <6>2
          <5>2. ToSet(order) = {DefaultGroup}
            BY <5>1 DEF ToSet
          <5> QED BY <4>1, <5>1, <5>2, Constants
        <4>2. CASE ~only
          <5>1. order = GroupOrder \o <<DefaultGroup>>
            BY <4>2
          <5>2. order \in Seq(UserGroups) /\ ToSet(order) = ToSet(GroupOrder) \cup {DefaultGroup}
            BY <5>1, Constants, ToSetAppend
          <5> QED BY <5>2 DEF UserGroups
        <4> QED BY <4>1, <4>2
      <3> HIDE DEF order
      <3>2. /\ request'.active = TRUE /\ request'.groups = order /\ request'.next = "dir" /\ request'.bad = FALSE
            /\ request'.controls = {} /\ request'.lists = NoNames
            /\ request' = [active |-> TRUE, groups |-> order, next |-> "dir", bad |-> FALSE,
                           controls |-> {}, lists |-> NoNames]
        BY <2>4 DEF NoAccessRequest
      <3>3. NoNames \in NamesOfKinds /\ \A k \in Kinds : NoNames[k] = {}
        BY DEF NoNames, NamesOfKinds
      <3>4. request' \in ListRequest
        BY <3>1, <3>2, <3>3 DEF ListRequest
      <3>5. HistoryOK' /\ \A g \in UserGroups, k \in Kinds : always'[g][k] = Listed(g, k)'
        BY <1>8, <2>1, <2>2, <3>2, <3>4, HistoryStart
      <3>6. ASSUME NEW g \in UserGroups, g \notin ToSet(order) PROVE Has(g)'
        <4>1. \A k \in Kinds : Listed(g, k)' = {}
          BY <2>1, <3>1, <3>6 DEF Listed
        <4>2. \A k \in Kinds : always'[g][k] = {}
          BY <3>5, <4>1
        <4> QED BY <4>2, Constants DEF Has
      <3>7. Reading'
        BY <3>2, <3>3, <3>5, <3>6, Constants DEF Reading
      <3> QED BY <2>2, <3>4, <3>5, <3>7 DEF AccessInv
    <2> QED BY <1>8, <2>3, <2>4 DEF GetUserAccess
  <1>9. CASE History /\ CheckDir
    <2>1. PICK g : g = Head(request.groups)
      OBVIOUS
    <2>2. request.active /\ request.groups # <<>> /\ request.next = "dir" /\ UNCHANGED whole
      BY <1>9 DEF CheckDir
    <2>3. /\ g \in UserGroups /\ g \in AccessGroups /\ Tail(request.groups) \in Seq(UserGroups)
          /\ ToSet(request.groups) = {g} \cup ToSet(Tail(request.groups))
      <3>1. request.groups \in Seq(UserGroups)
        BY <1>1 DEF ListRequest
      <3> QED BY <2>1, <2>2, <3>1, Constants, ToSetTail
    <2>4. Reading
      BY <2>2 DEF AccessInv
    <2>5. CASE dirs[g] = "none"
      <3>1. request' = [request EXCEPT !.groups = Tail(@)] /\ UNCHANGED <<lists, dirs, admin>>
        BY <1>9, <2>1, <2>5 DEF CheckDir
      <3>2. FilesOK' /\ WholeOK'
        BY <1>1, <2>2, <3>1 DEF FilesOK, WholeOK
      <3>3. /\ request' \in ListRequest /\ request'.active = request.active /\ request'.groups = Tail(request.groups)
            /\ request'.next = request.next /\ request'.bad = request.bad /\ request'.controls = request.controls
            /\ request'.lists = request.lists
        BY <1>1, <2>3, <3>1 DEF ListRequest
      <3>4. /\ HistoryOK' /\ \A h \in UserGroups, k \in Kinds : always'[h][k] = always[h][k] \cap Listed(h, k)'
            /\ \A k \in Kinds : atTimes[k] \subseteq atTimes'[k]
        BY <1>9, <2>2, <3>2, HistoryStep
      <3>5. ASSUME NEW h \in UserGroups, h \notin ToSet(request'.groups) PROVE Has(h)'
        <4>1. CASE h = g
          <5>1. \A k \in Kinds : Listed(h, k)' = {}
            BY <2>5, <3>1, <4>1 DEF Listed
          <5>2. \A k \in Kinds : always'[h][k] = {}
            BY <3>4, <5>1
          <5> QED BY <5>2, Constants DEF Has
        <4>2. CASE h # g
          <5>1. Has(h)
            BY <2>3, <2>4, <3>3, <3>5, <4>2 DEF Reading
          <5> QED BY <3>3, <3>4, <5>1, Constants DEF Has
        <4> QED BY <4>1, <4>2
      <3>6. Reading'
        <4>1. \A h \in UserGroups, k \in Kinds : always'[h][k] \subseteq Listed(h, k)'
          BY <3>4
        <4>2. \A k \in Kinds : request'.lists[k] \subseteq atTimes'[k]
          BY <2>4, <3>3, <3>4 DEF Reading
        <4>3. request'.controls \cap AllSignals \subseteq atTimes'["signals"]
          BY <2>4, <3>3, <3>4, Constants DEF Reading
        <4>4. request'.next = "dir" /\ (request'.bad = TRUE => request'.next # "dir")
          BY <2>2, <2>4, <3>3 DEF Reading
        <4> QED BY <3>5, <4>1, <4>2, <4>3, <4>4 DEF Reading
      <3> QED BY <3>2, <3>3, <3>4, <3>6 DEF AccessInv
    <2>6. CASE dirs[g] # "none"
      <3>1. request' = [request EXCEPT !.next = "controls"] /\ MakeDirs(g)
            /\ admin' = IF dirs[g] = "bad" THEN MovedAway(g) ELSE admin
        BY <1>9, <2>1, <2>6 DEF CheckDir
      <3>2. /\ lists' \in [AccessGroups -> Directory] /\ dirs' \in [AccessGroups -> {"none", "good", "bad"}]
            /\ WholeOK' /\ dirs'[g] # "none"
        BY <1>1, <2>2, <2>3, <3>1, MakeDirsOK
      <3>3. admin' = [b \in Admins |-> admin'[b]] /\ \A b \in Admins : AdminShape(admin'[b])
        BY <1>1, <3>1, MovedAwayOK DEF FilesOK
      <3>4. FilesOK'
        BY <1>1, <2>2, <3>2, <3>3 DEF FilesOK
      <3>5. /\ request' \in ListRequest /\ request'.active = request.active /\ request'.groups = request.groups
            /\ request'.next = "controls" /\ request'.bad = request.bad /\ request'.controls = request.controls
            /\ request'.lists = request.lists
        BY <1>1, <3>1 DEF ListRequest
      <3>6. /\ HistoryOK' /\ \A h \in UserGroups, k \in Kinds : always'[h][k] = always[h][k] \cap Listed(h, k)'
            /\ \A k \in Kinds : atTimes[k] \subseteq atTimes'[k]
        BY <1>9, <2>2, <3>2, <3>4, HistoryStep
      <3>7. ASSUME NEW h \in UserGroups, h \notin ToSet(request'.groups) PROVE Has(h)'
        <4>1. Has(h)
          BY <2>4, <3>5, <3>7 DEF Reading
        <4> QED BY <3>5, <3>6, <4>1, Constants DEF Has
      <3>8. Reading'
        <4>1. \A h \in UserGroups, k \in Kinds : always'[h][k] \subseteq Listed(h, k)'
          BY <3>6
        <4>2. \A k \in Kinds : request'.lists[k] \subseteq atTimes'[k]
          BY <2>4, <3>5, <3>6 DEF Reading
        <4>3. request'.controls \cap AllSignals \subseteq atTimes'["signals"]
          BY <2>4, <3>5, <3>6, Constants DEF Reading
        <4>4. request'.next = "controls" /\ request'.groups # <<>> /\ dirs'[Head(request'.groups)] # "none"
          BY <2>1, <2>2, <3>2, <3>5
        <4> QED BY <3>7, <4>1, <4>2, <4>3, <4>4 DEF Reading
      <3> QED BY <3>2, <3>4, <3>5, <3>6, <3>8 DEF AccessInv
    <2> QED BY <2>5, <2>6
  <1>10. CASE History /\ ReadFile
    <2>1. PICK g, k : g = Head(request.groups) /\ k = request.next
      OBVIOUS
    <2>2. /\ request.active /\ request.groups # <<>> /\ k \in Kinds /\ UNCHANGED <<lists, dirs, admin, whole>>
      BY <1>10, <2>1 DEF ReadFile
    <2>3. FilesOK' /\ WholeOK'
      BY <1>1, <2>2 DEF FilesOK, WholeOK
    <2>4. g \in UserGroups /\ g \in AccessGroups
      BY <1>1, <2>1, <2>2, Constants DEF ListRequest
    <2>5. Reading /\ dirs[g] # "none"
      BY <2>1, <2>2, Constants DEF AccessInv, Reading, Kinds
    <2>6. /\ \A j \in Kinds : atTimes[j] \subseteq atTimes'[j] /\ InFile(g, j)' \subseteq atTimes'[j]
          /\ HistoryOK' /\ \A h \in UserGroups, j \in Kinds : always'[h][j] = always[h][j] \cap Listed(h, j)'
      BY <1>10, <2>2, <2>3, <2>4, HistoryStep
    <2>7. CASE lists[g][k].good
      <3> DEFINE found == ReadNames(lists[g], k, request.controls)
      <3>1. request' = HaveRead(request, found)
        BY <1>10, <2>1, <2>7 DEF ReadFile
      <3>2. found \in SUBSET Names
        BY <1>1, <2>2, <2>4, ReadIsNames
      <3>3. Listed(g, k)' \subseteq found
        <4>1. Listed(g, k)' = Listed(g, k)
          BY <2>2 DEF Listed
        <4> QED BY <1>1, <2>2, <2>4, <4>1, ListedIsRead
      <3>4. k = "signals" => request.controls \cap AllSignals \subseteq found
        BY DEF ReadNames, All
      <3>5. \A j \in Kinds : InFile(g, j)' = ReadNames(lists[g], j, ReadNames(lists[g], "controls", {}))
        BY <2>2, <2>5 DEF InFile
      <3>6. CASE k = "controls"
        <4>1. found = ReadNames(lists[g], "controls", {})
          BY <3>6 DEF ReadNames
        <4>2. found = InFile(g, "controls")'
          BY <3>5, <4>1, Constants DEF ReadNames
        <4>3. found \cap AllSignals \subseteq InFile(g, "signals")'
          BY <3>5, <4>1, Constants DEF ReadNames
        <4>4. found \subseteq atTimes'["controls"] /\ found \cap AllSignals \subseteq atTimes'["signals"]
          BY <2>6, <4>2, <4>3, Constants
        <4> HIDE DEF found
        <4> QED BY <1>10, <2>1, <2>2, <2>3, <2>4, <2>5, <3>1, <3>2, <3>3, <3>4, <3>6, <4>4, ReadOn
      <3>7. CASE k = "signals"
        <4>1. found \subseteq InFile(g, "signals")' \cup (request.controls \cap AllSignals)
          BY <3>5, <3>7, Constants DEF ReadNames
        <4>2. request.controls \cap AllSignals \subseteq atTimes["signals"]
          BY <2>5 DEF Reading
        <4>3. found \subseteq atTimes'["signals"]
          BY <2>6, <4>1, <4>2, Constants
        <4> HIDE DEF found
        <4> QED BY <1>10, <2>1, <2>2, <2>3, <2>4, <2>5, <3>1, <3>2, <3>3, <3>4, <3>7, <4>3, ReadOn
      <3> QED BY <2>2, <3>6, <3>7 DEF Kinds
    <2>8. CASE ~lists[g][k].good
      <3>1. request' = [request EXCEPT !.bad = TRUE]
        BY <1>10, <2>1, <2>8 DEF ReadFile
      <3>2. /\ request' \in ListRequest /\ request'.active = request.active /\ request'.groups = request.groups
            /\ request'.next = request.next /\ request'.controls = request.controls
            /\ request'.lists = request.lists
        BY <1>1, <3>1 DEF ListRequest
      <3>3. \A h \in UserGroups : Has(h) => Has(h)'
        BY <2>6, <3>2, Constants DEF Has
      <3>4. \A h \in UserGroups : h \notin ToSet(request'.groups) => Has(h)'
        BY <2>5, <3>2, <3>3 DEF Reading
      <3>5. \A j \in Kinds : request'.lists[j] \subseteq atTimes'[j]
        BY <2>5, <2>6, <3>2 DEF Reading
      <3>6. request'.controls \cap AllSignals \subseteq atTimes'["signals"]
        BY <2>5, <2>6, <3>2, Constants DEF Reading
      <3>7. request'.next # "dir" /\ request'.groups # <<>> /\ dirs'[Head(request'.groups)] # "none"
        BY <2>1, <2>2, <2>5, <3>2 DEF Kinds
      <3>8. request'.next = "signals" => /\ always'[Head(request'.groups)]["controls"] \subseteq request'.controls
                                         /\ request'.controls \subseteq request'.lists["controls"]
        BY <2>1, <2>4, <2>5, <2>6, <3>2, Constants DEF Reading
      <3>9. Reading'
        BY <2>6, <3>4, <3>5, <3>6, <3>7, <3>8 DEF Reading
      <3> QED BY <2>3, <2>6, <3>2, <3>9 DEF AccessInv
    <2> QED BY <2>7, <2>8
  <1>11. CASE History /\ Discard
    <2>1. PICK g, k : g = Head(request.groups) /\ k = request.next
      OBVIOUS
    <2> DEFINE found == IF k = "signals" THEN request.controls \cap AllSignals ELSE {}
    <2>2. /\ request.active /\ request.bad /\ UNCHANGED <<dirs, admin, whole>>
          /\ lists' = [lists EXCEPT ![g][k] = NoList] /\ request' = HaveRead(request, found)
      BY <1>11, <2>1 DEF Discard
    <2>3. Reading /\ request.next # "dir" /\ request.groups # <<>> /\ dirs[g] # "none"
      BY <1>1, <2>1, <2>2 DEF AccessInv, Reading, ListRequest
    <2>4. k \in Kinds /\ g \in UserGroups /\ g \in AccessGroups
      BY <1>1, <2>1, <2>3, Constants DEF ListRequest, Kinds
    <2>5. /\ lists' \in [AccessGroups -> Directory]
          /\ \A h \in AccessGroups, j \in Kinds : lists'[h][j] = IF h = g /\ j = k THEN NoList ELSE lists[h][j]
      <3>1. lists \in [AccessGroups -> Directory] /\ NoList \in ListType
        BY <1>1, EmptyDirOK DEF FilesOK
      <3> QED BY <2>2, <2>4, <3>1 DEF Directory
    <2>6. FilesOK'
      BY <1>1, <2>2, <2>5 DEF FilesOK
    <2>7. NoList.there = FALSE
      BY DEF NoList
    <2>8. WholeOK' /\ Listed(g, k)' = {}
      BY <1>1, <2>2, <2>4, <2>5, <2>7 DEF WholeOK, Listed
    <2>9. /\ found \in SUBSET Names /\ (k = "signals" => request.controls \cap AllSignals \subseteq found)
          /\ (k = "controls" => found = {}) /\ found \subseteq request.controls \cap AllSignals
      BY Constants
    <2>10. \A j \in Kinds : atTimes[j] \subseteq atTimes'[j]
      BY <1>11, <2>2, <2>6, <2>8, HistoryStep
    <2>11. found \subseteq atTimes'[k]
      <3>1. CASE k = "controls"
        BY <2>9, <3>1
      <3>2. CASE k = "signals"
        <4>1. request.controls \cap AllSignals \subseteq atTimes["signals"]
          BY <2>3 DEF Reading
        <4> QED BY <2>9, <2>10, <3>2, <4>1, Constants
      <3> QED BY <2>4, <3>1, <3>2 DEF Kinds
    <2>12. k = "controls" => found \cap AllSignals \subseteq atTimes'["signals"]
      BY <2>9
    <2> HIDE DEF found
    <2> QED BY <1>11, <2>1, <2>2, <2>3, <2>4, <2>6, <2>8, <2>9, <2>11, <2>12, ReadOn
  <1>12. CASE History /\ Granted
    <2>1. request' = [request EXCEPT !.active = FALSE] /\ UNCHANGED <<lists, dirs, admin, whole>> /\ request.active
      BY <1>12 DEF Granted
    <2>2. FilesOK' /\ WholeOK'
      BY <1>1, <2>1 DEF FilesOK, WholeOK
    <2>3. request' \in ListRequest /\ ~request'.active
      BY <1>1, <2>1 DEF ListRequest
    <2>4. HistoryOK'
      BY <1>12, <2>1, <2>2, HistoryStep
    <2> QED BY <2>2, <2>3, <2>4 DEF AccessInv
  <1> QED BY <1>2, <1>3, <1>4, <1>5, <1>6, <1>7, <1>8, <1>9, <1>10, <1>11, <1>12 DEF AccessNext, AccessStep

\* A session has every name that was in one of the files all the time it was opened, and
\* nothing that they did not allow at some time in it.
THEOREM SessionsJustified == AccessSpec => []SessionJustified
  <1>1. AccessInv => SessionJustified
    <2> SUFFICES ASSUME AccessInv, request.active, request.groups = <<>>
                 PROVE  /\ \A g \in UserGroups, k \in Kinds : always[g][k] \subseteq request.lists[k]
                        /\ \A g \in UserGroups : always[g]["controls"] \cap AllSignals \subseteq request.lists["signals"]
                        /\ \A k \in Kinds : request.lists[k] \subseteq atTimes[k]
      BY DEF SessionJustified
    <2>1. ToSet(request.groups) = {}
      BY DEF ToSet
    <2> QED BY <2>1 DEF AccessInv, Reading, Has
  <1> QED BY <1>1, AccessInvInit, AccessInvNext, PTL DEF AccessSpec

=============================================================================
