----------------------- MODULE PlatformService_proofs -----------------------
(***************************************************************************)
(* Proofs about PlatformService for any set of clients and settings.        *)
(***************************************************************************)
EXTENDS PlatformService, TLAPS

\* An absent session and an absent file have their types.
LEMMA NullTypes == NoSession \in Sessions /\ NoFile \in Files
BY DEF NoSession, Session, Sessions, NoFile, File, Files

\* A file written for a session has its type.
LEMMA FileType ==
    ASSUME clock \in Nat, NEW s, s.ct \in Nat, s.ref \in Nat
    PROVE  FileOf(s) \in Files
BY DEF FileOf, File, Files, Now

\* What _update_session_file() writes for any session, or again for any file, is a file.
LEMMA FileTypes ==
    ASSUME TypeOK
    PROVE  \A p \in Pid : FileOf(sessions[p]) \in Files /\ FileOf(files[p]) \in Files
<1>1. ASSUME NEW p \in Pid PROVE FileOf(sessions[p]) \in Files
  BY FileType DEF TypeOK, Sessions
<1>2. ASSUME NEW p \in Pid PROVE FileOf(files[p]) \in Files
  BY FileType DEF TypeOK, Files
<1> QED
  BY <1>1, <1>2

\* What the operations of ActiveSessions do to the types.
LEMMA SetSessionTypes ==
    ASSUME TypeOK, NEW p \in Pid, NEW s \in Sessions, SetSession(p, s)
    PROVE  sessions' \in [Pid -> Sessions] /\ files' \in [Pid -> Files]
<1>1. FileOf(s) \in Files
  BY FileType DEF TypeOK, Sessions
<1> QED
  BY <1>1 DEF TypeOK, SetSession

\* Changing the reference count keeps the types of sessions and files.
LEMMA SetRefTypes ==
    ASSUME TypeOK, NEW p \in Pid, NEW n \in Nat, SetRef(p, n)
    PROVE  sessions' \in [Pid -> Sessions] /\ files' \in [Pid -> Files]
<1>1. Session(sessions[p].ct, n, sessions[p].batch) \in Sessions
  BY DEF TypeOK, Session, Sessions
<1> QED
  BY <1>1, SetSessionTypes DEF SetRef

\* Recording or forgetting a batch server keeps the types of sessions and files.
LEMMA SetBatchTypes ==
    ASSUME TypeOK, NEW p \in Pid, NEW v \in BOOLEAN, SetBatch(p, v)
    PROVE  sessions' \in [Pid -> Sessions] /\ files' \in [Pid -> Files]
<1>1. Session(sessions[p].ct, sessions[p].ref, v) \in Sessions
  BY DEF TypeOK, Session, Sessions
<1> QED
  BY <1>1, SetSessionTypes DEF SetBatch

\* add_client() keeps the types, also when the client is already gone.
LEMMA AddClientTypes ==
    ASSUME TypeOK, NEW p \in Pid, AddClient(p)
    PROVE  /\ sessions' \in [Pid -> Sessions] /\ files' \in [Pid -> Files]
           /\ watch' \in [Pid -> Nat]
<1>0. watch' \in [Pid -> Nat]
  BY DEF AddClient, WatchClient, TypeOK
<1>1. CASE proc[p] # 0
  <2>1. Session(proc[p], 1, FALSE) \in Sessions
    BY DEF TypeOK, Session, Sessions
  <2>2. SetSession(p, Session(proc[p], 1, FALSE))
    BY <1>1 DEF AddClient
  <2> QED
    BY <1>0, <2>1, <2>2, SetSessionTypes
<1>2. CASE proc[p] = 0
  BY <1>0, <1>2, NullTypes DEF AddClient, WatchClient, TypeOK
<1> QED
  BY <1>1, <1>2

\* remove_client(), the timer and the batch server of a closing session keep types.
LEMMA EndSessionTypes ==
    ASSUME TypeOK, NEW q \in Pid, EndSession(q)
    PROVE  /\ sessions' \in [Pid -> Sessions] /\ files' \in [Pid -> Files]
           /\ watch' \in [Pid -> Nat] /\ server' \in [Pid -> {"none", "ro", "rw"}]
<1>1. sessions' \in [Pid -> Sessions] /\ files' \in [Pid -> Files]
  BY NullTypes DEF EndSession, TypeOK
<1>2. watch' \in [Pid -> Nat]
  BY DEF EndSession, SourceRemove, TypeOK
<1>3. server' \in [Pid -> {"none", "ro", "rw"}]
  BY DEF EndSession, StopRecorded, TypeOK
<1> QED
  BY <1>1, <1>2, <1>3

\* What geopmd has in memory when it is down has its type.
LEMMA LoseMemoryTypes ==
    ASSUME TypeOK, LoseMemory
    PROVE  /\ sessions' \in [Pid -> Sessions] /\ watch' \in [Pid -> Nat]
           /\ writePid' = NoPid /\ server' \in [Pid -> {"none", "ro", "rw"}]
           /\ untracked' = {} /\ saved' = NoFrame /\ d' = Down
BY NullTypes DEF LoseMemory

USE DEF FrameOK, Frames, Frame, Idle, Down, Exiting, NoFrame,
        WriteOps, ClientOps, Ops, LockedPcs, Pcs, Conts

\* The initial state is well typed.
LEMMA TypeInit == Init => TypeOK
<1> SUFFICES ASSUME Init PROVE TypeOK
  OBVIOUS
<1>1. sessions \in [Pid -> Sessions] /\ files \in [Pid -> Files]
  BY NullTypes DEF Init
<1>2. stopping \in BOOLEAN
  BY DEF Init
<1>3. FrameOK(d) /\ FrameOK(saved)
  BY DEF Init
<1>4. /\ proc \in [Pid -> Nat] /\ clock \in Nat
      /\ hw \in Val /\ base \in Val
      /\ lock = NoPid /\ save = NoVal
      /\ watch \in [Pid -> Nat] /\ writePid = NoPid
      /\ server \in [Pid -> {"none", "ro", "rw"}] /\ untracked = {}
      /\ crashes \in Nat
  BY DEF Init
<1> QED
  BY <1>1, <1>2, <1>3, <1>4 DEF TypeOK

\* Every step of a client, of a handler, of a timer or of a crash keeps the types.
LEMMA TypeNext == TypeOK /\ [Next]_vars => TypeOK'
<1> SUFFICES ASSUME TypeOK, [Next]_vars PROVE TypeOK'
  OBVIOUS
<1> USE ConstantsAssumption DEF TypeOK, osVars, memVars, batchVars, sigVars
<1>1. ASSUME NEW p \in Pid, Die(p) PROVE TypeOK'
  BY <1>1 DEF Die
<1>2. ASSUME NEW p \in Pid, Recycle(p) PROVE TypeOK'
  BY <1>2 DEF Recycle
<1>3. ASSUME NEW p \in Pid, BatchWrite(p) PROVE TypeOK'
  BY <1>3 DEF BatchWrite
<1>4. ASSUME NEW p \in Pid, BatchExit(p) PROVE TypeOK'
  BY <1>4 DEF BatchExit
<1>5. CASE Start
  <2>1. sessions' \in [Pid -> Sessions]
    <3>1. \A p \in Pid : Session(files[p].ct, files[p].ref, FALSE) \in Sessions
      BY DEF Session, Sessions, Files
    <3> QED
      BY <1>5, <3>1, NullTypes DEF Start
  <2>2. files' \in [Pid -> Files]
    BY <1>5, FileTypes, NullTypes DEF Start
  <2>3. stopping' \in BOOLEAN
    BY <1>5 DEF Start
  <2>4. FrameOK(d)'
    BY <1>5 DEF Start
  <2>5. UNCHANGED <<osVars, hw, base, lock, save, watch, writePid, batchVars, saved, crashes>>
    BY <1>5 DEF Start
  <2> QED
    BY <2>1, <2>2, <2>3, <2>4, <2>5
<1>6. CASE StartWatch
  BY <1>6, FileTypes DEF StartWatch, Rewatch, WatchClient, Goto
<1>7. CASE StartLock
  <2>1. files' \in [Pid -> Files]
    BY <1>7, NullTypes DEF StartLock, ReleaseOrphan
  <2> QED
    BY <1>7, <2>1, LoseMemoryTypes DEF StartLock, ReleaseOrphan
<1>8. ASSUME NEW p \in Pid, NEW op \in ClientOps, Call(p, op) PROVE TypeOK'
  BY <1>8 DEF Call
<1>9. ASSUME NEW p \in Pid, CloseSessionAdmin(p) PROVE TypeOK'
  BY <1>9 DEF CloseSessionAdmin
<1>10. ASSUME NEW p \in Pid, CheckClient(p) PROVE TypeOK'
  BY <1>10 DEF CheckClient
<1>11. CASE OpenSession
  <2>1. d.p \in Pid /\ sessions[d.p].ref + 1 \in Nat
    BY <1>11 DEF OpenSession, Sessions
  <2>2. sessions' \in [Pid -> Sessions] /\ files' \in [Pid -> Files]
    BY <1>11, <2>1, SetRefTypes, NullTypes DEF OpenSession
  <2> QED
    BY <1>11, <2>1, <2>2 DEF OpenSession, Return, Goto
<1>12. CASE AddSession
  <2>1. d.p \in Pid
    BY <1>12 DEF AddSession
  <2> QED
    BY <1>12, <2>1, AddClientTypes DEF AddSession, Return
<1>13. CASE RejectCall
  BY <1>13 DEF RejectCall
<1>14. CASE CloseSession
  <2>1. d.p \in Pid
    BY <1>14 DEF CloseSession
  <2>2. sessions[d.p].ref # 0 => sessions[d.p].ref - 1 \in Nat
    BY <2>1 DEF Sessions
  <2>3. sessions' \in [Pid -> Sessions] /\ files' \in [Pid -> Files]
    BY <1>14, <2>1, <2>2, SetRefTypes DEF CloseSession, DropReference
  <2> QED
    BY <1>14, <2>1, <2>3 DEF CloseSession, DropReference, Return
<1>15. CASE ReadSignal
  BY <1>15 DEF ReadSignal, Return
<1>16. CASE BeginWork
  BY <1>16 DEF BeginWork, Return, Goto
<1>17. CASE StopBatch
  <2>1. d.p \in Pid
    BY <1>17 DEF StopBatch
  <2>2. sessions' \in [Pid -> Sessions] /\ files' \in [Pid -> Files]
    BY <1>17, <2>1, SetBatchTypes DEF StopBatch
  <2>3. server' \in [Pid -> {"none", "ro", "rw"}]
    BY <1>17 DEF StopBatch, StopRecorded
  <2>4. untracked' \subseteq Pid
    <3>1. untracked' = untracked \/ untracked' = untracked \cup {d.p}
      BY <1>17 DEF StopBatch
    <3> QED
      BY <3>1, <2>1
  <2>5. FrameOK(d)'
    BY <1>17 DEF StopBatch, Return
  <2>6. UNCHANGED <<osVars, hw, base, lock, save, watch, writePid, sigVars>>
    BY <1>17 DEF StopBatch
  <2> QED
    BY <2>2, <2>3, <2>4, <2>5, <2>6
<1>18. CASE WriteMode
  BY <1>18 DEF WriteMode, MayWrite, Writer, Return
<1>19. CASE StatLeader
  BY <1>19 DEF StatLeader, Return, Goto
<1>20. CASE OpenLeader
  <2>1. d.p \in Pid /\ d.q \in Pid /\ sessions[d.q].ref + 1 \in Nat
    BY <1>20 DEF OpenLeader, Sessions
  <2>2. /\ sessions' \in [Pid -> Sessions] /\ files' \in [Pid -> Files]
        /\ watch' \in [Pid -> Nat] /\ server' \in [Pid -> {"none", "ro", "rw"}]
    BY <1>20, <2>1, SetRefTypes, AddClientTypes, EndSessionTypes DEF OpenLeader
  <2> QED
    BY <1>20, <2>1, <2>2 DEF OpenLeader, Return, Goto
<1>21. CASE SaveControls
  BY <1>21 DEF SaveControls, Return, Goto
<1>22. CASE SetLock
  BY <1>22 DEF SetLock, Goto
<1>23. CASE WriteControl
  BY <1>23 DEF WriteControl, Return
<1>24. CASE RestoreControl
  BY <1>24 DEF RestoreControl, Return
<1>25. CASE StartBatch
  <2>1. d.p \in Pid
    BY <1>25 DEF StartBatch
  <2>2. sessions' \in [Pid -> Sessions] /\ files' \in [Pid -> Files]
    BY <1>25, <2>1, SetBatchTypes, ZenonT(40) DEF StartBatch
  <2>3. server' \in [Pid -> {"none", "ro", "rw"}]
    BY <1>25 DEF StartBatch
  <2>4. FrameOK(d)'
    BY <1>25 DEF StartBatch, Return
  <2>5. UNCHANGED <<osVars, hw, base, lock, save, watch, writePid, untracked, sigVars>>
    BY <1>25 DEF StartBatch
  <2> QED
    BY <2>2, <2>3, <2>4, <2>5
<1>26. CASE CloseCompletely
  <2>1. d.q \in Pid
    BY <1>26 DEF CloseCompletely
  <2> QED
    BY <1>26, <2>1, EndSessionTypes DEF CloseCompletely, Goto
<1>27. CASE RestoreSaved
  BY <1>27 DEF RestoreSaved, Continue, Return, Goto
<1>28. CASE RemoveSaved
  BY <1>28 DEF RemoveSaved, Goto
<1>29. CASE Unlock
  BY <1>29 DEF Unlock, Continue, Return, Goto
<1>30. CASE Sigterm
  BY <1>30 DEF Sigterm
<1>31. CASE CloseAllSessions
  BY <1>31 DEF CloseAllSessions
<1>32. CASE Exit
  BY <1>32, LoseMemoryTypes DEF Exit
<1>33. CASE Crash
  <2>1. stopping' \in BOOLEAN
    BY <1>33 DEF Crash
  <2>2. LoseMemory /\ crashes' \in Nat
    BY <1>33 DEF Crash
  <2>3. UNCHANGED <<osVars, hw, base, files, lock, save>>
    BY <1>33 DEF Crash
  <2> QED
    BY <2>1, <2>2, <2>3, LoseMemoryTypes
<1>34. CASE UNCHANGED vars
  BY <1>34 DEF vars
<1> QED
  BY <1>1, <1>2, <1>3, <1>4, <1>5, <1>6, <1>7, <1>8, <1>9, <1>10, <1>11,
     <1>12, <1>13, <1>14, <1>15, <1>16, <1>17, <1>18, <1>19, <1>20, <1>21, <1>22,
     <1>23, <1>24, <1>25, <1>26, <1>27, <1>28, <1>29, <1>30, <1>31, <1>32, <1>33,
     <1>34
     DEF Next, Handler

\* Every variable keeps its type (TypeOK), for any set of clients.
THEOREM TypeCorrect == Spec => []TypeOK
BY TypeInit, TypeNext, PTL DEF Spec

-----------------------------------------------------------------------------
(* The safety invariant.  The operations of ActiveSessions are used through  *)
(* what they do to the sessions, the files and the servers.                  *)

\* Nothing but the session and the file of client p changes.
OthersKept(p) ==
    \A r \in Pid \ {p} : sessions'[r] = sessions[r] /\ files'[r] = files[r]

\* Writing a session keeps the others and puts its creation time in its file.
LEMMA SetSessionEffect ==
    ASSUME TypeOK, NEW p \in Pid, NEW s, SetSession(p, s)
    PROVE  OthersKept(p) /\ sessions'[p] = s /\ files'[p].ct = s.ct
BY DEF TypeOK, SetSession, OthersKept, FileOf, File

\* Changing a reference count changes no other session.
LEMMA SetRefEffect ==
    ASSUME TypeOK, NEW p \in Pid, NEW n, SetRef(p, n)
    PROVE  /\ OthersKept(p)
           /\ sessions'[p].ct = sessions[p].ct /\ sessions'[p].batch = sessions[p].batch
           /\ files'[p].ct = sessions[p].ct
<1>1. SetSession(p, Session(sessions[p].ct, n, sessions[p].batch))
  BY DEF SetRef
<1> QED
  BY <1>1, SetSessionEffect DEF Session

\* Recording a batch server changes no other session.
LEMMA SetBatchEffect ==
    ASSUME TypeOK, NEW p \in Pid, NEW v \in BOOLEAN, SetBatch(p, v)
    PROVE  /\ OthersKept(p)
           /\ sessions'[p].ct = sessions[p].ct /\ sessions'[p].batch = v
           /\ files'[p].ct = sessions[p].ct
<1>1. SetSession(p, Session(sessions[p].ct, sessions[p].ref, v))
  BY DEF SetBatch
<1> QED
  BY <1>1, SetSessionEffect DEF Session

\* add_client() changes only the session of its client.
LEMMA AddClientEffect ==
    ASSUME TypeOK, NEW p \in Pid, AddClient(p)
    PROVE  OthersKept(p)
<1>1. CASE proc[p] # 0
  BY <1>1, SetSessionEffect DEF AddClient
<1>2. CASE proc[p] = 0
  BY <1>2 DEF AddClient, WatchClient, OthersKept, TypeOK
<1> QED
  BY <1>1, <1>2

\* Ending a session stops the batch server recorded in it and keeps the others.
LEMMA EndSessionEffect ==
    ASSUME TypeOK, NEW q \in Pid, EndSession(q)
    PROVE  /\ OthersKept(q)
           /\ sessions'[q].ct = 0 /\ files'[q].ct = 0
           /\ \A r \in Pid \ {q} : server'[r] = server[r]
           /\ sessions[q].batch /\ q \notin untracked => server'[q] = "none"
           /\ server'[q] \in {server[q], "none"}
<1>1. OthersKept(q) /\ sessions'[q] = NoSession /\ files'[q] = NoFile
  BY DEF EndSession, OthersKept, TypeOK
<1>2. /\ \A r \in Pid \ {q} : server'[r] = server[r]
      /\ sessions[q].batch /\ q \notin untracked => server'[q] = "none"
      /\ server'[q] \in {server[q], "none"}
  BY DEF EndSession, StopRecorded, TypeOK
<1> QED
  BY <1>1, <1>2 DEF NoSession, Session, NoFile, File

\* A crash of geopmd takes its batch servers with it.
LEMMA LoseMemoryEffect ==
    ASSUME LoseMemory
    PROVE  /\ d' = Down /\ saved' = NoFrame /\ untracked' = {}
           /\ \A p \in Pid : sessions'[p].ct = 0 /\ server'[p] = "none"
BY DEF LoseMemory, NoSession, Session

\* The part of the invariant that is not about types.
SafeInv ==
    /\ saved = NoFrame
    /\ RestorableAlways
    /\ StartFrames
    /\ CopyKept
    /\ ModeSteps
    /\ CloseSteps
    /\ WritersHoldLock

\* Nothing has changed the controls initially.
LEMMA SafeInit == Init => SafeInv
BY ConstantsAssumption
   DEF Init, SafeInv, RestorableAlways, StartFrames, CopyKept, ModeSteps, CloseSteps, WritersHoldLock

\* After a close that did not hold the lock, the caller finds what it left.
LEMMA ContinueKeeps ==
    ASSUME TypeOK, SafeInv, d.pc = "restore", d.q \in Pid, lock # d.q, Continue,
           UNCHANGED <<hw, base, files, lock, save, sessions, server, untracked, saved>>
    PROVE  SafeInv'
<1> USE ConstantsAssumption
    DEF SafeInv, RestorableAlways, StartFrames, CopyKept, ModeSteps, CloseSteps, WritersHoldLock,
        IsOpen, HasFile
<1>1. d.k # "rdone"
  OBVIOUS
<1>2. CASE d.k = "return"
  BY <1>2 DEF Continue, Return, TypeOK
<1>3. CASE d.k = "add"
  BY <1>3 DEF Continue, Goto, TypeOK
<1>4. CASE d.k = "term"
  BY <1>4 DEF Continue, Goto, TypeOK
<1>5. CASE d.k = "rwatch"
  BY <1>5 DEF Continue, Goto, TypeOK
<1> QED
  BY <1>1, <1>2, <1>3, <1>4, <1>5 DEF TypeOK, FrameOK, Frames, Conts

\* After a close that released the lock, the original settings are back.
LEMMA ContinueUnlocked ==
    ASSUME TypeOK, SafeInv, d.pc = "unlock", d.q \in Pid, lock = d.q, lock' = NoPid, Continue,
           UNCHANGED <<hw, base, files, save, sessions, server, untracked, saved>>
    PROVE  SafeInv'
<1> USE ConstantsAssumption
    DEF SafeInv, RestorableAlways, StartFrames, CopyKept, ModeSteps, CloseSteps, WritersHoldLock,
        IsOpen, HasFile
<1>1. CASE d.k \in {"return", "rdone"}
  BY <1>1 DEF Continue, Return, TypeOK
<1>2. CASE d.k = "add"
  BY <1>2 DEF Continue, Goto, TypeOK
<1>3. CASE d.k = "term"
  BY <1>3 DEF Continue, Goto, TypeOK
<1>4. CASE d.k = "rwatch"
  BY <1>4 DEF Continue, Goto, TypeOK
<1> QED
  BY <1>1, <1>2, <1>3, <1>4 DEF TypeOK, FrameOK, Frames, Conts

\* Every step keeps the safety invariant, in a contained environment.
LEMMA SafeNext == ASSUME Contained, TypeOK, SafeInv, [Next]_vars PROVE SafeInv'
<1> USE ConstantsAssumption
    DEF SafeInv, RestorableAlways, StartFrames, CopyKept, ModeSteps, CloseSteps, WritersHoldLock,
        IsOpen, HasFile, osVars, memVars, batchVars, sigVars
<1>1. ASSUME NEW p \in Pid, Die(p) PROVE SafeInv'
  BY <1>1 DEF Die, TypeOK, Contained
<1>2. ASSUME NEW p \in Pid, Recycle(p) PROVE SafeInv'
  BY <1>2 DEF Recycle, TypeOK, Contained
<1>3. ASSUME NEW p \in Pid, BatchWrite(p) PROVE SafeInv'
  BY <1>3 DEF BatchWrite, TypeOK, Contained
<1>4. ASSUME NEW p \in Pid, BatchExit(p) PROVE SafeInv'
  BY <1>4 DEF BatchExit, TypeOK, Contained
<1>5. CASE Start
  <2>1. \A p \in Pid : files[p].ct = 0 => sessions'[p].ct = 0 /\ files'[p].ct = 0
    BY <1>5 DEF Start, NoSession, Session, NoFile, File
  <2>2. /\ d'.pc = "rwatch" /\ d'.op = "start" /\ d'.k = "none" /\ d.pc = "down"
        /\ UNCHANGED <<hw, base, lock, save, server, untracked, saved>>
    BY <1>5 DEF Start
  <2> QED
    BY <2>1, <2>2 DEF TypeOK
<1>6. CASE StartWatch
  <2>1. UNCHANGED <<hw, base, lock, save, sessions, server, untracked, saved>>
    BY <1>6 DEF StartWatch, Rewatch, WatchClient
  <2>2. \A p \in Pid : sessions[p].ct = 0 /\ files[p].ct = 0 => files'[p].ct = 0
    BY <1>6 DEF StartWatch, Rewatch, WatchClient, FileOf, File, TypeOK
  <2>3. /\ d.pc = "rwatch" /\ d'.op = "start"
        /\ d'.pc \in {"rwatch", "rlock", "close"}
        /\ d'.k = IF d'.pc = "close" THEN "rwatch" ELSE "none"
    BY <1>6 DEF StartWatch, Rewatch, WatchClient
  <2> QED
    BY <2>1, <2>2, <2>3 DEF TypeOK
<1>7. CASE StartLock
  <2>1. CASE lock = NoPid \/ IsClientActive(lock)
    <3>1. d' = Idle /\ UNCHANGED <<hw, base, lock, save, files, sessions, server, untracked, saved>>
      BY <1>7, <2>1 DEF StartLock, ReleaseOrphan, IsClientActive
    <3> QED
      BY <2>1, <3>1 DEF IsClientActive, TypeOK
  <2>2. CASE lock # NoPid /\ IsOpen(lock) /\ ~IsClientActive(lock)
    <3>1. LoseMemory /\ UNCHANGED <<hw, base, lock, save>>
      BY <1>7, <2>2 DEF StartLock, ReleaseOrphan
    <3> QED
      BY <2>2, <3>1, LoseMemoryEffect DEF TypeOK
  <2>3. CASE lock # NoPid /\ ~IsOpen(lock)
    <3>1. /\ files' = [files EXCEPT ![lock] = NoFile]
          /\ d' = Frame("restore", "start", NoPid, lock, "rdone", {})
          /\ UNCHANGED <<hw, base, lock, save, sessions, server, untracked, saved>>
      BY <1>7, <2>3 DEF StartLock, ReleaseOrphan, IsClientActive
    <3>2. files'[lock].ct = 0
      BY <2>3, <3>1 DEF TypeOK, NoFile, File
    <3> QED
      BY <2>3, <3>1, <3>2 DEF TypeOK
  <2> QED
    BY <2>1, <2>2, <2>3 DEF IsClientActive
<1>8. ASSUME NEW p \in Pid, NEW op \in ClientOps, Call(p, op) PROVE SafeInv'
  BY <1>8 DEF Call, TypeOK, Contained
<1>9. ASSUME NEW p \in Pid, CloseSessionAdmin(p) PROVE SafeInv'
  BY <1>9 DEF CloseSessionAdmin, TypeOK, Contained
<1>10. ASSUME NEW p \in Pid, CheckClient(p) PROVE SafeInv'
  BY <1>10 DEF CheckClient, TypeOK, Contained
<1>11. CASE OpenSession
  BY <1>11, SetRefEffect, SetBatchEffect, AddClientEffect, EndSessionEffect, LoseMemoryEffect
     DEF OpenSession, OthersKept, Return, Goto, TypeOK
<1>12. CASE AddSession
  BY <1>12, SetRefEffect, SetBatchEffect, AddClientEffect, EndSessionEffect, LoseMemoryEffect
     DEF AddSession, OthersKept, Return, Goto, TypeOK
<1>13. CASE RejectCall
  BY <1>13 DEF RejectCall, TypeOK, Contained
<1>14. CASE CloseSession
  BY <1>14, SetRefEffect, SetBatchEffect, AddClientEffect, EndSessionEffect, LoseMemoryEffect
     DEF CloseSession, DropReference, OthersKept, Return, Goto, TypeOK
<1>15. CASE ReadSignal
  BY <1>15 DEF ReadSignal, Return, TypeOK, Contained
<1>16. CASE BeginWork
  BY <1>16 DEF BeginWork, Return, Goto, TypeOK, Contained
<1>17. CASE StopBatch
  <2>1. d.p \in Pid /\ d.op = "stop" /\ d.pc = "entry"
    BY <1>17 DEF StopBatch, TypeOK
  <2>2. UNCHANGED <<hw, base, lock, save, saved, untracked>> /\ d' \in {Idle, Exiting}
    BY <1>17, <2>1 DEF StopBatch, Return
  <2>3. CASE sessions[d.p].batch
    <3>1. SetBatch(d.p, FALSE) /\ StopRecorded(d.p)
      BY <1>17, <2>1, <2>3 DEF StopBatch
    <3>2. OthersKept(d.p) /\ sessions'[d.p].ct = sessions[d.p].ct
      BY <2>1, <3>1, SetBatchEffect
    <3>3. server'[d.p] = "none" /\ \A r \in Pid \ {d.p} : server'[r] = server[r]
      BY <2>1, <2>3, <3>1 DEF StopRecorded, TypeOK
    <3> QED
      BY <2>1, <2>2, <3>2, <3>3 DEF OthersKept, TypeOK
  <2>4. CASE ~sessions[d.p].batch
    <3>1. UNCHANGED <<sessions, files, server>>
      BY <1>17, <2>4 DEF StopBatch
    <3> QED
      BY <2>1, <2>2, <3>1 DEF TypeOK
  <2> QED
    BY <2>3, <2>4
<1>18. CASE WriteMode
  BY <1>18 DEF WriteMode, MayWrite, Writer, Return, TypeOK, Contained
<1>19. CASE StatLeader
  BY <1>19 DEF StatLeader, Return, Goto, TypeOK, Contained
<1>20. CASE OpenLeader
  BY <1>20, SetRefEffect, SetBatchEffect, AddClientEffect, EndSessionEffect, LoseMemoryEffect
     DEF OpenLeader, OthersKept, Return, Goto, TypeOK
<1>21. CASE SaveControls
  BY <1>21 DEF SaveControls, Return, Goto, TypeOK, Contained
<1>22. CASE SetLock
  BY <1>22 DEF SetLock, Goto, TypeOK, Contained
<1>23. CASE WriteControl
  BY <1>23 DEF WriteControl, Return, TypeOK, Contained
<1>24. CASE RestoreControl
  BY <1>24 DEF RestoreControl, Return, TypeOK, Contained
<1>25. CASE StartBatch
  <2>1. d.p \in Pid /\ d.q \in Pid /\ d.op \in {"batchro", "batchrw"} /\ d.pc = "do"
    BY <1>25 DEF StartBatch, TypeOK
  <2>2. UNCHANGED <<hw, base, lock, save, saved, untracked>> /\ d' \in {Idle, Exiting}
    BY <1>25 DEF StartBatch, Return
  <2>3. CASE IsOpen(d.p) /\ ~sessions[d.p].batch
    <3>1. SetBatch(d.p, TRUE)
      BY <1>25, <2>3 DEF StartBatch
    <3>2. OthersKept(d.p) /\ sessions'[d.p].ct # 0 /\ sessions'[d.p].batch
      BY <2>1, <2>3, <3>1, SetBatchEffect
    <3>3. /\ \A r \in Pid \ {d.p} : server'[r] = server[r]
          /\ server'[d.p] = "rw" => server[d.p] = "rw" \/ d.op = "batchrw"
      BY <1>25, <2>1, <2>3 DEF StartBatch, TypeOK
    <3> QED
      BY <2>1, <2>2, <3>2, <3>3 DEF OthersKept, TypeOK
  <2>4. CASE ~(IsOpen(d.p) /\ ~sessions[d.p].batch)
    <3>1. UNCHANGED <<sessions, files, server>>
      BY <1>25, <2>4 DEF StartBatch
    <3> QED
      BY <2>1, <2>2, <3>1 DEF TypeOK
  <2> QED
    BY <2>3, <2>4
<1>26. CASE CloseCompletely
  BY <1>26, SetRefEffect, SetBatchEffect, AddClientEffect, EndSessionEffect, LoseMemoryEffect
     DEF CloseCompletely, OthersKept, Return, Goto, TypeOK
<1>27. CASE RestoreSaved
  <2>1. d.q \in Pid /\ d.pc = "restore"
    BY <1>27 DEF RestoreSaved, TypeOK
  <2>2. UNCHANGED <<base, files, lock, save, sessions, server, untracked, saved>>
    BY <1>27 DEF RestoreSaved
  <2>3. CASE lock # d.q
    <3>1. Continue /\ UNCHANGED hw
      BY <1>27, <2>3 DEF RestoreSaved
    <3> QED
      BY <2>1, <2>2, <2>3, <3>1, ContinueKeeps
  <2>4. CASE lock = d.q /\ save = NoVal
    BY <1>27, <2>1, <2>2, <2>4 DEF RestoreSaved, Goto, TypeOK
  <2>5. CASE lock = d.q /\ save # NoVal
    <3>1. save = base
      BY <2>1, <2>5
    <3>2. (hw' = save /\ Goto("rename")) \/ Goto("aside")
      BY <1>27, <2>5 DEF RestoreSaved
    <3> QED
      BY <2>1, <2>2, <2>5, <3>1, <3>2 DEF Goto, TypeOK
  <2> QED
    BY <2>3, <2>4, <2>5
<1>28. CASE RemoveSaved
  BY <1>28 DEF RemoveSaved, Goto, TypeOK, Contained
<1>29. CASE Unlock
  <2>1. d.q \in Pid /\ d.pc = "unlock" /\ lock = d.q
    BY <1>29 DEF Unlock, TypeOK
  <2>2. /\ UNCHANGED <<hw, base, files, save, sessions, server, untracked, saved>>
        /\ lock' = NoPid /\ Continue
    BY <1>29, <2>1 DEF Unlock
  <2> QED
    BY <2>1, <2>2, ContinueUnlocked
<1>30. CASE Sigterm
  BY <1>30 DEF Sigterm, TypeOK, Contained
<1>31. CASE CloseAllSessions
  BY <1>31 DEF CloseAllSessions, TypeOK, Contained
<1>32. CASE Exit
  BY <1>32, LoseMemoryEffect DEF TypeOK, Exit
<1>33. CASE Crash
  BY <1>33, LoseMemoryEffect DEF TypeOK, Crash
<1>34. CASE UNCHANGED vars
  BY <1>34 DEF vars, TypeOK, Contained
<1> QED
  BY <1>1, <1>2, <1>3, <1>4, <1>5, <1>6, <1>7, <1>8, <1>9, <1>10, <1>11,
     <1>12, <1>13, <1>14, <1>15, <1>16, <1>17, <1>18, <1>19, <1>20, <1>21, <1>22,
     <1>23, <1>24, <1>25, <1>26, <1>27, <1>28, <1>29, <1>30, <1>31, <1>32, <1>33,
     <1>34
     DEF Next, Handler

(***************************************************************************)
(* Whatever step of open, write mode, close, start or stop the daemon is at *)
(* when it crashes, and however many clients there are, changed controls    *)
(* are covered by a held lock and a complete copy of the original settings. *)
(***************************************************************************)
THEOREM Restorable == Contained => (Spec => []RestorableAlways)
<1> SUFFICES ASSUME Contained PROVE Spec => []RestorableAlways
  OBVIOUS
<1>1. Init => TypeOK /\ SafeInv
  BY TypeInit, SafeInit
<1>2. TypeOK /\ SafeInv /\ [Next]_vars => (TypeOK /\ SafeInv)'
  BY TypeNext, SafeNext
<1>3. TypeOK /\ SafeInv => RestorableAlways
  BY DEF SafeInv
<1> QED
  BY <1>1, <1>2, <1>3, PTL DEF Spec

(***************************************************************************)
(* The whole inductive invariant holds for every set of clients.            *)
(***************************************************************************)
THEOREM Inductive == Contained => (Spec => []IInv)
<1> SUFFICES ASSUME Contained PROVE Spec => []IInv
  OBVIOUS
<1>1. Init => TypeOK /\ SafeInv
  BY TypeInit, SafeInit
<1>2. TypeOK /\ SafeInv /\ [Next]_vars => (TypeOK /\ SafeInv)'
  BY TypeNext, SafeNext
<1>3. TypeOK /\ SafeInv <=> IInv
  BY DEF SafeInv, IInv
<1> QED
  BY <1>1, <1>2, <1>3, PTL DEF Spec

-----------------------------------------------------------------------------
(* Batch servers and sessions.                                               *)

\* At every step, also inside a handler, a running batch server is the one that an
\* open session has recorded.
ServersRecorded ==
    \A p \in Pid : server[p] # "none" => IsOpen(p) /\ sessions[p].batch = TRUE

\* Every step keeps the servers recorded: the steps that end or replace a session
\* stop its server first.
LEMMA ServersNext ==
    ASSUME Contained, TypeOK, SafeInv, ServersRecorded, [Next]_vars
    PROVE  ServersRecorded'
<1> USE DEF ServersRecorded, IsOpen
<1>1. CASE UNCHANGED <<sessions, server>>
  BY <1>1
<1>2. ASSUME NEW p \in Pid, BatchExit(p) PROVE ServersRecorded'
  BY <1>2 DEF BatchExit, memVars, TypeOK
<1>3. CASE Start
  <2>1. d.pc = "down" /\ UNCHANGED server
    BY <1>3 DEF Start, batchVars
  <2> QED
    BY <2>1 DEF SafeInv, WritersHoldLock
<1>4. CASE StartWatch
  <2>1. UNCHANGED <<sessions, server>>
    BY <1>4 DEF StartWatch, batchVars
  <2> QED
    BY <1>1, <2>1
<1>5. CASE StartLock
  <2>1. LoseMemory \/ UNCHANGED <<sessions, server>>
    BY <1>5 DEF StartLock, ReleaseOrphan, memVars, batchVars
  <2> QED
    BY <1>1, <2>1, LoseMemoryEffect
<1>6. CASE OpenSession
  <2>1. d.p \in Pid /\ UNCHANGED server
    BY <1>6 DEF OpenSession, batchVars, TypeOK, FrameOK
  <2>2. CASE UNCHANGED sessions
    BY <1>1, <2>1, <2>2
  <2>3. CASE SetRef(d.p, sessions[d.p].ref + 1)
    BY <2>1, <2>3, SetRefEffect DEF OthersKept
  <2> QED
    BY <1>6, <2>2, <2>3 DEF OpenSession
<1>7. CASE AddSession
  <2>1. d.p \in Pid /\ ~IsOpen(d.p) /\ UNCHANGED server /\ AddClient(d.p)
    BY <1>7 DEF AddSession, batchVars, TypeOK, FrameOK, SafeInv, CloseSteps
  <2> QED
    BY <2>1, AddClientEffect DEF OthersKept
<1>8. CASE CloseSession
  <2>1. d.p \in Pid /\ UNCHANGED server
    BY <1>8 DEF CloseSession, batchVars, TypeOK, FrameOK
  <2>2. CASE UNCHANGED sessions
    BY <1>1, <2>1, <2>2
  <2>3. CASE SetRef(d.p, sessions[d.p].ref - 1)
    BY <2>1, <2>3, SetRefEffect DEF OthersKept
  <2> QED
    BY <1>8, <2>2, <2>3 DEF CloseSession, DropReference
<1>9. CASE StopBatch
  <2>1. d.p \in Pid /\ d.op = "stop" /\ d.p \notin untracked
    BY <1>9 DEF StopBatch, TypeOK, FrameOK, SafeInv, WritersHoldLock
  <2>2. CASE UNCHANGED <<sessions, server>>
    BY <1>1, <2>2
  <2>3. CASE sessions[d.p].batch /\ SetBatch(d.p, FALSE) /\ StopRecorded(d.p)
    <3>1. OthersKept(d.p)
      BY <2>1, <2>3, SetBatchEffect
    <3>2. server'[d.p] = "none" /\ \A r \in Pid \ {d.p} : server'[r] = server[r]
      BY <2>1, <2>3 DEF StopRecorded, TypeOK
    <3> QED
      BY <3>1, <3>2 DEF OthersKept
  <2> QED
    BY <1>9, <2>1, <2>2, <2>3 DEF StopBatch, batchVars
<1>10. CASE OpenLeader
  <2>1. d.q \in Pid
    BY <1>10 DEF OpenLeader, TypeOK, FrameOK
  <2>2. CASE SetRef(d.q, sessions[d.q].ref + 1) /\ UNCHANGED server
    BY <2>1, <2>2, SetRefEffect DEF OthersKept
  <2>3. CASE EndSession(d.q)
    <3>1. server[d.q] # "none" => sessions[d.q].batch /\ d.q \notin untracked
      BY <2>1 DEF SafeInv, WritersHoldLock
    <3> QED
      BY <2>1, <2>3, <3>1, EndSessionEffect DEF OthersKept
  <2>4. CASE ~IsOpen(d.q) /\ AddClient(d.q) /\ UNCHANGED server
    BY <2>1, <2>4, AddClientEffect DEF OthersKept
  <2> QED
    BY <1>10, <2>2, <2>3, <2>4 DEF OpenLeader
<1>11. CASE StartBatch
  <2>1. d.p \in Pid
    BY <1>11 DEF StartBatch, TypeOK, FrameOK
  <2>2. CASE UNCHANGED <<sessions, server>>
    BY <1>1, <2>2
  <2>3. CASE IsOpen(d.p) /\ SetBatch(d.p, TRUE)
    <3>1. \A r \in Pid \ {d.p} : server'[r] = server[r]
      BY <1>11, <2>1 DEF StartBatch, TypeOK
    <3>2. OthersKept(d.p) /\ sessions'[d.p].ct # 0 /\ sessions'[d.p].batch = TRUE
      BY <2>1, <2>3, SetBatchEffect
    <3> QED
      BY <3>1, <3>2 DEF OthersKept
  <2> QED
    BY <1>11, <2>2, <2>3 DEF StartBatch
<1>12. CASE CloseCompletely
  <2>1. d.q \in Pid /\ EndSession(d.q)
    BY <1>12 DEF CloseCompletely, TypeOK, FrameOK
  <2>2. server[d.q] # "none" => sessions[d.q].batch /\ d.q \notin untracked
    BY <2>1 DEF SafeInv, WritersHoldLock
  <2> QED
    BY <2>1, <2>2, EndSessionEffect DEF OthersKept
<1>13. CASE Exit \/ Crash
  BY <1>13, LoseMemoryEffect DEF Exit, Crash
<1>14. CASE \E p \in Pid : \/ Die(p) \/ Recycle(p) \/ BatchWrite(p)
                          \/ CloseSessionAdmin(p) \/ CheckClient(p)
                          \/ \E op \in ClientOps : Call(p, op)
  BY <1>1, <1>14 DEF Die, Recycle, BatchWrite, CloseSessionAdmin, CheckClient, Call, memVars, batchVars
<1>15. CASE \/ RejectCall \/ ReadSignal \/ BeginWork \/ WriteMode \/ StatLeader
            \/ SaveControls \/ SetLock \/ WriteControl \/ RestoreControl \/ RestoreSaved
            \/ RemoveSaved \/ Unlock \/ CloseAllSessions \/ Sigterm \/ UNCHANGED vars
  BY <1>1, <1>15
     DEF RejectCall, ReadSignal, BeginWork, WriteMode, StatLeader, SaveControls, SetLock, WriteControl,
         RestoreControl, RestoreSaved, RemoveSaved, Unlock, CloseAllSessions, Sigterm, vars, memVars, batchVars
<1> QED
  BY <1>2, <1>3, <1>4, <1>5, <1>6, <1>7, <1>8, <1>9, <1>10, <1>11, <1>12, <1>13, <1>14, <1>15
     DEF Next, Handler

(***************************************************************************)
(* Between two handlers no batch server outlives the session that started   *)
(* it, whatever clients die, calls are refused or daemons crash.            *)
(***************************************************************************)
THEOREM ServersBelong == Contained => (Spec => []ServersHaveSessions)
<1> SUFFICES ASSUME Contained PROVE Spec => []ServersHaveSessions
  OBVIOUS
<1> DEFINE Inv == TypeOK /\ SafeInv /\ ServersRecorded
<1>1. Init => Inv
  BY TypeInit, SafeInit DEF Init, ServersRecorded
<1>2. Inv /\ [Next]_vars => Inv'
  BY TypeNext, SafeNext, ServersNext
<1>3. Inv => ServersHaveSessions
  BY DEF ServersRecorded, ServersHaveSessions
<1> QED
  BY <1>1, <1>2, <1>3, PTL DEF Spec

-----------------------------------------------------------------------------
(* The write lock with the controls implements WriteSession.                *)

\* Every step is a step of WriteSession or leaves the controls, the settings to
\* restore and the lock alone.
LEMMA StepSimulates ==
    ASSUME Contained, TypeOK, SafeInv, [Next]_vars
    PROVE  [Promise!Next]_(Promise!vars)
<1> DEFINE Quiet == UNCHANGED <<hw, base, lock>>
<1> SUFFICES ASSUME ~Quiet PROVE Promise!Next
  BY DEF Promise!vars
<1> USE ConstantsAssumption
    DEF SafeInv, RestorableAlways, CopyKept, ModeSteps, CloseSteps, WritersHoldLock
<1>1. ASSUME NEW p \in Pid, BatchWrite(p) PROVE Promise!Modify
  BY <1>1 DEF BatchWrite, TypeOK, Promise!Modify
<1>2. CASE SetLock
  <2>1. d.q \in Pid
    BY <1>2 DEF SetLock, TypeOK, FrameOK
  <2>2. Promise!Acquire(d.q)
    BY <1>2, <2>1 DEF SetLock, Promise!Acquire
  <2> QED
    BY <2>1, <2>2 DEF Promise!Next
<1>3. CASE WriteControl \/ RestoreControl
  <2>1. d.pc = "do" /\ d.op \in WriteOps /\ d.q \in Pid
    BY <1>3 DEF WriteControl, RestoreControl, WriteOps, TypeOK, FrameOK
  <2>2. lock # NoPid
    BY <2>1
  <2>3. hw' \in Val /\ UNCHANGED <<base, lock>>
    BY <1>3 DEF WriteControl, RestoreControl, TypeOK
  <2> QED
    BY <2>2, <2>3 DEF Promise!Modify, Promise!Next
<1>4. CASE RestoreSaved
  <2>1. d.q \in Pid
    BY <1>4 DEF RestoreSaved, TypeOK, FrameOK
  <2>2. UNCHANGED <<base, lock>> /\ lock = d.q /\ hw' \in Val
    BY <1>4 DEF RestoreSaved, TypeOK
  <2> QED
    BY <2>1, <2>2 DEF Promise!Modify, Promise!Next
<1>5. CASE RemoveSaved
  <2>1. d.q \in Pid /\ lock = d.q
    BY <1>5 DEF RemoveSaved, TypeOK, FrameOK
  <2>2. UNCHANGED <<hw, lock>> /\ base' = hw
    BY <1>5 DEF RemoveSaved
  <2> QED
    BY <2>1, <2>2 DEF Promise!GiveUp, Promise!Next
<1>6. CASE Unlock
  <2>1. d.q \in Pid /\ lock = d.q /\ hw = base
    BY <1>6 DEF Unlock, TypeOK, FrameOK
  <2>2. UNCHANGED <<hw, base>> /\ lock' = NoPid
    BY <1>6, <2>1 DEF Unlock
  <2> QED
    BY <2>1, <2>2 DEF Promise!Release, Promise!Next
<1>7. ASSUME NEW p \in Pid,
             \/ Die(p) \/ Recycle(p) \/ BatchExit(p) \/ CloseSessionAdmin(p) \/ CheckClient(p)
             \/ \E op \in ClientOps : Call(p, op)
      PROVE  FALSE
  BY <1>7 DEF Die, Recycle, BatchExit, CloseSessionAdmin, CheckClient, Call
<1>8. CASE Start \/ Sigterm \/ Crash \/ StartWatch \/ StartLock \/ Exit \/ CloseAllSessions
  BY <1>8 DEF Start, Sigterm, Crash, StartWatch, StartLock, Exit, CloseAllSessions
<1>9. CASE \/ OpenSession \/ AddSession \/ RejectCall \/ CloseSession \/ ReadSignal
           \/ BeginWork \/ StopBatch \/ WriteMode \/ StatLeader \/ OpenLeader
  BY <1>9 DEF OpenSession, AddSession, RejectCall, CloseSession, ReadSignal,
              BeginWork, StopBatch, WriteMode, StatLeader, OpenLeader
<1>10. CASE SaveControls \/ StartBatch \/ CloseCompletely
  BY <1>10 DEF SaveControls, StartBatch, CloseCompletely
<1>11. CASE UNCHANGED vars
  BY <1>11 DEF vars
<1> QED
  BY <1>1, <1>2, <1>3, <1>4, <1>5, <1>6, <1>7, <1>8, <1>9, <1>10, <1>11
     DEF Next, Handler, Promise!Next

(***************************************************************************)
(* The lock has one owner at a time and passes on only through the original *)
(* settings, for every number of clients.                                   *)
(***************************************************************************)
THEOREM Implements == Contained => (Spec => ImplementsWriteSession)
<1> SUFFICES ASSUME Contained PROVE Spec => Promise!Spec
  BY DEF ImplementsWriteSession
<1>1. Init => TypeOK /\ SafeInv
  BY TypeInit, SafeInit
<1>2. TypeOK /\ SafeInv /\ [Next]_vars => (TypeOK /\ SafeInv)'
  BY TypeNext, SafeNext
<1>3. Init => Promise!Init
  BY DEF Init, Promise!Init
<1>4. TypeOK /\ SafeInv /\ [Next]_vars => [Promise!Next]_(Promise!vars)
  BY StepSimulates
<1> QED
  BY <1>1, <1>2, <1>3, <1>4, PTL DEF Spec, Promise!Spec

=============================================================================
