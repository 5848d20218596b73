---------------------------- MODULE BatchServer ----------------------------
(***************************************************************************)
(* A batch server (libgeopmd BatchServer.cpp), the client it serves         *)
(* (BatchClient.cpp), the FIFOs and the shared memory between them          *)
(* (BatchStatus.cpp, SharedMemory.cpp) and the daemon that starts and stops *)
(* the server (geopmdpy service.py, system_files.py).                       *)
(*                                                                          *)
(* A FIFO opens when both ends are being opened.  A step at which a process *)
(* is in a system call stands for the moment before the call too: a signal  *)
(* or an unlink at that step may come before or during the call.            *)
(***************************************************************************)
EXTENDS Naturals, Sequences

CONSTANTS
    Val,          \* settings of the controls
    ClientPid,    \* PID of the client, the server key
    BatchPid,     \* PID of the server
    Faults,       \* a subset of FaultNames
    MaxRequest,   \* bound on the requests of the client
    MaxStart      \* bound on the servers that are started

FaultNames == {"piofail",  \* PlatformIO throws an exception
               "kill",     \* the server is killed with SIGKILL
               "sigpipe"}  \* the client does not ignore SIGPIPE

ASSUME BatchAssumption ==
    /\ ClientPid # BatchPid
    /\ Faults \subseteq FaultNames
    /\ MaxRequest \in Nat /\ MaxStart \in Nat

VARIABLES
    spc,       \* step of the server, "off" if there is none
    inMsg,     \* in_message of event_loop()
    outMsg,    \* out_message of event_loop()
    waiting,   \* m_is_client_waiting
    sigterm,   \* the daemon's SIGTERM: "none", "queued" or "seen"
    cpc,       \* step of the client, "none" if it has no BatchClient
    req,       \* the request the client makes
    answered,  \* the last request that returned, "error" if it threw
    opened,    \* the server has both FIFOs open
    linked,    \* the client has them open too
    toServer,  \* bytes in the FIFOs
    toClient,
    ctl,       \* the control buffer
    sample,    \* the signal buffer: the last request made when it was filled
    hw,        \* settings of the controls
    requests,  \* number of requests so far
    dpc,       \* the daemon: "idle", waiting for the key of a server that starts, with
               \* the key, or waiting in communicate() for one that stops
    recorded,  \* the session has a batch server
    files,     \* files in /run/geopm, named by kind and key
    starts,    \* number of servers started
    excused    \* history: the files that the server found when it started, or had
               \* when it was killed

serverVars == <<spc, inMsg, outMsg, waiting, sigterm>>
clientVars == <<cpc, req, answered, requests>>
linkVars == <<opened, linked, toServer, toClient>>
dataVars == <<ctl, sample, hw>>
daemonVars == <<dpc, recorded, starts, excused>>
vars == <<serverVars, clientVars, linkVars, dataVars, daemonVars, files>>

-----------------------------------------------------------------------------

Requests == {"read", "write", "quit"}
Messages == Requests \cup {"continue", "terminate"}
Blocked == {"openw", "openr", "recv"}
Starting == {"in", "out", "owner", "memory"}
ServerPcs == Blocked \cup Starting \cup {"off", "push", "check", "work", "reply", "catch", "exit"}
Opening == {"openr", "openw"}
ClientPcs == Opening \cup {"none", "attach", "ready", "send", "recv", "stuck", "dead"}

Kinds == {"in", "out", "signal", "control"}
Fifos(key) == {<<k, key>> : k \in {"in", "out"}}
Shmem(key) == {<<k, key>> : k \in {"signal", "control"}}
Names(key) == Fifos(key) \cup Shmem(key)

\* The type of every variable.
TypeOK ==
    /\ spc \in ServerPcs /\ inMsg \in Messages /\ outMsg \in Messages
    /\ waiting \in BOOLEAN /\ sigterm \in {"none", "queued", "seen"}
    /\ cpc \in ClientPcs /\ req \in Requests
    /\ answered \in Requests \cup {"none", "error"}
    /\ opened \in BOOLEAN /\ linked \in BOOLEAN
    /\ toServer \in Seq(Requests) /\ toClient \in Seq({"continue", "quit"})
    /\ ctl \in Val /\ sample \in Nat /\ hw \in Val /\ requests \in Nat
    /\ dpc \in {"idle", "start", "key", "stop"} /\ recorded \in BOOLEAN
    /\ files \subseteq Kinds \X {ClientPid, BatchPid}
    /\ starts \in Nat /\ excused \subseteq Kinds \X {ClientPid, BatchPid}

Init ==
    /\ spc = "off" /\ inMsg = "continue" /\ outMsg = "continue"
    /\ waiting = FALSE /\ sigterm = "none"
    /\ cpc = "none" /\ req = "read" /\ answered = "none" /\ requests = 0
    /\ opened = FALSE /\ linked = FALSE /\ toServer = <<>> /\ toClient = <<>>
    /\ ctl \in Val /\ sample = 0 /\ hw \in Val
    /\ dpc = "idle" /\ recorded = FALSE /\ starts = 0 /\ files = {} /\ excused = {}

-----------------------------------------------------------------------------
(* The daemon                                                               *)

\* start_batch() up to the readline() that waits for the key.
StartBatch ==
    /\ dpc = "idle" /\ ~recorded /\ cpc = "none" /\ spc = "off"
    /\ starts < MaxStart
    /\ dpc' = "start" /\ starts' = starts + 1 /\ excused' = files
    /\ spc' = "in" /\ outMsg' = "continue" /\ inMsg' = "continue"
    /\ waiting' = FALSE /\ sigterm' = "none"
    /\ opened' = FALSE /\ linked' = FALSE /\ toServer' = <<>> /\ toClient' = <<>>
    /\ UNCHANGED <<clientVars, dataVars, recorded, files>>

\* set_batch_server(), when the server has printed its key or has ended without
\* one: it is recorded anyway.  The client goes on only with a key.
RecordServer ==
    /\ dpc = "key" \/ (dpc = "start" /\ spc = "off")
    /\ dpc' = "idle" /\ recorded' = TRUE
    /\ IF dpc = "key" /\ cpc = "none" THEN cpc' = "attach" /\ answered' = "none"
       ELSE UNCHANGED <<cpc, answered>>
    /\ UNCHANGED <<req, requests, serverVars, linkVars, dataVars, starts, files, excused>>

\* stop_batch_server(): called by stop_batch() and by the close of the session,
\* then communicate() waits for the end of the process.
StopBatchServer ==
    /\ dpc = "idle" /\ recorded
    /\ dpc' = "stop"
    /\ sigterm' = IF spc = "off" THEN sigterm ELSE "queued"
    /\ UNCHANGED <<spc, inMsg, outMsg, waiting, clientVars, linkVars, dataVars,
                   recorded, starts, files, excused>>

\* remove_batch_server() looks for files that were left over, under names made
\* from the PID of the server.
RemoveBatchServer ==
    /\ dpc = "stop" /\ spc = "off"
    /\ dpc' = "idle" /\ recorded' = FALSE
    /\ files' = files \ Names(BatchPid)
    /\ UNCHANGED <<serverVars, clientVars, linkVars, dataVars, starts, excused>>

-----------------------------------------------------------------------------
(* The server                                                               *)

\* The server gets to step pc with these files, and prints its key if it is ready.
Starts(pc, fs) ==
    /\ spc' = pc /\ files' = fs
    /\ dpc' = IF pc = "push" THEN "key" ELSE dpc
    /\ UNCHANGED <<inMsg, outMsg, waiting, sigterm, clientVars, linkVars, dataVars,
                   recorded, starts, excused>>

\* BatchStatusServer(): mkfifo(), which fails on a file that exists.  An exception
\* of a constructor runs no destructor: what was made stays.
MakeFifo ==
    \E step \in {<<"in", "out">>, <<"out", "owner">>} :
        /\ spc = step[1]
        /\ IF <<spc, ClientPid>> \in files THEN Starts("off", files)
           ELSE Starts(step[2], files \cup {<<spc, ClientPid>>})

\* pid_to_uid() and chown() throw if the client is gone, but not while it is a zombie.
GrantOwner ==
    /\ spc = "owner"
    /\ \/ Starts("memory", files)
       \/ cpc = "dead" /\ Starts("off", files)

\* create_shmem(): pid_to_uid() again, and O_EXCL fails on a file that exists.  The
\* destructors of the server unlink the FIFOs and the memory it has created.
CreateShmem ==
    /\ spc = "memory"
    /\ \/ Shmem(ClientPid) \cap files = {} /\ Starts("push", files \cup Shmem(ClientPid))
       \/ /\ Shmem(ClientPid) \cap files # {} \/ cpc = "dead"
          /\ Starts("off", files \ Fifos(ClientPid))

\* push_requests() throws for a name that PlatformIO does not know.
PushRequests ==
    /\ spc = "push"
    /\ \/ spc' = "check"
       \/ "piofail" \in Faults /\ spc' = "exit"
    /\ UNCHANGED <<inMsg, outMsg, waiting, sigterm, clientVars, linkVars, dataVars,
                   daemonVars, files>>

\* The condition of the loop in event_loop().
LoopCheck ==
    /\ spc = "check"
    /\ spc' = IF outMsg # "continue" \/ sigterm = "seen" THEN "exit"
              ELSE IF opened THEN "recv" ELSE "openw"
    /\ UNCHANGED <<inMsg, outMsg, waiting, sigterm, clientVars, linkVars, dataVars,
                   daemonVars, files>>

\* action_sigterm().  A system call that the signal interrupts fails with EINTR
\* and read_message() returns TERMINATE; the memory files are unlinked.
Terminate ==
    /\ sigterm = "queued" /\ spc # "off"
    /\ sigterm' = "seen"
    /\ \/ UNCHANGED <<spc, outMsg, files>>
       \/ /\ spc \in Blocked
          /\ outMsg' = "terminate" /\ spc' = "check"
          /\ files' = files \ Shmem(ClientPid)
    /\ UNCHANGED <<inMsg, waiting, clientVars, linkVars, dataVars, daemonVars>>

\* receive_message(): a byte, or none if the client has closed its end, which
\* event_loop() takes for an unknown response.
ReceiveRequest ==
    /\ spc = "recv"
    /\ files' = files \ Shmem(ClientPid)
    /\ \/ /\ toServer # <<>>
          /\ inMsg' = Head(toServer) /\ toServer' = Tail(toServer)
          /\ spc' = "work"
       \/ /\ toServer = <<>> /\ ~linked
          /\ spc' = "catch"
          /\ UNCHANGED <<inMsg, toServer>>
    /\ UNCHANGED <<outMsg, waiting, sigterm, clientVars, opened, linked, toClient, dataVars, daemonVars>>

\* read_and_update(), update_and_write() or the request to quit.
HandleRequest ==
    /\ spc = "work"
    /\ waiting' = TRUE
    /\ \/ /\ inMsg = "read"
          /\ sample' = requests
          /\ spc' = "reply" /\ UNCHANGED <<hw, outMsg>>
       \/ /\ inMsg = "write"
          /\ hw' = ctl
          /\ spc' = "reply" /\ UNCHANGED <<sample, outMsg>>
       \/ /\ inMsg = "quit"
          /\ outMsg' = "quit"
          /\ spc' = "reply" /\ UNCHANGED <<sample, hw>>
       \/ /\ inMsg # "quit" /\ "piofail" \in Faults
          /\ spc' = "catch" /\ UNCHANGED <<sample, hw, outMsg>>
    /\ UNCHANGED <<inMsg, sigterm, clientVars, linkVars, ctl, daemonVars, files>>

\* (bug) The client is told to go on whatever happened.
SendContinue(msg) ==
    IF linked THEN toClient' = Append(toClient, "continue") ELSE UNCHANGED toClient

\* (bug) Only the request to quit is answered.
SendQuitOnly(msg) ==
    IF linked /\ msg = "quit" THEN toClient' = Append(toClient, msg) ELSE UNCHANGED toClient

\* send_message() on the server's side.
Send(msg) ==
    IF linked THEN toClient' = Append(toClient, msg) ELSE UNCHANGED toClient

\* write_message().  SIGPIPE ends the server if the client is gone.
Reply ==
    /\ spc = "reply"
    /\ Send(outMsg)
    /\ IF linked THEN spc' = "check" /\ waiting' = FALSE
       ELSE spc' = "off" /\ UNCHANGED waiting
    /\ UNCHANGED <<inMsg, outMsg, sigterm, clientVars, opened, linked, toServer, dataVars,
                   daemonVars, files>>

\* run_batch() catches the exception and lets a waiting client go.
Catch ==
    /\ spc = "catch"
    /\ IF waiting
       THEN /\ Send("quit")
            /\ spc' = IF linked THEN "exit" ELSE "off"
            /\ waiting' = ~linked
       ELSE spc' = "exit" /\ UNCHANGED <<toClient, waiting>>
    /\ UNCHANGED <<inMsg, outMsg, sigterm, clientVars, opened, linked, toServer, dataVars,
                   daemonVars, files>>

\* (bug) The FIFOs of a client that never came stay.
ExitUnlinksMemory == files' = files \ Shmem(ClientPid)

\* A client that opens a FIFO when its file is unlinked waits for ever, one that
\* opens it later gets an error.
ExitUnlinks == files' = files \ Names(ClientPid)

\* ~BatchServerImp() and ~BatchStatusServer()
ServerExit ==
    /\ spc = "exit"
    /\ spc' = "off"
    /\ ExitUnlinks
    /\ \/ UNCHANGED cpc
       \/ cpc \in Opening /\ cpc' = "stuck"
    /\ UNCHANGED <<inMsg, outMsg, waiting, sigterm, req, answered, requests, linkVars,
                   dataVars, daemonVars>>

\* SIGKILL at any step, also between the unlinks of the two FIFOs.
Kill ==
    /\ "kill" \in Faults
    /\ spc # "off"
    /\ spc' = "off"
    /\ \/ UNCHANGED files
       \/ spc = "exit" /\ files' = files \ (Names(ClientPid) \ {<<"out", ClientPid>>})
    /\ excused' = files'
    /\ UNCHANGED <<inMsg, outMsg, waiting, sigterm, clientVars, linkVars, dataVars,
                   dpc, recorded, starts>>

-----------------------------------------------------------------------------
(* The client                                                               *)

\* BatchClientImp(): make_unique_user() attaches the memory or times out.
Attach ==
    /\ cpc = "attach"
    /\ cpc' = IF Shmem(ClientPid) \subseteq files THEN "ready" ELSE "none"
    /\ UNCHANGED <<serverVars, req, answered, requests, linkVars, dataVars, daemonVars, files>>

\* read_batch(), write_batch() or stop_batch(); write_batch() first copies the
\* settings to the control buffer.
Request(m) ==
    /\ cpc = "ready" /\ requests < MaxRequest
    /\ req' = m /\ requests' = requests + 1 /\ answered' = "none"
    /\ IF m = "write" THEN \E v \in Val : ctl' = v ELSE UNCHANGED ctl
    /\ cpc' = IF linked THEN "send" ELSE "openr"
    /\ UNCHANGED <<serverVars, linkVars, sample, hw, daemonVars, files>>

\* open_fifo() on both sides: first the FIFO to the client,
OpenOut ==
    /\ spc = "openw" /\ cpc = "openr"
    /\ spc' = "openr" /\ cpc' = "openw"
    /\ UNCHANGED <<inMsg, outMsg, waiting, sigterm, req, answered, requests, linkVars,
                   dataVars, daemonVars, files>>

\* then the FIFO to the server, which unlinks both files.
OpenIn ==
    /\ spc = "openr" /\ cpc = "openw"
    /\ spc' = "recv" /\ cpc' = "send"
    /\ opened' = TRUE /\ linked' = TRUE
    /\ files' = files \ Fifos(ClientPid)
    /\ UNCHANGED <<inMsg, outMsg, waiting, sigterm, req, answered, requests, toServer,
                   toClient, dataVars, daemonVars>>

OpenFails ==
    /\ cpc \in Opening /\ Fifos(ClientPid) \cap files = {}
    /\ cpc' = "ready" /\ answered' = "error"
    /\ UNCHANGED <<serverVars, req, requests, linkVars, dataVars, daemonVars, files>>

\* send_message(): with no server SIGPIPE ends the client unless it ignores it.
SendRequest ==
    /\ cpc = "send"
    /\ \/ /\ spc # "off"
          /\ toServer' = Append(toServer, req)
          /\ cpc' = "recv" /\ UNCHANGED <<answered, linked>>
       \/ /\ spc = "off" /\ "sigpipe" \notin Faults
          /\ cpc' = "ready" /\ answered' = "error" /\ UNCHANGED <<toServer, linked>>
       \/ /\ spc = "off" /\ "sigpipe" \in Faults
          /\ cpc' = "dead" /\ linked' = FALSE /\ UNCHANGED <<toServer, answered>>
    /\ UNCHANGED <<serverVars, req, requests, opened, toClient, dataVars, daemonVars, files>>

Expected == IF req = "quit" THEN "quit" ELSE "continue"

\* receive_message(expect): another message and the end of the server are errors.
ReceiveReply ==
    /\ cpc = "recv"
    /\ \/ /\ toClient # <<>>
          /\ toClient' = Tail(toClient)
          /\ answered' = IF Head(toClient) = Expected THEN req ELSE "error"
       \/ /\ toClient = <<>> /\ spc = "off"
          /\ answered' = "error" /\ UNCHANGED toClient
    /\ cpc' = "ready"
    /\ UNCHANGED <<serverVars, req, requests, opened, linked, toServer, dataVars, daemonVars, files>>

\* The client ends, or destroys its BatchClient.
Leave ==
    /\ cpc # "dead"
    /\ \/ cpc' = "dead"
       \/ cpc = "ready" /\ cpc' = "none"
    /\ linked' = FALSE
    /\ UNCHANGED <<serverVars, req, answered, requests, opened, toServer, toClient, dataVars,
                   daemonVars, files>>

\* The PID of a client whose session was closed is given to another one.
NextClient ==
    /\ cpc = "dead" /\ dpc = "idle" /\ ~recorded
    /\ cpc' = "none"
    /\ UNCHANGED <<serverVars, req, answered, requests, linkVars, dataVars, daemonVars, files>>

-----------------------------------------------------------------------------

Server == MakeFifo \/ GrantOwner \/ CreateShmem
             \/ PushRequests \/ LoopCheck \/ Terminate \/ ReceiveRequest \/ HandleRequest
             \/ Reply \/ Catch \/ ServerExit

Client == Attach \/ OpenFails \/ SendRequest \/ ReceiveReply

Connect == OpenOut \/ OpenIn

Next == \/ StartBatch \/ RecordServer \/ StopBatchServer \/ RemoveBatchServer
        \/ Server \/ Kill
        \/ Client \/ Connect \/ Leave \/ NextClient \/ \E m \in Requests : Request(m)

Spec == Init /\ [][Next]_vars

\* Processes that can take a step do; nobody has to make a request.
Fairness == WF_vars(RecordServer \/ RemoveBatchServer) /\ WF_vars(Server) /\ WF_vars(Client) /\ WF_vars(Connect)
FairSpec == Spec /\ Fairness

-----------------------------------------------------------------------------
(* Properties                                                               *)

\* A request that returned without an error was carried out for this call: the
\* controls have the settings that write_batch() was given, and the signals
\* were sampled after read_batch() was called.
AnswersAreTrue ==
    cpc = "ready" => /\ answered = "write" => hw = ctl
                     /\ answered = "read" => sample = requests

\* A server leaves no file behind that it did not find, in whatever way it ends, so
\* that the next server of the client can create its own.  There are three
\* exceptions: it is killed, its client dies before the FIFOs are given to it, or it
\* finds one FIFO of the two.
NothingLeftOver ==
    [][spc # "off" /\ spc' = "off" =>
         files' \subseteq excused' \/ (spc = "owner" /\ cpc = "dead") \/ (spc = "out" /\ excused # {})]_vars

\* A server that is not killed leaves no file behind, also if it cannot start.
NothingLeftOverAlways == [][spc # "off" /\ spc' = "off" => files' \subseteq excused']_vars

\* When the daemon has removed the record of a server, no file is left over, also
\* if the server was killed or its client died while it started.
CleanedUp == dpc = "idle" /\ ~recorded => files = {}

\* Whoever waits for an answer on the open FIFOs gets it, or an error.
ReplyArrives == cpc \in {"send", "recv"} ~> cpc \notin {"send", "recv"}

\* The daemon gets rid of the server of a client that made a request and died,
\* also if its signal came between the check and the call that blocks: the end
\* of the FIFO wakes the server.
DeadClientStops == dpc = "stop" /\ cpc = "dead" /\ opened ~> dpc = "idle"

\* The daemon gets rid of a server that it sent SIGTERM.
StopReturns == dpc = "stop" ~> dpc = "idle"

\* A call of the client returns.
CallReturns == cpc \in Opening \cup {"send", "recv", "stuck"}
                  ~> cpc \notin Opening \cup {"send", "recv", "stuck"}

\* A client that calls an ended server gets an error: it ends only by itself.
ErrorNotDeath == [][cpc = "send" /\ cpc' = "dead" => spc # "off"]_vars

=============================================================================
