--------------------------- MODULE Clients_proofs ---------------------------
(***************************************************************************)
(* Proofs about a batch server with its client, and about the optimizer,   *)
(* which share nothing with each other.                                    *)
(* The batch server, for any settings, any number of requests and of       *)
(* servers, and any faults: a request that returned was carried out        *)
(* (AnswersAreTrue), and a server leaves no file behind unless it is       *)
(* killed or its client dies under it while it starts (NothingLeftOver).   *)
(* The induction hypothesis says where a request is: in one FIFO, in the   *)
(* server, or in the other FIFO, and in one of them only; and which files  *)
(* a server that starts has made.                                          *)
(* The optimizer, for any command line, any measures and any number of     *)
(* trials: the trial it reports is the best of those that met the          *)
(* constraint (BestFound).                                                 *)
(***************************************************************************)
EXTENDS BatchServer, Optimizer, NumberSetTheorems, TLAPS

-----------------------------------------------------------------------------
(* The batch server *)

\* The server has taken a request and not answered it.
Busy == {"work", "reply", "catch"}

\* The client has a BatchClient and no request under way.
Holding == Opening \cup {"attach", "ready", "send", "stuck"}

\* The request of the client has had its effect.
Carried == /\ req = "write" => hw = ctl
           /\ req = "read" => sample = requests

\* The client has the FIFOs open that the server has open, as long as it is there.
LinkOK == /\ cpc \notin {"none", "dead"} => (opened => linked)
          /\ spc = "recv" => opened

\* Only files named after the client exist; the server has unlinked them before it can
\* find its client gone.
FilesOK == /\ files \subseteq Fifos(ClientPid) \cup Shmem(ClientPid)
           /\ opened => files \cap Fifos(ClientPid) = {}
           /\ spc \in Busy => files = {}

\* Without a request under way both FIFOs are empty, the one to a server that ended apart.
HoldingOK == cpc \in Holding => /\ toClient = <<>>
                                /\ spc # "off" => toServer = <<>> /\ spc \notin Busy

\* A request under way is in one place.
FlightOK ==
    cpc = "recv" =>
        /\ \/ toClient = <<>>
           \/ \E m : toClient = <<m>> /\ (m = Expected => Carried)
        /\ spc # "off" =>
              \/ toServer = <<req>> /\ toClient = <<>> /\ spc \notin Busy
              \/ /\ toServer = <<>> /\ toClient = <<>> /\ spc \in Busy /\ inMsg = req
                 /\ spc = "reply" => Carried
              \/ toServer = <<>> /\ spc \notin Busy

\* Nothing goes through the FIFOs.
Quiet == cpc \in {"none", "dead"} /\ ~opened /\ toServer = <<>> /\ toClient = <<>> /\ spc \notin Busy

\* While a server starts its client waits for it, and every file is one that it found or
\* one that it has made.
StartOK == /\ spc \in Starting => dpc = "start"
           /\ dpc \in {"start", "key"} => Quiet
           /\ spc = "in" => files \subseteq excused
           /\ spc = "out" => files \subseteq excused \cup {<<"in", ClientPid>>}
           /\ spc \in {"owner", "memory"} => files \subseteq excused \cup Fifos(ClientPid)

\* The induction hypothesis.
BatchInv == /\ LinkOK /\ FilesOK /\ HoldingOK /\ FlightOK /\ StartOK
            /\ cpc = "attach" => answered = "none"
            /\ AnswersAreTrue

-----------------------------------------------------------------------------
\* A FIFO that holds one message.
LEMMA OneMessage ==
    ASSUME NEW m
    PROVE  Append(<<>>, m) = <<m>> /\ Head(<<m>>) = m /\ Tail(<<m>>) = <<>> /\ <<m>> # <<>>
  OBVIOUS

\* The files of the client and those of the server are different files.
LEMMA FileNames ==
    /\ Fifos(ClientPid) \cap Shmem(ClientPid) = {}
    /\ \A f : f \subseteq Fifos(ClientPid) \cup Shmem(ClientPid) =>
          f \ (Fifos(ClientPid) \cup Shmem(ClientPid)) = {}
  BY DEF Fifos, Shmem

LEMMA BatchInvInit == Init => BatchInv
  BY DEF Init, BatchInv, StartOK, Quiet, Starting, LinkOK, FilesOK, HoldingOK, FlightOK, AnswersAreTrue, Holding, Opening, Busy

\* What a step leaves alone keeps its part of the hypothesis.
LEMMA FilesShrink ==
    ASSUME FilesOK, files' \subseteq files, UNCHANGED opened, spc' \in Busy => spc \in Busy
    PROVE  FilesOK'
  BY DEF FilesOK

\* A step of a server that has started keeps the part about servers that start.
LEMMA StartOver ==
    ASSUME StartOK, UNCHANGED dpc, spc' \notin Starting, spc' \notin Busy \/ spc \in Busy \cup {"recv"},
           dpc \in {"start", "key"} => spc # "recv" /\ UNCHANGED <<cpc, opened, toServer, toClient>>
    PROVE  StartOK'
  BY DEF StartOK, Quiet, Busy, Starting

\* A step of a client keeps it too.
LEMMA StartOfClient ==
    ASSUME StartOK, UNCHANGED <<spc, dpc, excused>>, files' \subseteq files,
           Quiet => Quiet'
    PROVE  StartOK'
  BY DEF StartOK

\* The daemon.
LEMMA DaemonKeeps ==
    ASSUME BatchInv, StartBatch \/ RecordServer \/ StopBatchServer \/ RemoveBatchServer
    PROVE  BatchInv'
  <1> USE DEF Holding, Opening, Busy
  <1>1. CASE StartBatch
    BY <1>1 DEF StartBatch, BatchInv, StartOK, Quiet, Starting, LinkOK, FilesOK, HoldingOK, FlightOK, AnswersAreTrue,
                clientVars
  <1>2. CASE StopBatchServer \/ RemoveBatchServer
    <2>1. /\ UNCHANGED <<spc, inMsg, clientVars, linkVars, dataVars, excused>>
          /\ files' \subseteq files /\ dpc' \in {"idle", "stop"}
          /\ dpc = "idle" \/ spc = "off"
      BY <1>2 DEF StopBatchServer, RemoveBatchServer, serverVars
    <2>2. StartOK'
      BY <2>1 DEF BatchInv, StartOK, Starting
    <2> QED BY <2>1, <2>2 DEF BatchInv, LinkOK, FilesOK, HoldingOK, FlightOK, AnswersAreTrue, Carried, Expected,
                              linkVars, dataVars, clientVars
  <1>3. CASE RecordServer
    <2>1. /\ UNCHANGED <<serverVars, linkVars, dataVars, req, requests, files, excused>>
          /\ dpc \in {"start", "key"} /\ dpc' = "idle"
          /\ (dpc = "start" => spc = "off") /\ Quiet
          /\ UNCHANGED <<cpc, answered>> \/ (cpc' = "attach" /\ answered' = "none")
      BY <1>3 DEF RecordServer, BatchInv, StartOK
    <2>2. StartOK'
      BY <2>1 DEF BatchInv, StartOK, Starting, serverVars
    <2>3. LinkOK' /\ FilesOK'
      BY <2>1 DEF BatchInv, LinkOK, FilesOK, Quiet, serverVars, linkVars
    <2>4. HoldingOK' /\ FlightOK'
      BY <2>1 DEF BatchInv, HoldingOK, FlightOK, Quiet, serverVars, linkVars
    <2>5. AnswersAreTrue' /\ (cpc' = "attach" => answered' = "none")
      BY <2>1 DEF BatchInv, AnswersAreTrue, Quiet, dataVars
    <2> QED BY <2>2, <2>3, <2>4, <2>5 DEF BatchInv
  <1> QED BY <1>1, <1>2, <1>3

\* The steps of a server that starts.
LEMMA StartKeeps ==
    ASSUME BatchInv, MakeFifo \/ GrantOwner \/ CreateShmem
    PROVE  BatchInv'
  <1> USE DEF Holding, Opening, Busy
  <1>1. /\ UNCHANGED <<inMsg, clientVars, linkVars, dataVars, excused>>
        /\ spc \in Starting /\ files' \subseteq files \cup Names(ClientPid)
        /\ spc' \in Starting \cup {"off", "push"}
        /\ spc' \in Starting => dpc' = dpc
        /\ dpc' \in {dpc, "key"}
    BY DEF MakeFifo, GrantOwner, CreateShmem, Starts, Starting, Names, Fifos
  <1>2. /\ spc' = "out" => spc = "in" /\ files' = files \cup {<<"in", ClientPid>>}
        /\ spc' = "owner" => spc = "out" /\ files' = files \cup {<<"out", ClientPid>>}
        /\ spc' = "memory" => spc = "owner" /\ files' = files
        /\ spc' # "in"
    BY DEF MakeFifo, GrantOwner, CreateShmem, Starts
  <1>3. dpc = "start" /\ Quiet
    BY <1>1 DEF BatchInv, StartOK
  <1>4. StartOK'
    <2>1. Quiet'
      BY <1>1, <1>3 DEF Quiet, Starting, clientVars, linkVars
    <2> QED BY <1>1, <1>2, <1>3, <2>1 DEF BatchInv, StartOK, Fifos
  <1>5. LinkOK' /\ FilesOK'
    BY <1>1, <1>3 DEF BatchInv, LinkOK, FilesOK, Quiet, Names, Starting, clientVars, linkVars
  <1>6. HoldingOK' /\ FlightOK'
    BY <1>1, <1>3 DEF BatchInv, HoldingOK, FlightOK, Quiet, clientVars, linkVars
  <1> QED BY <1>1, <1>4, <1>5, <1>6 DEF BatchInv, AnswersAreTrue, clientVars, dataVars

\* The steps of the server that touch no message.
LEMMA LoopKeeps ==
    ASSUME BatchInv, PushRequests \/ LoopCheck \/ Terminate \/ Kill
    PROVE  BatchInv'
  <1> USE DEF Holding, Opening, Busy
  <1>1. /\ UNCHANGED <<inMsg, clientVars, linkVars, dataVars>>
        /\ files' \subseteq files
        /\ spc' \notin Busy \/ spc' = spc
        /\ spc # "off" /\ UNCHANGED dpc
        /\ spc' = "recv" => opened
    BY DEF PushRequests, LoopCheck, Terminate, Kill, BatchInv, LinkOK, daemonVars
  <1>2. LinkOK'
    BY <1>1 DEF BatchInv, LinkOK, linkVars, clientVars
  <1>3. FilesOK'
    BY <1>1, FilesShrink DEF BatchInv, linkVars
  <1>4. spc \in Busy => spc' \in {spc, "off"}
    BY DEF PushRequests, LoopCheck, Terminate, Kill, Blocked
  <1>5. HoldingOK' /\ FlightOK'
    BY <1>1, <1>4 DEF BatchInv, HoldingOK, FlightOK, Carried, Expected, linkVars, clientVars, dataVars
  <1>6. StartOK'
    <2>1. spc' \notin Starting \/ (spc' = spc /\ UNCHANGED excused)
      BY DEF PushRequests, LoopCheck, Terminate, Kill, Starting, daemonVars
    <2>2. dpc \in {"start", "key"} => spc # "recv"
      BY DEF BatchInv, StartOK, Quiet, LinkOK
    <2>3. CASE spc' \notin Starting
      BY <1>1, <2>2, <2>3, StartOver DEF BatchInv, linkVars, clientVars
    <2>4. CASE spc' = spc /\ UNCHANGED excused
      <3>1. Quiet => Quiet'
        BY <1>1, <2>4 DEF Quiet, linkVars, clientVars
      <3> QED BY <1>1, <2>4, <3>1, StartOfClient DEF BatchInv
    <2> QED BY <2>1, <2>3, <2>4
  <1> QED BY <1>1, <1>2, <1>3, <1>5, <1>6 DEF BatchInv, AnswersAreTrue, clientVars, dataVars

\* receive_message() of the server takes the request out of the FIFO.
LEMMA ReceiveRequestKeeps ==
    ASSUME BatchInv, ReceiveRequest
    PROVE  BatchInv'
  <1> USE DEF Holding, Opening, Busy
  <1>1. /\ UNCHANGED <<clientVars, opened, linked, toClient, dataVars>>
        /\ files' = files \ Shmem(ClientPid) /\ spc = "recv" /\ spc' \in {"work", "catch"}
    BY DEF ReceiveRequest
  <1>6. StartOK'
    <2>1. dpc \notin {"start", "key"} /\ UNCHANGED dpc
      BY <1>1 DEF ReceiveRequest, BatchInv, StartOK, Quiet, LinkOK, daemonVars
    <2> QED BY <1>1, <2>1, StartOver DEF BatchInv, Starting
  <1>2. LinkOK'
    BY <1>1 DEF BatchInv, LinkOK, clientVars
  <1>3. FilesOK'
    BY <1>1, FileNames DEF BatchInv, LinkOK, FilesOK
  <1>4. cpc \notin Holding
    BY <1>1 DEF ReceiveRequest, BatchInv, LinkOK, HoldingOK
  <1>5. FlightOK'
    <2> SUFFICES ASSUME cpc = "recv" PROVE FlightOK'
      BY <1>1 DEF FlightOK, clientVars
    <2>1. toServer = <<req>> /\ toClient = <<>>
      BY <1>1 DEF ReceiveRequest, BatchInv, LinkOK, FlightOK
    <2>2. inMsg' = req /\ toServer' = <<>> /\ spc' = "work"
      BY <2>1, OneMessage DEF ReceiveRequest
    <2> QED BY <1>1, <2>1, <2>2 DEF FlightOK, clientVars
  <1> QED BY <1>1, <1>2, <1>3, <1>4, <1>5, <1>6 DEF BatchInv, HoldingOK, AnswersAreTrue, clientVars, dataVars

\* The request has its effect before it is answered.
LEMMA HandleRequestKeeps ==
    ASSUME BatchInv, HandleRequest
    PROVE  BatchInv'
  <1> USE DEF Holding, Opening, Busy
  <1>1. /\ UNCHANGED <<inMsg, clientVars, linkVars, ctl, files>>
        /\ spc = "work" /\ spc' \in {"reply", "catch"}
    BY DEF HandleRequest
  <1>5. StartOK'
    <2>1. dpc \notin {"start", "key"} /\ UNCHANGED dpc
      BY <1>1 DEF HandleRequest, BatchInv, StartOK, Quiet, daemonVars
    <2> QED BY <1>1, <2>1, StartOver DEF BatchInv, Starting
  <1>2. LinkOK' /\ FilesOK'
    BY <1>1 DEF BatchInv, LinkOK, FilesOK, clientVars, linkVars
  <1>3. cpc \notin Holding
    BY <1>1 DEF BatchInv, HoldingOK
  <1>4. FlightOK'
    <2> SUFFICES ASSUME cpc = "recv" PROVE FlightOK'
      BY <1>1 DEF FlightOK, clientVars
    <2>1. toServer = <<>> /\ toClient = <<>> /\ inMsg = req
      BY <1>1 DEF BatchInv, FlightOK
    <2>2. spc' = "reply" => Carried'
      BY <1>1, <2>1 DEF HandleRequest, Carried, clientVars
    <2> QED BY <1>1, <2>1, <2>2 DEF FlightOK, clientVars, linkVars
  <1> QED BY <1>1, <1>2, <1>3, <1>4, <1>5 DEF BatchInv, HoldingOK, AnswersAreTrue, clientVars

\* The answer, of the request or of the exception, goes to the client that waits.
LEMMA AnswerKeeps ==
    ASSUME BatchInv, Reply \/ Catch
    PROVE  BatchInv'
  <1> USE DEF Holding, Opening, Busy
  <1>1. /\ UNCHANGED <<inMsg, outMsg, clientVars, opened, linked, toServer, dataVars, files>>
        /\ spc \in {"reply", "catch"} /\ spc' \in {"check", "exit", "off"}
    BY DEF Reply, Catch
  <1>5. StartOK'
    <2>1. dpc \notin {"start", "key"} /\ UNCHANGED dpc
      BY <1>1 DEF Reply, Catch, BatchInv, StartOK, Quiet, daemonVars
    <2> QED BY <1>1, <2>1, StartOver DEF BatchInv, Starting
  <1>2. LinkOK' /\ FilesOK'
    BY <1>1 DEF BatchInv, LinkOK, FilesOK, clientVars
  <1>3. cpc \notin Holding
    BY <1>1 DEF BatchInv, HoldingOK
  <1>4. FlightOK'
    <2> SUFFICES ASSUME cpc = "recv" PROVE FlightOK'
      BY <1>1 DEF FlightOK, clientVars
    <2>1. toServer = <<>> /\ toClient = <<>> /\ (spc = "reply" => Carried)
      BY <1>1 DEF BatchInv, FlightOK
    <2>2. \/ toClient' = <<>>
          \/ spc = "reply" /\ toClient' = <<outMsg>>
          \/ spc = "catch" /\ toClient' = <<"quit">>
      BY <2>1, OneMessage DEF Reply, Catch, Send
    <2>3. "quit" = Expected => Carried
      BY DEF Expected, Carried
    <2>4. (Carried <=> Carried') /\ Expected' = Expected
      BY <1>1 DEF Carried, Expected, clientVars, dataVars
    <2> QED BY <1>1, <2>1, <2>2, <2>3, <2>4 DEF FlightOK, clientVars
  <1> QED BY <1>1, <1>2, <1>3, <1>4, <1>5 DEF BatchInv, HoldingOK, AnswersAreTrue, clientVars, dataVars

\* ~BatchServerImp()
LEMMA ServerExitKeeps ==
    ASSUME BatchInv, ServerExit
    PROVE  BatchInv'
  <1> USE DEF Holding, Opening, Busy
  <1>1. /\ UNCHANGED <<req, answered, requests, linkVars, dataVars>>
        /\ spc' = "off" /\ files' \subseteq files
        /\ cpc' = cpc \/ (cpc \in Opening /\ cpc' = "stuck")
    BY DEF ServerExit, ExitUnlinks
  <1>5. StartOK'
    <2>1. UNCHANGED dpc /\ spc # "recv" /\ (Quiet => UNCHANGED cpc)
      BY DEF ServerExit, Quiet, daemonVars
    <2>2. dpc \in {"start", "key"} => Quiet
      BY DEF BatchInv, StartOK
    <2> QED BY <1>1, <2>1, <2>2, StartOver DEF BatchInv, Starting, linkVars
  <1>2. FilesOK'
    BY <1>1, FilesShrink DEF BatchInv, linkVars
  <1>3. LinkOK' /\ HoldingOK'
    BY <1>1 DEF BatchInv, LinkOK, HoldingOK, linkVars
  <1>4. FlightOK'
    BY <1>1 DEF BatchInv, FlightOK, Carried, Expected, linkVars, dataVars
  <1> QED BY <1>1, <1>2, <1>3, <1>4, <1>5 DEF BatchInv, AnswersAreTrue, dataVars

\* The client and the opening of the FIFOs.
LEMMA ClientKeeps ==
    ASSUME BatchInv,
           \/ Attach \/ OpenFails \/ OpenOut \/ OpenIn \/ Leave \/ NextClient
           \/ SendRequest \/ ReceiveReply \/ \E m \in Requests : Request(m)
    PROVE  BatchInv'
  <1> USE DEF Holding, Opening, Busy
  <1>0. StartOK'
    <2>1. CASE OpenOut \/ OpenIn
      <3>1. UNCHANGED dpc /\ ~Quiet /\ spc' \notin Starting \cup Busy
        BY <2>1 DEF OpenOut, OpenIn, Quiet, Starting, daemonVars
      <3> QED BY <3>1 DEF BatchInv, StartOK, Starting
    <2>2. CASE ~(OpenOut \/ OpenIn)
      <3>1. UNCHANGED <<spc, dpc, excused, files, opened>>
        BY <2>2 DEF Attach, OpenFails, Leave, NextClient, SendRequest, ReceiveReply, Request, serverVars, linkVars, daemonVars
      <3>2. Quiet => cpc' \in {"none", "dead"} /\ UNCHANGED <<toServer, toClient>>
        BY <2>2 DEF Quiet, Attach, OpenFails, Leave, NextClient, SendRequest, ReceiveReply, Request, linkVars
      <3> QED BY <3>1, <3>2, StartOfClient DEF BatchInv, Quiet
    <2> QED BY <2>1, <2>2
  <1> USE <1>0
  <1>8. CASE NextClient
    BY <1>8 DEF NextClient, BatchInv, LinkOK, FilesOK, HoldingOK, FlightOK, AnswersAreTrue, serverVars, linkVars
  <1>1. CASE Attach \/ OpenFails
    BY <1>1 DEF Attach, OpenFails, BatchInv, LinkOK, FilesOK, HoldingOK, FlightOK, AnswersAreTrue, serverVars, linkVars
  <1>2. CASE OpenOut
    BY <1>2 DEF OpenOut, BatchInv, LinkOK, FilesOK, HoldingOK, FlightOK, AnswersAreTrue, linkVars
  <1>3. CASE OpenIn
    BY <1>3 DEF OpenIn, BatchInv, LinkOK, FilesOK, HoldingOK, FlightOK, AnswersAreTrue
  <1>4. CASE Leave
    BY <1>4 DEF Leave, BatchInv, LinkOK, FilesOK, HoldingOK, FlightOK, AnswersAreTrue, serverVars
  <1>5. CASE \E m \in Requests : Request(m)
    BY <1>5 DEF Request, BatchInv, LinkOK, FilesOK, HoldingOK, FlightOK, AnswersAreTrue, serverVars, linkVars
  <1>6. CASE SendRequest
    <2>1. /\ UNCHANGED <<serverVars, req, requests, opened, toClient, dataVars, files>>
          /\ cpc = "send" /\ toClient = <<>>
      BY <1>6 DEF SendRequest, BatchInv, HoldingOK
    <2>2. CASE spc # "off"
      <3>1. toServer' = <<req>> /\ cpc' = "recv" /\ UNCHANGED linked /\ spc \notin Busy
        BY <1>6, <2>1, <2>2, OneMessage DEF SendRequest, BatchInv, HoldingOK
      <3> QED BY <2>1, <3>1 DEF BatchInv, LinkOK, FilesOK, HoldingOK, FlightOK, AnswersAreTrue, serverVars
    <2>3. CASE spc = "off"
      BY <1>6, <2>1, <2>3 DEF SendRequest, BatchInv, LinkOK, FilesOK, HoldingOK, FlightOK, AnswersAreTrue, serverVars
    <2> QED BY <2>2, <2>3
  <1>7. CASE ReceiveReply
    <2>1. /\ UNCHANGED <<serverVars, req, requests, opened, linked, toServer, dataVars, files>>
          /\ cpc = "recv" /\ cpc' = "ready"
      BY <1>7 DEF ReceiveReply
    <2>2. CASE toClient # <<>>
      <3>1. PICK m : toClient = <<m>> /\ (m = Expected => Carried)
        BY <2>1, <2>2 DEF BatchInv, FlightOK
      <3>2. toClient' = <<>> /\ answered' = IF m = Expected THEN req ELSE "error"
        BY <1>7, <2>2, <3>1, OneMessage DEF ReceiveReply
      <3>3. AnswersAreTrue'
        BY <2>1, <3>1, <3>2 DEF AnswersAreTrue, Carried, dataVars
      <3>4. HoldingOK'
        BY <2>1, <2>2, <3>2 DEF BatchInv, HoldingOK, FlightOK, serverVars
      <3> QED BY <2>1, <3>3, <3>4 DEF BatchInv, LinkOK, FilesOK, FlightOK, serverVars
    <2>3. CASE toClient = <<>>
      <3>1. spc = "off" /\ answered' = "error" /\ UNCHANGED toClient
        BY <1>7, <2>3 DEF ReceiveReply
      <3> QED BY <2>1, <2>3, <3>1 DEF BatchInv, LinkOK, FilesOK, HoldingOK, FlightOK, AnswersAreTrue, serverVars
    <2> QED BY <2>2, <2>3
  <1> QED BY <1>1, <1>2, <1>3, <1>4, <1>5, <1>6, <1>7, <1>8

LEMMA BatchInvNext ==
    ASSUME BatchInv, [Next]_vars
    PROVE  BatchInv'
  <1>1. CASE UNCHANGED vars
    BY <1>1 DEF vars, serverVars, clientVars, linkVars, dataVars, daemonVars, BatchInv, LinkOK, FilesOK,
                StartOK, Quiet, HoldingOK, FlightOK, AnswersAreTrue, Carried, Expected
  <1>2. CASE Next
    BY <1>2, DaemonKeeps, StartKeeps, LoopKeeps, ReceiveRequestKeeps, HandleRequestKeeps, AnswerKeeps, ServerExitKeeps,
       ClientKeeps DEF Next, Server, Client, Connect
  <1> QED BY <1>1, <1>2

-----------------------------------------------------------------------------
\* The server goes round its loop only while it has no reason to end, so what it answers
\* is one of the two messages that the client knows.
LoopOK == /\ spc \in Blocked \cup {"work"} => outMsg = "continue"
          /\ spc = "reply" => outMsg \in {"continue", "quit"}

\* A message more or less in a FIFO.
LEMMA FifoTypes ==
    ASSUME NEW S, NEW q \in Seq(S)
    PROVE  /\ \A m \in S : Append(q, m) \in Seq(S)
           /\ q # <<>> => Head(q) \in S /\ Tail(q) \in Seq(S)
           /\ <<>> \in Seq(S)
  OBVIOUS

LEMMA TypeStep ==
    ASSUME TypeOK, LoopOK, [Next]_vars
    PROVE  TypeOK' /\ LoopOK'
  <1> USE DEF TypeOK, LoopOK, Requests, Messages, Blocked, ServerPcs, Starting, Opening, ClientPcs
  <1>1. CASE StartBatch
    <2>1. waiting' = FALSE /\ opened' = FALSE /\ linked' = FALSE
      BY <1>1 DEF StartBatch
    <2>2. waiting' \in BOOLEAN /\ opened' \in BOOLEAN /\ linked' \in BOOLEAN
      BY <2>1
    <2> QED BY <1>1, <2>2, FifoTypes DEF StartBatch, clientVars, dataVars, Starting
  <1>22. CASE RecordServer
    <2>1. recorded' = TRUE
      BY <1>22 DEF RecordServer
    <2>2. recorded' \in BOOLEAN
      BY <2>1
    <2> QED BY <1>22, <2>2 DEF RecordServer, serverVars, linkVars, dataVars
  <1>23. CASE MakeFifo \/ GrantOwner \/ CreateShmem
    <2>1. files' \subseteq Kinds \X {ClientPid, BatchPid}
      BY <1>23 DEF MakeFifo, GrantOwner, CreateShmem, Starts, Fifos, Shmem, Kinds
    <2>2. /\ spc' \in Starting \cup {"off", "push"} /\ dpc' \in {dpc, "key"}
          /\ UNCHANGED <<inMsg, outMsg, waiting, sigterm, clientVars, linkVars, dataVars, recorded, starts, excused>>
      BY <1>23 DEF MakeFifo, GrantOwner, CreateShmem, Starts, Starting
    <2> QED BY <2>1, <2>2 DEF Starting, clientVars, linkVars, dataVars
  <1>24. CASE NextClient
    BY <1>24 DEF NextClient, serverVars, linkVars, dataVars, daemonVars
  <1>2. CASE StopBatchServer
    BY <1>2 DEF StopBatchServer, clientVars, linkVars, dataVars
  <1>3. CASE RemoveBatchServer
    <2>1. recorded' = FALSE
      BY <1>3 DEF RemoveBatchServer
    <2>2. recorded' \in BOOLEAN
      BY <2>1
    <2> QED BY <1>3, <2>2 DEF RemoveBatchServer, serverVars, clientVars, linkVars, dataVars
  <1>4. CASE PushRequests
    BY <1>4 DEF PushRequests, clientVars, linkVars, dataVars, daemonVars
  <1>5. CASE LoopCheck
    BY <1>5 DEF LoopCheck, clientVars, linkVars, dataVars, daemonVars
  <1>6. CASE Terminate
    BY <1>6 DEF Terminate, clientVars, linkVars, dataVars, daemonVars
  <1>7. CASE ReceiveRequest
    <2>1. toServer' \in Seq(Requests) /\ inMsg' \in Messages
      BY <1>7, FifoTypes DEF ReceiveRequest
    <2>2. files' \subseteq files /\ spc' \in {"work", "catch"}
      BY <1>7 DEF ReceiveRequest
    <2> QED BY <1>7, <2>1, <2>2 DEF ReceiveRequest, clientVars, dataVars, daemonVars
  <1>8. CASE HandleRequest
    BY <1>8 DEF HandleRequest, clientVars, linkVars, daemonVars
  <1>9. CASE Reply
    <2>1. toClient' \in Seq({"continue", "quit"})
      BY <1>9, FifoTypes DEF Reply, Send
    <2>2. waiting' = FALSE \/ waiting' = waiting
      BY <1>9 DEF Reply
    <2>3. waiting' \in BOOLEAN
      BY <2>2
    <2> QED BY <1>9, <2>1, <2>3 DEF Reply, clientVars, dataVars, daemonVars
  <1>10. CASE Catch
    <2>1. toClient' \in Seq({"continue", "quit"})
      BY <1>10, FifoTypes DEF Catch, Send
    <2>2. waiting' = ~linked \/ waiting' = waiting
      BY <1>10 DEF Catch
    <2>3. waiting' \in BOOLEAN
      BY <2>2
    <2> QED BY <1>10, <2>1, <2>3 DEF Catch, clientVars, dataVars, daemonVars
  <1>11. CASE ServerExit
    BY <1>11 DEF ServerExit, ExitUnlinks, linkVars, dataVars, daemonVars
  <1>12. CASE Kill
    BY <1>12 DEF Kill, clientVars, linkVars, dataVars, daemonVars
  <1>13. CASE Attach
    BY <1>13 DEF Attach, serverVars, linkVars, dataVars, daemonVars
  <1>14. CASE OpenFails
    BY <1>14 DEF OpenFails, serverVars, linkVars, dataVars, daemonVars
  <1>15. CASE SendRequest
    <2>1. toServer' \in Seq(Requests)
      BY <1>15, FifoTypes, SMTT(30) DEF SendRequest
    <2>2. linked' = FALSE \/ linked' = linked
      BY <1>15 DEF SendRequest
    <2>3. linked' \in BOOLEAN
      BY <2>2
    <2> QED BY <1>15, <2>1, <2>3 DEF SendRequest, serverVars, dataVars, daemonVars
  <1>16. CASE ReceiveReply
    <2>1. toClient' \in Seq({"continue", "quit"})
      BY <1>16, FifoTypes DEF ReceiveReply
    <2> QED BY <1>16, <2>1 DEF ReceiveReply, serverVars, dataVars, daemonVars
  <1>17. CASE OpenOut
    BY <1>17 DEF OpenOut, linkVars, dataVars, daemonVars
  <1>18. CASE OpenIn
    BY <1>18 DEF OpenIn, dataVars, daemonVars
  <1>19. CASE Leave
    <2>1. linked' = FALSE
      BY <1>19 DEF Leave
    <2>2. linked' \in BOOLEAN
      BY <2>1
    <2> QED BY <1>19, <2>2 DEF Leave, serverVars, dataVars, daemonVars
  <1>20. CASE \E m \in Requests : Request(m)
    BY <1>20 DEF Request, serverVars, linkVars, daemonVars
  <1>21. CASE UNCHANGED vars
    BY <1>21 DEF vars, serverVars, clientVars, linkVars, dataVars, daemonVars
  <1> QED
    BY <1>1, <1>2, <1>3, <1>4, <1>5, <1>6, <1>7, <1>8, <1>9, <1>10, <1>11, <1>12, <1>13, <1>14, <1>15,
       <1>16, <1>17, <1>18, <1>19, <1>20, <1>21, <1>22, <1>23, <1>24 DEF Next, Server, Client, Connect

\* The FIFOs carry only the messages that their readers know, and every variable keeps
\* its type.
THEOREM TypesHold == Spec => []TypeOK
  <1>1. ASSUME Init PROVE TypeOK /\ LoopOK
    <2>1. waiting = FALSE /\ opened = FALSE /\ linked = FALSE /\ recorded = FALSE
      BY <1>1 DEF Init
    <2>2. waiting \in BOOLEAN /\ opened \in BOOLEAN /\ linked \in BOOLEAN /\ recorded \in BOOLEAN
      BY <2>1
    <2> QED BY <1>1, <2>2 DEF Init, TypeOK, LoopOK, Requests, Messages, Blocked, ServerPcs, Starting, Opening, ClientPcs
  <1> QED BY <1>1, TypeStep, PTL DEF Spec

-----------------------------------------------------------------------------
\* A request that returned without an error was carried out for this call, however the
\* server, the client and the daemon interleave, and whoever fails or is killed.
THEOREM RepliesAreTrue == Spec => []AnswersAreTrue
  <1>1. BatchInv => AnswersAreTrue
    BY DEF BatchInv
  <1> QED BY <1>1, BatchInvInit, BatchInvNext, PTL DEF Spec

\* A server leaves only files that it found, or that it had when it was killed, also when it
\* ends because its client has closed the FIFO while it was answering, and when it cannot
\* start: except if its client is gone before it was given the FIFOs, or if it finds the
\* second of them.
THEOREM ServersCleanUp == Spec => NothingLeftOver
  <1>1. ASSUME BatchInv, [Next]_vars
        PROVE  [spc # "off" /\ spc' = "off" =>
                  files' \subseteq excused' \/ (spc = "owner" /\ cpc = "dead") \/ (spc = "out" /\ excused # {})]_vars
    <2> SUFFICES ASSUME spc # "off", spc' = "off", Next
                 PROVE  \/ files' \subseteq excused' \/ (spc = "owner" /\ cpc = "dead")
                        \/ (spc = "out" /\ excused # {})
      BY <1>1 DEF vars, serverVars
    <2>1. CASE ServerExit
      BY <1>1, <2>1, FileNames DEF ServerExit, ExitUnlinks, Names, BatchInv, FilesOK
    <2>2. CASE Reply \/ Catch
      BY <1>1, <2>2 DEF Reply, Catch, BatchInv, FilesOK, Busy
    <2>3. CASE Kill
      BY <2>3 DEF Kill
    <2>4. CASE MakeFifo
      <3>1. <<spc, ClientPid>> \in files /\ UNCHANGED <<files, excused>> /\ spc \in {"in", "out"}
        BY <2>4 DEF MakeFifo, Starts
      <3>2. CASE spc = "in"
        BY <1>1, <3>1, <3>2 DEF BatchInv, StartOK
      <3>3. CASE spc = "out"
        <4>1. <<"out", ClientPid>> # <<"in", ClientPid>>
          OBVIOUS
        <4>2. <<"out", ClientPid>> \in excused
          BY <1>1, <3>1, <3>3, <4>1 DEF BatchInv, StartOK
        <4> QED BY <3>3, <4>2
      <3> QED BY <3>1, <3>2, <3>3
    <2>5. CASE GrantOwner
      BY <2>5 DEF GrantOwner, Starts
    <2>6. CASE CreateShmem
      BY <1>1, <2>6 DEF CreateShmem, Starts, BatchInv, StartOK
    <2>7. ~(PushRequests \/ LoopCheck \/ Terminate \/ ReceiveRequest \/ HandleRequest)
      BY DEF PushRequests, LoopCheck, Terminate, ReceiveRequest, HandleRequest
    <2>8. ~(StartBatch \/ RecordServer \/ StopBatchServer \/ RemoveBatchServer)
      BY DEF StartBatch, RecordServer, StopBatchServer, RemoveBatchServer, serverVars
    <2>9. ~(Client \/ Connect \/ Leave \/ NextClient \/ \E m \in Requests : Request(m))
      BY DEF Client, Connect, Leave, NextClient, Request, Attach, OpenFails, SendRequest, ReceiveReply, OpenOut,
             OpenIn, serverVars
    <2> QED BY <2>1, <2>2, <2>3, <2>4, <2>5, <2>6, <2>7, <2>8, <2>9 DEF Next, Server
  <1> QED BY <1>1, BatchInvInit, BatchInvNext, PTL DEF Spec, NothingLeftOver

-----------------------------------------------------------------------------
(* The optimizer *)

\* A function from a finite set to numbers has a least value.
LEMMA LeastValue ==
    ASSUME NEW K, IsFiniteSet(K), K # {}, NEW f \in [K -> Int]
    PROVE  \E k \in K : \A j \in K : f[k] <= f[j]
  <1> DEFINE T == {-f[k] : k \in K}
             g == [k \in K |-> -f[k]]
  <1>1. g \in Surjection(K, T)
    BY DEF Surjection
  <1>2. IsFiniteSet(T)
    BY <1>1, FS_Surjection
  <1>3. T \subseteq Int /\ T # {}
    OBVIOUS
  <1>4. Max(T) \in T /\ \A y \in T : Max(T) >= y
    <2> HIDE DEF T
    <2> QED BY <1>2, <1>3, GreatestNumber
  <1>5. PICK k \in K : Max(T) = -f[k]
    BY <1>4
  <1>6. ASSUME NEW j \in K PROVE f[k] <= f[j]
    <2>1. -f[k] >= -f[j]
      BY <1>4, <1>5
    <2> QED BY <2>1
  <1> QED BY <1>6

\* The score of a trial that met the constraint: only the objective counts.
Signed(c, raw) == (IF ObjectiveOf(c).minimize THEN raw ELSE -raw) * Bound

\* An entry of the history that is not a failure says what was measured.
EntryOK(c, e) ==
    ~e.failed =>
        /\ e.raw \in Int /\ e.limited \in Int /\ e.score \in Int
        /\ e.feasible <=> ViolationOf(ObjectiveOf(c).op, e.limited) = 0
        /\ e.feasible => e.score = Signed(c, e.raw)

\* The induction hypothesis.
OptInv ==
    /\ objScale \in Int
    /\ \E S : history \in Seq(S)
    /\ \A k \in DOMAIN history : EntryOK(cli, history[k])
    /\ best # 0 => optPhase \in {"ending", "ended"} /\ best = SelectBestEntry

\* What a list holds after something was put at its end, whatever it is.
LEMMA Appended ==
    ASSUME NEW h, \E S : h \in Seq(S), NEW e
    PROVE  /\ \E S : Append(h, e) \in Seq(S)
           /\ DOMAIN Append(h, e) = 1..Len(h) + 1
           /\ DOMAIN h = 1..Len(h) /\ Len(h) \in Nat
           /\ Append(h, e)[Len(h) + 1] = e
           /\ \A k \in DOMAIN h : Append(h, e)[k] = h[k]
  <1>1. PICK S : h \in Seq(S)
    OBVIOUS
  <1>2. h \in Seq(S \cup {e})
    BY <1>1
  <1>3. Append(h, e) \in Seq(S \cup {e})
    BY <1>2
  <1> QED BY <1>2, <1>3

\* A constraint that is met is not violated; one that includes its bound is met if it is
\* not violated.
LEMMA ViolationIs ==
    ASSUME NEW op, NEW m \in Int
    PROVE  /\ ViolationOf(op, m) \in Int
           /\ Satisfied(op, m) => ViolationOf(op, m) = 0
           /\ op \in {"none", "<=", ">=", "=="} /\ ViolationOf(op, m) = 0 => Satisfied(op, m)
  <1>1. Bound \in Int
    BY OptimizerAssumption
  <1>2. Abs(m - Bound) \in Int /\ (Abs(m - Bound) = 0 => m = Bound)
    BY <1>1 DEF Abs
  <1>3. ViolationOf(op, m) = IF Satisfied(op, m) THEN 0 ELSE Abs(m - Bound)
    BY DEF ViolationOf
  <1>4. op \in {"none", "<=", ">=", "=="} /\ m = Bound => Satisfied(op, m)
    <2>1. Satisfied("none", m) /\ (m = Bound => Satisfied("<=", m) /\ Satisfied(">=", m) /\ Satisfied("==", m))
      BY <1>1 DEF Satisfied
    <2> QED BY <2>1
  <1> QED BY <1>2, <1>3, <1>4

\* A trial that was measured gets an entry that says so.
LEMMA MeasuredEntry ==
    ASSUME objScale \in Int, NEW raw \in Measures, NEW m \in Measures
    PROVE  /\ ScaleAfter(raw) \in Int
           /\ EntryOK(cli, [coord |-> cur, failed |-> FALSE, score |-> ScoreTrial(ObjectiveOf(cli), raw, m),
                       feasible |-> ViolationOf(ObjectiveOf(cli).op, m) = 0, raw |-> raw, limited |-> m])
  <1>1. raw \in Int /\ m \in Int /\ Bound \in Int
    BY OptimizerAssumption
  <1>2. ScaleAfter(raw) \in Int
    BY <1>1, MaxMinOfTwo DEF ScaleAfter
  <1> DEFINE o == ObjectiveOf(cli)
             factor == IF ScaleAfter(raw) = 0 THEN 1 ELSE ScaleAfter(raw)
             v == ViolationOf(o.op, m)
  <1>3. factor \in Int /\ v \in Int /\ Signed(cli, raw) \in Int
    BY <1>1, <1>2, ViolationIs DEF Signed
  <1>4. ScoreTrial(o, raw, m) = Signed(cli, raw) + factor * v
    BY DEF ScoreTrial, Signed
  <1> HIDE DEF factor, v
  <1>5. ScoreTrial(o, raw, m) \in Int /\ (v = 0 => ScoreTrial(o, raw, m) = Signed(cli, raw))
    BY <1>3, <1>4
  <1> QED BY <1>1, <1>2, <1>5 DEF EntryOK, v

\* The history is empty before the first trial.
LEMMA OptInvInit == OptInit => OptInv
  <1> SUFFICES ASSUME OptInit PROVE OptInv
    OBVIOUS
  <1>1. history \in Seq({}) /\ history = <<>> /\ objScale = -1 /\ best = 0
    BY DEF OptInit
  <1> QED BY <1>1 DEF OptInv

\* The choice of the best entry depends on the history alone.
LEMMA SelectKept ==
    ASSUME UNCHANGED history
    PROVE  SelectBestEntry' = SelectBestEntry
  BY DEF SelectBestEntry, Successes

\* Every entry is put at the end of the history as it was measured, and the best is selected
\* when the last trial is over, after which the history stays as it is.
LEMMA OptInvNext == OptInv /\ [OptNext]_optVars => OptInv'
  <1> SUFFICES ASSUME OptInv, [OptNext]_optVars PROVE OptInv'
    OBVIOUS
  <1> DEFINE Entries == \A k \in DOMAIN history : EntryOK(cli, history[k])
             Chosen == best # 0 => optPhase \in {"ending", "ended"} /\ best = SelectBestEntry
             Listed == \E S : history \in Seq(S)
             Same == /\ UNCHANGED <<cli, history, objScale, best>>
                     /\ optPhase \in {"ending", "ended"} => optPhase' \in {"ending", "ended"}
  <1>1. ASSUME Same PROVE OptInv'
    <2>1. SelectBestEntry' = SelectBestEntry
      BY <1>1, SelectKept
    <2>2. objScale' \in Int /\ Listed' /\ Entries'
      BY <1>1 DEF OptInv
    <2>3. Chosen'
      BY <1>1, <2>1 DEF OptInv
    <2> QED BY <2>2, <2>3 DEF OptInv
  <1>2. ASSUME NEW e, EntryOK(cli, e), history' = Append(history, e), objScale' \in Int, UNCHANGED <<cli, best>>,
               optPhase = "running"
        PROVE  OptInv'
    <2>1. best = 0
      BY <1>2 DEF OptInv
    <2>2. Listed'
      BY <1>2, Appended DEF OptInv
    <2>3. ASSUME NEW k \in DOMAIN history' PROVE EntryOK(cli, history'[k])
      BY <1>2, Appended DEF OptInv
    <2>4. Entries'
      BY <1>2, <2>3
    <2> QED BY <1>2, <2>1, <2>2, <2>4 DEF OptInv
  <1>3. CASE Save \/ BuildAll \/ StrayEnds \/ TrialAborts \/ Restore \/ UNCHANGED optVars
    <2>1. Same
      BY <1>3 DEF Save, BuildAll, StrayEnds, TrialAborts, Restore, optVars
    <2> QED BY <1>1, <2>1
  <1>4. ASSUME NEW x, Launch(x) \/ LaunchFails(x) PROVE OptInv'
    <2>1. Same
      BY <1>4 DEF Launch, LaunchFails
    <2> QED BY <1>1, <2>1
  <1>5. ASSUME optPhase = "running", RecordFailure, UNCHANGED <<cli, objScale, best>> PROVE OptInv'
    <2> DEFINE e == [coord |-> cur, failed |-> TRUE, score |-> PenaltyValue, feasible |-> FALSE,
                     raw |-> 0, limited |-> 0]
    <2>1. EntryOK(cli, e)
      BY DEF EntryOK
    <2>2. CASE cli.penalty = "none"
      BY <1>1, <1>5, <2>2 DEF RecordFailure
    <2>3. CASE cli.penalty # "none"
      <3>1. history' = Append(history, e) /\ objScale' \in Int
        BY <1>5, <2>3 DEF RecordFailure, OptInv
      <3> HIDE DEF e
      <3> QED BY <1>2, <1>5, <2>1, <3>1
    <2> QED BY <2>2, <2>3
  <1>6. CASE TrialFails \/ TrialTimesOut
    BY <1>5, <1>6 DEF TrialFails, TrialTimesOut
  <1>7. ASSUME NEW raw \in Measures, NEW m \in Measures, EvaluateDirect(raw, m) \/ EvaluateSession(raw, m)
        PROVE  OptInv'
    <2> DEFINE e == [coord |-> cur, failed |-> FALSE, score |-> ScoreTrial(ObjectiveOf(cli), raw, m),
                     feasible |-> ViolationOf(ObjectiveOf(cli).op, m) = 0, raw |-> raw, limited |-> m]
    <2>1. optPhase = "running" /\ Measured(raw, m)
      BY <1>7 DEF EvaluateDirect, EvaluateSession
    <2>2. ScaleAfter(raw) \in Int /\ EntryOK(cli, e)
      BY MeasuredEntry DEF OptInv
    <2>3. history' = Append(history, e) /\ objScale' \in Int /\ UNCHANGED <<cli, best>>
      BY <2>1, <2>2 DEF Measured
    <2> HIDE DEF e
    <2> QED BY <1>2, <2>1, <2>2, <2>3
  <1>8. CASE Report
    <2>1. SelectBestEntry' = SelectBestEntry
      BY <1>8, SelectKept DEF Report
    <2>2. objScale' \in Int /\ Listed' /\ Entries'
      BY <1>8 DEF OptInv, Report
    <2>3. best' = best \/ best' = SelectBestEntry
      BY <1>8 DEF Report
    <2>4. optPhase' = "ending" /\ best = 0
      BY <1>8 DEF OptInv, Report
    <2>5. Chosen'
      BY <2>1, <2>3, <2>4
    <2> QED BY <2>2, <2>5 DEF OptInv
  <1> QED BY <1>3, <1>4, <1>6, <1>7, <1>8 DEF OptNext, OptDone

\* Among trials that met the constraint the one selected has the least score.
LEMMA SelectsLeast ==
    ASSUME OptInv, NEW k \in Successes, history[k].feasible
    PROVE  /\ SelectBestEntry \in Successes /\ history[SelectBestEntry].feasible
           /\ history[SelectBestEntry].score <= history[k].score
  <1> DEFINE pool == {j \in Successes : history[j].feasible}
             f == [j \in pool |-> history[j].score]
             First(j) == \A i \in pool : history[j].score < history[i].score
                                        \/ (history[j].score = history[i].score /\ j <= i)
  <1>1. DOMAIN history = 1..Len(history) /\ Len(history) \in Nat
    BY Appended DEF OptInv
  <1>2. pool \subseteq 1..Len(history) /\ k \in pool
    BY <1>1 DEF Successes
  <1>3. IsFiniteSet(pool)
    <2>1. IsFiniteSet(1..Len(history))
      BY <1>1, FS_Interval
    <2> QED BY <1>2, <2>1, FS_Subset
  <1>4. \A j \in pool : history[j].score \in Int
    BY <1>1 DEF OptInv, EntryOK, Successes
  <1>5. PICK l \in pool : \A j \in pool : f[l] <= f[j]
    <2> HIDE DEF pool
    <2> QED BY <1>2, <1>3, <1>4, LeastValue
  <1>6. \A j \in pool : history[l].score <= history[j].score
    BY <1>5
  <1> DEFINE least == {j \in pool : history[j].score = history[l].score}
  <1>7. least \subseteq Nat /\ least # {}
    BY <1>2, <1>5
  <1>8. PICK j \in least : \A i \in least : j <= i
    <2> HIDE DEF least
    <2> QED BY <1>7, LeastNatural
  <1>9. First(j)
    <2> SUFFICES ASSUME NEW i \in pool
                 PROVE  history[j].score < history[i].score \/ (history[j].score = history[i].score /\ j <= i)
      OBVIOUS
    <2>1. history[l].score <= history[i].score /\ history[j].score = history[l].score /\ j \in pool
      BY <1>6, <1>8
    <2>2. history[i].score \in Int /\ history[j].score \in Int
      BY <1>4, <2>1
    <2>3. history[i].score = history[j].score => i \in least
      BY <2>1
    <2> QED BY <1>8, <2>1, <2>2, <2>3
  <1>10. SelectBestEntry = CHOOSE i \in pool : First(i)
    BY <1>2 DEF SelectBestEntry
  <1>11. j \in pool
    BY <1>8
  <1> HIDE DEF First, pool
  <1>12. SelectBestEntry \in pool /\ First(SelectBestEntry)
    BY <1>9, <1>10, <1>11
  <1> QED
    <2>1. \A i \in pool : i \in Successes /\ history[i].feasible
      BY DEF pool
    <2>2. \A i \in pool : First(i) => history[i].score <= history[k].score
      BY <1>2, <1>4 DEF First
    <2> QED BY <1>12, <2>1, <2>2

\* The objective of one trial is better than that of another if its score is less.
LEMMA ScoreIsObjective ==
    ASSUME NEW c, NEW a \in Int, NEW b \in Int, Signed(c, a) <= Signed(c, b)
    PROVE  IF ObjectiveOf(c).minimize THEN a <= b ELSE a >= b
  <1>1. Bound \in Nat /\ Bound > 0
    BY OptimizerAssumption
  <1>2. \A x, y \in Int, n \in Nat : n > 0 /\ x * n <= y * n => x <= y
    OBVIOUS
  <1>3. CASE ObjectiveOf(c).minimize
    BY <1>1, <1>2, <1>3 DEF Signed
  <1>4. CASE ~ObjectiveOf(c).minimize
    <2>1. Signed(c, a) = (-a) * Bound /\ Signed(c, b) = (-b) * Bound
      BY <1>4 DEF Signed
    <2>2. -a <= -b
      BY <1>1, <1>2, <2>1
    <2> QED BY <2>2, <1>4
  <1> QED BY <1>3, <1>4

\* What is reported is the best of the trials that met the constraint, whenever one did, for
\* any measures, any penalty and any scale of it: the scale grows from trial to trial, and
\* the scores that it made no comparison of two trials that met the constraint depend on.
THEOREM BestIsFound == OptSpec => []BestFound
  <1>1. OptInv => BestFound
    <2> SUFFICES ASSUME OptInv, best # 0, ObjectiveOf(cli).op \in {"none", "<=", ">=", "=="},
                        NEW k \in Successes, Satisfied(ObjectiveOf(cli).op, history[k].limited)
                 PROVE  /\ Satisfied(ObjectiveOf(cli).op, history[best].limited)
                        /\ IF ObjectiveOf(cli).minimize THEN history[best].raw <= history[k].raw
                           ELSE history[best].raw >= history[k].raw
      BY DEF BestFound
    <2>1. k \in DOMAIN history /\ ~history[k].failed /\ EntryOK(cli, history[k])
      BY DEF Successes, OptInv
    <2>2. history[k].feasible
      BY <2>1, ViolationIs DEF EntryOK
    <2>3. best \in Successes /\ history[best].feasible /\ history[best].score <= history[k].score
      BY <2>2, SelectsLeast DEF OptInv
    <2>4. EntryOK(cli, history[best]) /\ ~history[best].failed
      BY <2>3 DEF Successes, OptInv
    <2>5. Satisfied(ObjectiveOf(cli).op, history[best].limited)
      BY <2>3, <2>4, ViolationIs DEF EntryOK
    <2>6. Signed(cli, history[best].raw) <= Signed(cli, history[k].raw)
      BY <2>1, <2>2, <2>3, <2>4 DEF EntryOK
    <2>7. history[best].raw \in Int /\ history[k].raw \in Int
      BY <2>1, <2>4 DEF EntryOK
    <2> QED BY <2>5, <2>6, <2>7, ScoreIsObjective
  <1> QED BY <1>1, OptInvInit, OptInvNext, PTL DEF OptSpec

=============================================================================
