------------------------------ MODULE Session ------------------------------
(***************************************************************************)
(* How a RemoteFDB and a RemoteHandler find each other: the server forks a *)
(* process, or starts a thread, for each control connection; the handler   *)
(* takes a data port from a list that all processes of the host share, and *)
(* client and handler send each other their session IDs twice (FdbServer,  *)
(* AvailablePortList, RemoteHandler::initialiseConnections,                *)
(* RemoteFDB::connect).                                                    *)
(*                                                                         *)
(* A control connection is named after the client that opened it, and its  *)
(* handler after the connection; so are the two session IDs.  The network  *)
(* may mispair connections ("sessions were being mispaired by the network  *)
(* stack", RemoteFDB.cc), and a port may belong to another handler by the  *)
(* time a client connects to it.                                           *)
(***************************************************************************)
EXTENDS Naturals, Sequences, FiniteSets, FiniteSetsExt, SequencesExt

CONSTANTS
    Modes,         \* what serverThreaded may be: "forked", "threaded"; "off": no server
    Clients,       \* RemoteFDB objects that connect
    Unsupported,   \* those among them whose protocol version the server does not support
    Pids,          \* process numbers: they are used again
    PortCount,     \* dataPortCount
    Services,      \* the ports /etc/services names
    LateServices,  \* the ports getservbyport knows besides
    ReapAfter,     \* the dead time of reap()
    MaxTime, MaxStarts, MaxFaults   \* bounds: the clock, starts of the server, network faults

ASSUME SessionAssumption ==
    /\ Unsupported \subseteq Clients
    /\ Pids \subseteq Nat \ {0}
    /\ {PortCount, ReapAfter} \subseteq Nat \ {0}
    /\ IsFiniteSet(Services) /\ Services \cup LateServices \subseteq Nat \ {0}
    /\ {MaxTime, MaxStarts, MaxFaults} \subseteq Nat

VARIABLES
    mode,        \* how the server runs handlers
    serverPid,   \* 0: it does not run
    ports,       \* shared_: a sequence of [port, pid, deadTime]; port 0 is not initialised
    now,         \* the time
    peer,        \* per control connection: the client at its other end
    clientPc,    \* "new", "sent", "data", "connected", "gone" (failed, disconnected or dead)
    dataPort,    \* per client: dataEndpoint_
    handlerPc,   \* "none", "queued", "select", "ready", "accept", "main", "ended"
    handlerPid, handlerPort,
    replied,     \* the handlers whose Startup reply is, or was, in the connection
    backlog,     \* per handler: data connections it has not accepted, with their session IDs
    dataFrom,    \* per handler: the client of its data connection, or "none"
    count        \* starts of the server, network faults

svars == <<mode, serverPid, ports, now, peer, clientPc, dataPort, handlerPc, handlerPid,
           handlerPort, replied, backlog, dataFrom, count>>
handler == <<handlerPc, handlerPid, handlerPort, replied, backlog, dataFrom>>
network == <<peer, clientPc, dataPort>>

SessionInit ==
    /\ mode \in Modes
    /\ serverPid = 0 /\ now = 1
    /\ ports = [i \in 1..PortCount |-> [port |-> 0, pid |-> 0, deadTime |-> 0]]
    /\ peer = [c \in Clients |-> c]
    /\ clientPc = [c \in Clients |-> "new"] /\ dataPort = [c \in Clients |-> 0]
    /\ handlerPc = [h \in Clients |-> "none"]
    /\ handlerPid = [h \in Clients |-> 0] /\ handlerPort = [h \in Clients |-> 0]
    /\ replied = {} /\ backlog = [h \in Clients |-> <<>>]
    /\ dataFrom = [h \in Clients |-> "none"]
    /\ count = [starts |-> 0, faults |-> 0]

Live == {h \in Clients : handlerPc[h] \in {"select", "ready", "accept", "main"}}
isRunning(pid) == pid = serverPid \/ \E h \in Live : handlerPid[h] = pid
FreshPids == {pid \in Pids : ~isRunning(pid)}

(* What is left of a handler is its reply. *)
EndAll(H) ==
    /\ handlerPc' = [h \in Clients |-> IF h \in H THEN "ended" ELSE handlerPc[h]]
    /\ handlerPid' = [h \in Clients |-> IF h \in H THEN 0 ELSE handlerPid[h]]
    /\ backlog' = [h \in Clients |-> IF h \in H THEN <<>> ELSE backlog[h]]
    /\ dataFrom' = [h \in Clients |-> IF h \in H THEN "none" ELSE dataFrom[h]]

----------------------------------------------------------------------------
(* The list of ports.  Each operation holds the lock of the shared memory.  *)

(* readServices, and the ports from startPort_ (here 1) that are left. *)
FreePort[i \in 0..PortCount] ==
    IF i = 0 THEN 0
    ELSE Min({p \in 1..PortCount + Cardinality(Services) : p > FreePort[i - 1] /\ p \notin Services})

(* initialise(): the list outlives the server, so only the first one does it. *)
Initialised ==
    IF \E i \in 1..PortCount : ports[i].port = 0
    THEN [i \in 1..PortCount |-> [port |-> FreePort[i], pid |-> 0, deadTime |-> 0]]
    ELSE ports

(* doRun(): the list, the thread that reaps, the socket. *)
StartServer ==
    /\ mode # "off" /\ serverPid = 0 /\ count.starts < MaxStarts
    /\ \E pid \in FreshPids : serverPid' = pid
    /\ ports' = Initialised
    /\ count' = [count EXCEPT !.starts = @ + 1]
    /\ UNCHANGED <<mode, now, network, handler>>

Unowned == {i \in 1..PortCount : ports[i].pid = 0}
Usable == {i \in Unowned : ports[i].port \notin LateServices}

(* acquire(): those that turn out to belong to a service are taken as well. *)
SelectDataPort(h) ==
    LET chosen == IF Usable = {} THEN PortCount + 1 ELSE Min(Usable)
        taken == {i \in Unowned \cup Usable : i <= chosen}
    IN
    /\ handlerPc[h] = "select"
    /\ ports' = [i \in 1..PortCount |->
                    IF i \in taken THEN [ports[i] EXCEPT !.pid = handlerPid[h], !.deadTime = 0]
                    ELSE ports[i]]
    /\ IF Usable = {}   \* "Data ports exhausted"
       THEN EndAll({h}) /\ UNCHANGED handlerPort
       ELSE /\ handlerPc' = [handlerPc EXCEPT ![h] = "ready"]
            /\ handlerPort' = [handlerPort EXCEPT ![h] = ports[chosen].port]
            /\ UNCHANGED <<handlerPid, backlog, dataFrom>>
    /\ UNCHANGED <<mode, serverPid, now, network, replied, count>>

(* A process that has ended keeps its port for the dead time. *)
Reaped(e) ==
    IF e.deadTime # 0 THEN
        IF now - e.deadTime >= ReapAfter THEN [e EXCEPT !.pid = 0, !.deadTime = 0] ELSE e
    ELSE IF e.pid # 0 /\ ~isRunning(e.pid) THEN [e EXCEPT !.deadTime = now]
    ELSE e

(* The server goes: its threads with it, not its children. *)
ServerGone ==
    /\ serverPid' = 0
    /\ EndAll({h \in Clients : handlerPc[h] = "queued" \/ (mode = "threaded" /\ h \in Live)})

(* reap(): an assertion fails at the first dead entry whose process number   *)
(* is in use again, outside any try block of the thread.                     *)
Reap ==
    LET reborn == {i \in 1..PortCount : ports[i].deadTime # 0 /\ isRunning(ports[i].pid)} IN
    /\ serverPid # 0
    /\ ports' = [i \in 1..PortCount |->
                    IF \A j \in reborn : i < j THEN Reaped(ports[i]) ELSE ports[i]]
    /\ IF reborn = {} THEN UNCHANGED <<serverPid, handler>> ELSE ServerGone /\ UNCHANGED <<handlerPort, replied>>
    /\ UNCHANGED <<mode, now, network, count>>

Tick ==
    /\ serverPid # 0 /\ now < MaxTime /\ now' = now + 1
    /\ UNCHANGED <<mode, serverPid, ports, network, handler, count>>

ServerCrash ==
    /\ serverPid # 0 /\ ServerGone
    /\ UNCHANGED <<mode, ports, now, network, handlerPort, replied, count>>

----------------------------------------------------------------------------
(* Connecting.                                                              *)

Becomes(c, pc) == clientPc' = [clientPc EXCEPT ![c] = pc]

(* RemoteFDB::connect: the control connection, and the Startup message with  *)
(* the session ID of the client.                                             *)
ConnectControl(c) ==
    /\ mode # "off" /\ clientPc[c] = "new"
    /\ IF serverPid # 0
       THEN Becomes(c, "sent") /\ handlerPc' = [handlerPc EXCEPT ![c] = "queued"]
       ELSE Becomes(c, "gone") /\ UNCHANGED handlerPc   \* TooManyRetries
    /\ UNCHANGED <<mode, serverPid, ports, now, peer, dataPort, handlerPid, handlerPort, replied,
                   backlog, dataFrom, count>>

(* FDBForker, or FDBServerThread. *)
StartHandler(h) ==
    /\ serverPid # 0 /\ handlerPc[h] = "queued"
    /\ handlerPc' = [handlerPc EXCEPT ![h] = "select"]
    /\ \E pid \in IF mode = "threaded" THEN {serverPid} ELSE FreshPids :
          handlerPid' = [handlerPid EXCEPT ![h] = pid]
    /\ UNCHANGED <<mode, serverPid, ports, now, network, handlerPort, replied, backlog, dataFrom,
                   count>>

(* No version of the protocol, or of its parts, that both sides know. *)
Refused(h) == h \in Unsupported

(* initialiseConnections, the first half: the port and both session IDs.  A  *)
(* client that is refused is sent an Error besides, and the handler goes on  *)
(* to its main loop without a data connection.                               *)
Reply(h) ==
    /\ handlerPc[h] = "ready"
    /\ handlerPc' = [handlerPc EXCEPT ![h] = IF Refused(h) THEN "main" ELSE "accept"]
    /\ replied' = replied \cup {h}
    /\ UNCHANGED <<mode, serverPid, ports, now, network, handlerPid, handlerPort, backlog, dataFrom,
                   count>>

(* verifyServerStartupResponse: the client session in the reply must be its own. *)
ReadReply(h) ==
    LET c == peer[h] IN
    /\ clientPc[c] = "sent"
    /\ \/ /\ h \in replied
          /\ IF h = c THEN Becomes(c, "data") /\ dataPort' = [dataPort EXCEPT ![c] = handlerPort[h]]
             ELSE Becomes(c, "gone") /\ UNCHANGED dataPort
       \/ h \notin replied /\ handlerPc[h] = "ended" /\ Becomes(c, "gone") /\ UNCHANGED dataPort
    /\ UNCHANGED <<mode, serverPid, ports, now, peer, handler, count>>

(* The socket listens from when it was made until it has accepted. *)
Listening(h) == handlerPc[h] \in {"ready", "accept"} \/ (handlerPc[h] = "main" /\ Refused(h))

(* The data connection goes to whoever has the port now, or somewhere else,  *)
(* and the client takes itself to be connected: nothing is sent back.        *)
ConnectData(c) ==
    /\ clientPc[c] = "data"
    /\ \/ \E h \in Clients :
             /\ Listening(h)
             /\ IF handlerPort[h] = dataPort[c] THEN UNCHANGED count
                ELSE /\ count.faults < MaxFaults
                     /\ count' = [count EXCEPT !.faults = @ + 1]
             /\ Becomes(c, "connected")
             /\ backlog' = [backlog EXCEPT ![h] = Append(@, [client |-> c, server |-> c])]
       \/ /\ \A h \in Clients : Listening(h) => handlerPort[h] # dataPort[c]
          /\ Becomes(c, "gone")   \* TooManyRetries
          /\ UNCHANGED <<backlog, count>>
    /\ UNCHANGED <<mode, serverPid, ports, now, peer, dataPort, handlerPc, handlerPid, handlerPort,
                   replied, dataFrom>>

AcceptData_Trusting(h) ==   \* mutant: the session IDs are not looked at
    /\ handlerPc[h] = "accept" /\ backlog[h] # <<>>
    /\ handlerPc' = [handlerPc EXCEPT ![h] = "main"]
    /\ dataFrom' = [dataFrom EXCEPT ![h] = backlog[h][1].client]
    /\ backlog' = [backlog EXCEPT ![h] = <<>>]
    /\ UNCHANGED <<mode, serverPid, ports, now, network, handlerPid, handlerPort, replied, count>>

(* The second half: the data connection brings both session IDs. *)
AcceptData(h) ==
    /\ handlerPc[h] = "accept" /\ backlog[h] # <<>>
    /\ LET startup == backlog[h][1] IN
       IF startup.client = h /\ startup.server = h
       THEN /\ handlerPc' = [handlerPc EXCEPT ![h] = "main"]
            /\ dataFrom' = [dataFrom EXCEPT ![h] = startup.client]
            /\ backlog' = [backlog EXCEPT ![h] = <<>>]   \* no other is ever accepted
            /\ UNCHANGED handlerPid
       ELSE EndAll({h})
    /\ UNCHANGED <<mode, serverPid, ports, now, network, handlerPort, replied, count>>

(* disconnect(), or the client's process ends. *)
ClientGone(c) ==
    /\ clientPc[c] \in {"sent", "data", "connected"}
    /\ Becomes(c, "gone")
    /\ UNCHANGED <<mode, serverPid, ports, now, peer, dataPort, handler, count>>

(* Exit, or the end of the control connection: only the main loop reads it. *)
HandlerEnded(h) ==
    /\ handlerPc[h] = "main" /\ clientPc[peer[h]] = "gone"
    /\ EndAll({h})
    /\ UNCHANGED <<mode, serverPid, ports, now, network, handlerPort, replied, count>>

HandlerCrash(h) ==
    /\ mode = "forked" /\ h \in Live
    /\ EndAll({h})
    /\ UNCHANGED <<mode, serverPid, ports, now, network, handlerPort, replied, count>>

(* The network mispairs two control connections that are being set up. *)
Mispair(h, g) ==
    /\ h # g /\ clientPc[peer[h]] = "sent" /\ clientPc[peer[g]] = "sent"
    /\ count.faults < MaxFaults /\ count' = [count EXCEPT !.faults = @ + 1]
    /\ peer' = [peer EXCEPT ![h] = peer[g], ![g] = peer[h]]
    /\ UNCHANGED <<mode, serverPid, ports, now, clientPc, dataPort, handler>>

SessionNext ==
    \/ StartServer \/ Reap \/ Tick \/ ServerCrash
    \/ \E c \in Clients : ConnectControl(c) \/ ConnectData(c) \/ ClientGone(c)
    \/ \E h \in Clients :
          \/ StartHandler(h) \/ SelectDataPort(h) \/ Reply(h) \/ ReadReply(h) \/ AcceptData(h)
          \/ HandlerEnded(h) \/ HandlerCrash(h)
    \/ \E h, g \in Clients : Mispair(h, g)

SessionSpec == SessionInit /\ [][SessionNext]_svars

----------------------------------------------------------------------------
(***************************************************************************)
(* Both connections of a handler that serves lead to one client, and that  *)
(* client is the one whose requests it reads; two live handlers never have *)
(* the same port, though ports and process numbers are used again, and     *)
(* none has the port of a service.  This holds with mispaired connections, *)
(* late clients, restarts of the server and reused process numbers ("this  *)
(* allows clients and servers to be sure that they are connected to the    *)
(* correct endpoint", RemoteFDB.cc).                                       *)
(***************************************************************************)
SessionsPaired ==
    /\ \A h \in Live :
          handlerPc[h] = "main" /\ ~Refused(h) => dataFrom[h] = h /\ peer[h] = h
    /\ \A h, g \in Live : h # g /\ handlerPort[h] # 0 => handlerPort[h] # handlerPort[g]
    /\ \A h \in Live : handlerPort[h] \notin Services \cup LateServices
=============================================================================
