---------------------------- MODULE PacketHandler ----------------------------
(***************************************************************************)
(* src/packet_handler.c: the listening task accepts TCP connections and    *)
(* hands them to the handling task through connections_queue; the handling *)
(* task serves the one connection in conn_info[ControlGroup], refuses the  *)
(* others, and closes a connection when its client asks for it.            *)
(*                                                                         *)
(* The two tasks have the same priority and FreeRTOS switches between them *)
(* at any point.  A step here is the code between two accesses to what     *)
(* they share: connections_queue, the fields of connections_pool (see      *)
(* PoolCalls), the hndl fields and the numbers of the open sockets.        *)
(***************************************************************************)
EXTENDS Controller, Naturals, Sequences, FiniteSets

CONSTANTS
    Clients,        \* the programs that connect to the device
    Handles,        \* the socket numbers accept may return
    None,           \* no client; also HNDL_INACTIVE, which is no socket
    MaxConns,       \* MAX_TCP_CONNECTIONS
    Inputs,         \* what a client may send
    MaxInbox,       \* bound: packets on the way to one socket
    Polite          \* clients follow the protocol (see Connect)

ASSUME PoolAssumption   == MaxPackets \in Nat \ {0} /\ MaxConns \in Nat \ {0}
ASSUME QueueAssumption  == QueueSize \in Nat \ {0} /\ MaxInbox \in Nat \ {0}
ASSUME WriteAssumption  == WriteOutcomes \subseteq {"queued", "lost"}
ASSUME InputAssumption  == Inputs \subseteq MsgTypes \cup {Bad}
ASSUME PoliteAssumption == Polite \in BOOLEAN
ASSUME NoneAssumption   == None \notin Clients \cup Handles

VARIABLES
    \* The listening task: where it is, and its locals.
    lpc,                \* "accept", "get", "getting", "fill", "enqueue" or "fault"
    conn,               \* the socket accept returned
    linfo,              \* its conn_info; 0 until it is assigned
    \* The handling task: where it is, and its locals.
    hpc,                \* "first", "select", "check", "recv", "dispatch", "close",
                        \* "closed", "free", "freeing", "release", "drain", "poll",
                        \* "refuse", "refused"; "restart" or "fault"
    info, hndl, packet, \* 0, None and 0 while indeterminate or dead
    read_fd,            \* the sockets select found readable
    \* Memory of the device.
    control,            \* conn_info[ControlGroup]; 0 is NULL
    info_hndl,          \* the hndl field of every ConnectionInfo
    out_queue,          \* the out_queue of every ConnectionInfo
    connections_queue,
    packets_pool,
    buf,                \* the contents of every Packet
    \* connections_pool, and what the calls on it in progress hold; linfo is
    \* the *data of pool_get.
    data, free_items, pool_size, gpc, gfree, gleft, rpc, rsize, rfree, ritem, rindex,
    raced,              \* history: a pool_get has overlapped a pool_release
    \* The network.
    sock,               \* the peer of every socket of the device that is open
    inbox,              \* what is on the way to every socket
    ended,              \* sockets whose client has sent its Close packet
    gone,               \* sockets whose client has disappeared
    backlog             \* clients whose connection accept has not returned yet

INSTANCE PoolCalls WITH max_pool_size <- MaxConns, gitem <- linfo

connections_pool == <<data, free_items, pool_size, gpc, gfree, gleft,
                      rpc, rsize, rfree, ritem, rindex, raced>>

listener == <<lpc, conn, linfo>>
handler  == <<hpc, info, hndl, packet, read_fd>>
memory   == <<control, info_hndl, out_queue, connections_queue, connections_pool,
              packets_pool, buf>>
network  == <<sock, inbox, ended, gone, backlog>>
vars     == <<listener, handler, memory, network>>

Infos   == 1..MaxConns
Packets == 1..MaxPackets

Entries == [pkt : Packets, want : ReplyKinds, to : Clients]

\* No task runs once one of them has crashed or the device restarts.
Up == lpc # "fault" /\ hpc \notin {"fault", "restart"}

\* The store the handlers work on (see PacketManager).
Store == [pool |-> packets_pool, queue |-> out_queue[info], buf |-> buf, status |-> "ok"]

-----------------------------------------------------------------------------

\* What packet_handler_start and a power-on leave.
Init ==
    /\ lpc = "accept" /\ conn = None /\ linfo = 0
    /\ hpc = "first" /\ info = 0 /\ hndl = None /\ packet = 0 /\ read_fd = {}
    /\ control = 0
    /\ info_hndl = [i \in Infos |-> None]
    /\ out_queue = [i \in Infos |-> <<>>]
    /\ connections_queue = <<>>
    /\ NewPool /\ raced = FALSE
    /\ packets_pool = EmptyPool
    /\ buf = [p \in Packets |-> Garbage]
    /\ sock = [h \in Handles |-> None]
    /\ inbox = [h \in Handles |-> <<>>]
    /\ ended = {} /\ gone = {} /\ backlog = {}

-----------------------------------------------------------------------------
(* The clients *)

(***************************************************************************)
(* A client has at most one connection.  A polite one connects when the    *)
(* device has no connection at all, that is after the device has closed    *)
(* the one before, and ends its connection with a Close packet.            *)
(***************************************************************************)
Connect(c) ==
    /\ c \notin backlog
    /\ \A h \in Handles : sock[h] = c => h \in gone
    /\ Polite => backlog = {} /\ \A h \in Handles : sock[h] = None
    /\ Cardinality(backlog) < MaxConns
    /\ backlog' = backlog \cup {c}
    /\ UNCHANGED <<listener, handler, memory, sock, inbox, ended, gone>>

\* A client sends a packet; after a Close packet it sends no more.
Send(h, m) ==
    /\ sock[h] # None /\ h \notin ended \cup gone
    /\ Polite => m # Bad
    /\ Len(inbox[h]) < MaxInbox
    /\ inbox' = [inbox EXCEPT ![h] = Append(@, m)]
    /\ ended' = IF m = "close" THEN ended \cup {h} ELSE ended
    /\ UNCHANGED <<listener, handler, memory, sock, gone, backlog>>

\* A client disappears: recv returns 0 once it has read what was sent.
Vanish(h) ==
    /\ ~Polite /\ sock[h] # None /\ h \notin gone
    /\ gone' = gone \cup {h}
    /\ UNCHANGED <<listener, handler, memory, sock, inbox, ended, backlog>>

-----------------------------------------------------------------------------
(* The listening task *)

\* accept returns a socket.  Where no socket is left it fails, and the task
\* sleeps and tries again.
Accept(c, h) ==
    /\ Up /\ lpc = "accept"
    /\ c \in backlog /\ sock[h] = None
    /\ backlog' = backlog \ {c}
    /\ sock' = [sock EXCEPT ![h] = c]
    /\ conn' = h /\ lpc' = "get"
    /\ UNCHANGED <<linfo, handler, memory, inbox, ended, gone>>

\* conn_constructor
ConnConstructor(i) ==
    /\ info_hndl' = [info_hndl EXCEPT ![i] = None]
    /\ out_queue' = [out_queue EXCEPT ![i] = <<>>]

\* An access of pool_get leaves all that is not its pool's.
GetKeeps == UNCHANGED <<conn, handler, control, connections_queue, packets_pool, buf, network>>

(***************************************************************************)
(* The begin of pool_get.  Where it refuses, which the task logs only,     *)
(* conn_info is what its place on the stack holds, the pointer of the      *)
(* connection before or a wild one.                                        *)
(***************************************************************************)
GetInfo ==
    /\ Up /\ lpc = "get"
    /\ GetStart
    /\ raced' = (raced \/ rpc # "idle")
    /\ IF gpc' = "idle" THEN lpc' \in {"fault"} \cup (IF linfo # 0 THEN {"fill"} ELSE {})
                       ELSE lpc' = "getting"
    /\ UNCHANGED <<info_hndl, out_queue>>
    /\ GetKeeps

(***************************************************************************)
(* Its other accesses, with the constructor for a new ConnectionInfo.  An  *)
(* item popped from a place that was never written is a wild pointer.      *)
(***************************************************************************)
GetInfoGoesOn ==
    /\ Up /\ lpc = "getting"
    /\ \/ GetMake /\ ConnConstructor(linfo')
       \/ (GetPop \/ GetCount \/ GetStore) /\ UNCHANGED <<info_hndl, out_queue>>
    /\ lpc' = IF gpc' # "idle" THEN "getting" ELSE IF linfo' = 0 THEN "fault" ELSE "fill"
    /\ UNCHANGED raced
    /\ GetKeeps

\* Mutant of Fill: the socket is not stored.
FillNothing ==
    /\ Up /\ lpc = "fill"
    /\ lpc' = "enqueue"
    /\ UNCHANGED <<conn, linfo, handler, memory, network>>

\* conn_info->hndl = conn.  (conn_info->group is ControlGroup always.)
Fill ==
    /\ Up /\ lpc = "fill"
    /\ info_hndl' = [info_hndl EXCEPT ![linfo] = conn]
    /\ lpc' = "enqueue"
    /\ UNCHANGED <<conn, linfo, handler, control, out_queue, connections_queue,
                   connections_pool, packets_pool, buf, network>>

\* sys_queue_write_ptr with timeout 0: the failure is logged only.
Enqueue ==
    /\ Up /\ lpc = "enqueue"
    /\ connections_queue' = IF Len(connections_queue) < MaxConns
                            THEN Append(connections_queue, linfo) ELSE connections_queue
    /\ conn' = None /\ lpc' = "accept"
    /\ UNCHANGED <<linfo, handler, control, info_hndl, out_queue, connections_pool,
                   packets_pool, buf, network>>

Listen ==
    \/ \E c \in Clients, h \in Handles : Accept(c, h)
    \/ GetInfo \/ GetInfoGoesOn \/ Fill \/ Enqueue

-----------------------------------------------------------------------------
(* The handling task *)

\* The blocking read of the first connection.
First ==
    /\ Up /\ hpc = "first"
    /\ connections_queue # <<>>
    /\ info' = Head(connections_queue)
    /\ connections_queue' = Tail(connections_queue)
    /\ control' = info'
    /\ hpc' = "select"
    /\ UNCHANGED <<listener, hndl, packet, read_fd, info_hndl, out_queue, connections_pool,
                   packets_pool, buf, network>>

\* A socket on which recv would not wait.
Readable(h) == sock[h] # None /\ (inbox[h] # <<>> \/ h \in gone)

\* check_connection
Alive(i) == i # 0 /\ info_hndl[i] # None

\* get_read_fd: the sockets select is asked about.
ReadFd == IF Alive(control) THEN {info_hndl[control]} ELSE {}

\* select: a socket is readable, or a timeout or an error.
Select ==
    /\ Up /\ hpc = "select"
    /\ read_fd' = {h \in ReadFd : Readable(h)}
    /\ hpc' = IF read_fd' = {} THEN "poll" ELSE "check"
    /\ UNCHANGED <<listener, info, hndl, packet, memory, network>>

\* The body of the loop over the groups, up to FD_ISSET.
Check ==
    /\ Up /\ hpc = "check"
    /\ info' = control
    /\ IF Alive(control)
       THEN /\ hndl' = info_hndl[control]
            /\ hpc' = IF hndl' \in read_fd THEN "recv" ELSE "drain"
       ELSE hpc' = "poll" /\ UNCHANGED hndl
    /\ UNCHANGED <<listener, packet, read_fd, memory, network>>

(***************************************************************************)
(* recv_packet into packet p: a header that parse_header accepts; one it   *)
(* refuses, which leaves header.type; or the end of the stream, which      *)
(* recv_nbytes reports as SUCCESS: the raw header the packet held before   *)
(* is parsed once more.  recv_packet's own result is ignored.              *)
(***************************************************************************)
Received(p, h) ==
    LET old     == buf[p]
        body    == IF inbox[h] = <<>> THEN old.body ELSE "request"
        Parsed(w) == {[type |-> t, wire |-> w, body |-> IF w = Bad THEN old.body ELSE body] :
                         t \in ParseHeader(old, w)}
    IN  UNION {Parsed(w) : w \in IF inbox[h] # <<>> THEN {Head(inbox[h])}
                                 ELSE IF old.wire # Unknown THEN {old.wire}
                                 ELSE MsgTypes \cup {Bad}}

(***************************************************************************)
(* get_packet_from_pool and recv_packet.  Where the pool has no packet the *)
(* failure is logged only, and packet is what the last failed read of a    *)
(* queue left in it: any pointer.                                          *)
(***************************************************************************)
Receive ==
    /\ Up /\ hpc = "recv"
    /\ IF Exhausted(packets_pool, MaxPackets)
       THEN packet' \in Packets /\ UNCHANGED packets_pool
       ELSE packet' = PoolItem(packets_pool) /\ packets_pool' = PoolGet(packets_pool)
    /\ \E b \in Received(packet', hndl) : buf' = [buf EXCEPT ![packet'] = b]
    /\ inbox' = [inbox EXCEPT ![hndl] = IF @ = <<>> THEN @ ELSE Tail(@)]
    /\ hpc' = "dispatch"
    /\ UNCHANGED <<listener, info, hndl, read_fd, control, info_hndl, out_queue,
                   connections_queue, connections_pool, sock, ended, gone, backlog>>

\* The same where packet is a wild pointer.
ReceiveWild ==
    /\ Up /\ hpc = "recv"
    /\ Exhausted(packets_pool, MaxPackets)
    /\ hpc' = "fault"
    /\ UNCHANGED <<listener, info, hndl, packet, read_fd, memory, network>>

\* process_packet for a type that has a handler; it runs to its end, since
\* it shares nothing with the listening task.
Process(type) ==
    /\ Up /\ hpc = "dispatch" /\ buf[packet].type = type
    /\ \E st \in ProcessPacket(type, Store, packet, sock[hndl]) :
          /\ packets_pool' = st.pool
          /\ out_queue' = [out_queue EXCEPT ![info] = st.queue]
          /\ buf' = st.buf
          /\ hpc' = IF st.status = "restart" THEN "restart" ELSE "release"
    /\ UNCHANGED <<listener, info, hndl, packet, read_fd, control, info_hndl,
                   connections_queue, connections_pool, network>>

\* process_packet calls the NULL handler of a type that has none.
ProcessUnhandled ==
    /\ Up /\ hpc = "dispatch" /\ buf[packet].type = "unhandled"
    /\ hpc' = "fault"
    /\ UNCHANGED <<listener, info, hndl, packet, read_fd, memory, network>>

\* Mutant of CloseConn: conn_info[group] is not set to NULL.
CloseConnKeeping ==
    /\ Up /\ hpc = "dispatch" /\ buf[packet].type = "close"
    /\ hpc' = "close"
    /\ UNCHANGED <<listener, info, hndl, packet, read_fd, memory, network>>

\* close_conn: conn_info[group] is NULL from now on.
CloseConn ==
    /\ Up /\ hpc = "dispatch" /\ buf[packet].type = "close"
    /\ control' = 0
    /\ hpc' = "close"
    /\ UNCHANGED <<listener, info, hndl, packet, read_fd, info_hndl, out_queue,
                   connections_queue, connections_pool, packets_pool, buf, network>>

(***************************************************************************)
(* disable_connection: close of info->hndl, for a connection its client    *)
(* has ended or for a second one.  accept may return the number of the     *)
(* socket again from now on.                                               *)
(***************************************************************************)
Close ==
    /\ Up /\ hpc \in {"close", "refuse"}
    /\ LET h == info_hndl[info]
       IN  /\ h # None /\ sock[h] # None
           /\ sock' = [sock EXCEPT ![h] = None]
           /\ inbox' = [inbox EXCEPT ![h] = <<>>]
           /\ ended' = ended \ {h} /\ gone' = gone \ {h}
    /\ hpc' = IF hpc = "close" THEN "closed" ELSE "refused"
    /\ UNCHANGED <<listener, info, hndl, packet, read_fd, memory, backlog>>

\* close may fail on any socket, and fails on one that is not open.  Both
\* callers leave it at that: the ConnectionInfo goes to no pool.
CloseFails ==
    /\ Up /\ hpc \in {"close", "refuse"}
    /\ hpc' = IF hpc = "close" THEN "release" ELSE "select"
    /\ UNCHANGED <<listener, info, hndl, packet, read_fd, memory, network>>

\* Mutant of ResetHndl: hndl keeps the number of the socket that was closed.
ResetHndlNever ==
    /\ Up /\ hpc \in {"closed", "refused"}
    /\ hpc' = IF hpc = "closed" THEN "free" ELSE "select"
    /\ UNCHANGED <<listener, info, hndl, packet, read_fd, memory, network>>

\* info->hndl = HNDL_INACTIVE.  close_conn gives the ConnectionInfo back to
\* the pool then; that of a second connection is not given back.
ResetHndl ==
    /\ Up /\ hpc \in {"closed", "refused"}
    /\ info_hndl' = [info_hndl EXCEPT ![info] = None]
    /\ hpc' = IF hpc = "closed" THEN "free" ELSE "select"
    /\ UNCHANGED <<listener, info, hndl, packet, read_fd, control, out_queue,
                   connections_queue, connections_pool, packets_pool, buf, network>>

\* Mutant of ReleaseInfo: the ConnectionInfo is not given back.
ReleaseInfoNever ==
    /\ Up /\ hpc = "free"
    /\ hpc' = "release"
    /\ UNCHANGED <<listener, info, hndl, packet, read_fd, memory, network>>

\* An access of pool_release leaves all that is not its pool's.
ReleaseKeeps ==
    UNCHANGED <<listener, info, hndl, packet, read_fd, control, info_hndl, out_queue,
                connections_queue, packets_pool, buf, network>>

\* The begin of pool_release of close_conn, ...
ReleaseInfo ==
    /\ Up /\ hpc = "free"
    /\ ReleaseStart(info)
    /\ raced' = (raced \/ gpc # "idle")
    /\ hpc' = "freeing"
    /\ ReleaseKeeps

\* ... and its other accesses.  close_conn's result is ignored.
ReleaseInfoGoesOn ==
    /\ Up /\ hpc = "freeing"
    /\ ReleaseTest \/ ReleaseIndex \/ ReleaseData \/ ReleaseCount
    /\ UNCHANGED raced
    /\ hpc' = IF rpc' = "idle" THEN "release" ELSE "freeing"
    /\ ReleaseKeeps

\* release_packet of the received packet; its failure skips the sending.
Release ==
    /\ Up /\ hpc = "release"
    /\ packets_pool' = PoolRelease(packets_pool, packet)
    /\ hpc' = IF Complete(packets_pool) THEN "poll" ELSE "drain"
    /\ packet' = 0
    /\ UNCHANGED <<listener, info, hndl, read_fd, control, info_hndl, out_queue,
                   connections_queue, connections_pool, buf, network>>

\* Mutant of PoolAfterGet: the needless get is removed.
PoolWithoutGet == packets_pool

(***************************************************************************)
(* One pass of the loop that sends.  It gets a packet from the pool,       *)
(* whose pointer the read of the queue overwrites at once; the result of   *)
(* the get is ignored.  A queued packet is sent and released, and a read   *)
(* that fails ends the loop.                                               *)
(***************************************************************************)
PoolAfterGet == IF Exhausted(packets_pool, MaxPackets) THEN packets_pool ELSE PoolGet(packets_pool)

\* Mutant of Transmit: `if' for `while'.
TransmitOnce ==
    /\ Up /\ hpc = "drain" /\ out_queue[info] # <<>>
    /\ out_queue' = [out_queue EXCEPT ![info] = Tail(@)]
    /\ packets_pool' = PoolRelease(PoolAfterGet, Head(out_queue[info]).pkt)
    /\ hpc' = "poll" /\ hndl' = None /\ read_fd' = {}
    /\ UNCHANGED <<listener, info, packet, control, info_hndl, connections_queue,
                   connections_pool, buf, network>>

Transmit ==
    /\ Up /\ hpc = "drain" /\ out_queue[info] # <<>>
    /\ out_queue' = [out_queue EXCEPT ![info] = Tail(@)]
    /\ packets_pool' = PoolRelease(PoolAfterGet, Head(out_queue[info]).pkt)
    /\ UNCHANGED <<listener, handler, control, info_hndl, connections_queue,
                   connections_pool, buf, network>>

Drained ==
    /\ Up /\ hpc = "drain" /\ out_queue[info] = <<>>
    /\ packets_pool' = PoolAfterGet
    /\ hpc' = "poll" /\ hndl' = None /\ read_fd' = {}
    /\ UNCHANGED <<listener, info, packet, control, info_hndl, out_queue, connections_queue,
                   connections_pool, buf, network>>

\* The poll of connections_queue: nothing new, ...
PollNone ==
    /\ Up /\ hpc = "poll" /\ connections_queue = <<>>
    /\ hpc' = "select"
    /\ UNCHANGED <<listener, info, hndl, packet, read_fd, memory, network>>

\* ... a connection that becomes the control connection, ...
PollAdopt ==
    /\ Up /\ hpc = "poll" /\ connections_queue # <<>> /\ control = 0
    /\ info' = Head(connections_queue)
    /\ connections_queue' = Tail(connections_queue)
    /\ control' = info'
    /\ hpc' = "select"
    /\ UNCHANGED <<listener, hndl, packet, read_fd, info_hndl, out_queue, connections_pool,
                   packets_pool, buf, network>>

\* ... or a second one, which is to be disabled.
PollRefuse ==
    /\ Up /\ hpc = "poll" /\ connections_queue # <<>> /\ control # 0
    /\ info' = Head(connections_queue)
    /\ connections_queue' = Tail(connections_queue)
    /\ hpc' = "refuse"
    /\ UNCHANGED <<listener, hndl, packet, read_fd, control, info_hndl, out_queue,
                   connections_pool, packets_pool, buf, network>>

Handle ==
    \/ First \/ Select \/ Check \/ Receive \/ ReceiveWild
    \/ \E type \in Handled : Process(type)
    \/ ProcessUnhandled \/ CloseConn \/ Close \/ CloseFails \/ ResetHndl
    \/ ReleaseInfo \/ ReleaseInfoGoesOn \/ Release
    \/ Transmit \/ Drained \/ PollNone \/ PollAdopt \/ PollRefuse

-----------------------------------------------------------------------------

\* PRCMMCUReset after sys_restart, or the user who cycles the power of a
\* device that crashed: everything is lost, the connections included.
Reboot ==
    /\ ~Up
    /\ lpc' = "accept" /\ conn' = None /\ linfo' = 0
    /\ hpc' = "first" /\ info' = 0 /\ hndl' = None /\ packet' = 0 /\ read_fd' = {}
    /\ control' = 0
    /\ info_hndl' = [i \in Infos |-> None]
    /\ out_queue' = [i \in Infos |-> <<>>]
    /\ connections_queue' = <<>>
    /\ data' = [n \in Indices |-> 0] /\ free_items' = 0 /\ pool_size' = 0
    /\ gpc' = "idle" /\ gfree' = 0 /\ gleft' = 0
    /\ rpc' = "idle" /\ rsize' = 0 /\ rfree' = 0 /\ ritem' = 0 /\ rindex' = 0
    /\ raced' = FALSE
    /\ packets_pool' = EmptyPool
    /\ buf' = [p \in Packets |-> Garbage]
    /\ sock' = [h \in Handles |-> None]
    /\ inbox' = [h \in Handles |-> <<>>]
    /\ ended' = {} /\ gone' = {} /\ backlog' = {}

\* A device that is down answers no client.
Client ==
    /\ Up
    /\ \/ \E c \in Clients : Connect(c)
       \/ \E h \in Handles : Vanish(h) \/ \E m \in Inputs : Send(h, m)

Next == Client \/ Listen \/ Handle \/ Reboot

\* FreeRTOS gives time to every ready task of the highest ready priority,
\* and both tasks have priority 2.
Fairness == WF_vars(Listen) /\ WF_vars(Handle)

Spec     == Init /\ [][Next]_vars
FairSpec == Spec /\ Fairness

-----------------------------------------------------------------------------
(* Properties *)

\* The values of every variable.  What it says beyond types: no call leaves
\* a pool larger than it may be (pool.c:49), and the pointers that the
\* tasks follow are pointers the pools have handed out.
TypeOK ==
    /\ lpc \in {"accept", "get", "getting", "fill", "enqueue", "fault"}
    /\ conn \in Handles \cup {None}
    /\ hpc \in {"first", "select", "check", "recv", "dispatch", "close", "closed", "free",
                "freeing", "release", "drain", "poll", "refuse", "refused", "restart", "fault"}
    /\ info \in Infos \cup {0}
    /\ hndl \in Handles \cup {None}
    /\ packet \in Packets \cup {0}
    /\ read_fd \subseteq Handles
    /\ control \in Infos \cup {0}
    /\ info_hndl \in [Infos -> Handles \cup {None}]
    /\ out_queue \in [Infos -> Seq(Entries)]
    /\ connections_queue \in Seq(Infos)
    /\ PoolTypeOK /\ raced \in BOOLEAN
    /\ packets_pool \in PoolType(MaxPackets)
    /\ buf \in [Packets -> PacketTypeSet]
    /\ sock \in [Handles -> Clients \cup {None}]
    /\ inbox \in [Handles -> Seq(Inputs)]
    /\ ended \subseteq Handles /\ gone \subseteq Handles
    /\ backlog \subseteq Clients

(***************************************************************************)
(* The loop that sends (packet_handler.c:235-247) leaves nothing behind: a *)
(* connection's out_queue is empty but for the replies to the request that *)
(* is being served.  A reply left there would be sent to the client that   *)
(* the ConnectionInfo is given to next.                                    *)
(***************************************************************************)
QueuesDrained ==
    /\ hpc \notin {"release", "drain", "restart"} => \A i \in Infos : out_queue[i] = <<>>
    /\ \A i \in Infos \ {info} : out_queue[i] = <<>>

\* write_packet's result is dropped (packet_manager.c:61, 74), which loses a
\* reply and its packet if the queue is full: it never is.
NeverFull == \A i \in Infos : Len(out_queue[i]) < QueueSize

\* The socket that a reply is about to be sent to (hndl, read before the
\* request was) is still the one of the client that made the request.
ReplyToAsker ==
    \A i \in Infos : \A n \in DOMAIN out_queue[i] :
        hndl \in Handles /\ sock[hndl] = out_queue[i][n].to

\* What a handler wrote into a reply is there when the reply is sent: no
\* packet is handed out or written again while it is in an out_queue.
ReplyIntact ==
    \A i \in Infos : \A n \in DOMAIN out_queue[i] :
        LET e == out_queue[i][n] IN e.want # "memory" => buf[e.pkt].body = e.want

\* No item is in a pool twice, and none that the pool did not make.
Sound(pool) ==
    /\ \A m, n \in DOMAIN pool.free : pool.free[m] = pool.free[n] => m = n
    /\ \A n \in DOMAIN pool.free : pool.free[n] \in 1..pool.size

\* So it is for the packets, though the request's packet of a memory reply
\* is released while it is queued (controller.c:227, packet_handler.c:228).
PacketsSound == Sound(packets_pool)

\* release_packet of the request (packet_handler.c:228) never fails; its
\* failure would end the sending before it began, and keep the replies.
ReleaseAccepted == hpc = "release" => ~Complete(packets_pool)

(***************************************************************************)
(* However the accesses of pool_get in one task and of pool_release in the *)
(* other interleave, the counters of connections_pool stay ordered and the *)
(* two places computed from copies of them are places of pool->data.       *)
(***************************************************************************)
InBounds ==
    /\ free_items <= pool_size /\ pool_size <= MaxConns
    /\ rpc \in {"write", "write_data", "write_count"} => rindex \in Indices
    /\ gpc = "pop" => \A f \in Reread(gfree) : f - 1 \in Indices

\* disable_connection has closed the socket of i and not yet reset hndl.
\* (packet_handler.c:329, 332).
Stale(i) == hpc \in {"closed", "refused"} /\ info = i

\* i names socket h, and not only for want of the reset.
Names(i, h) == info_hndl[i] = h /\ ~Stale(i)

(***************************************************************************)
(* However badly clients behave, and whatever the race on connections_pool *)
(* has done to it, no ConnectionInfo names a socket that is closed, whose  *)
(* number accept may have given to another client since, and no two name   *)
(* the same one.  The one exception is the ConnectionInfo that             *)
(* disable_connection is about to reset.                                   *)
(***************************************************************************)
HandlesValid ==
    \A i \in Infos : \A h \in Handles :
        Names(i, h) => sock[h] # None /\ \A j \in Infos : Names(j, h) => i = j

(***************************************************************************)
(* With polite clients, and until a pool_get has overlapped a pool_release *)
(* (raced), every ConnectionInfo is in exactly one place: in the pool, in  *)
(* the hands of the listening task, in connections_queue, in conn_info, or *)
(* in the hands of close_conn.  Only the one whose socket could not be     *)
(* closed is in none (packet_handler.c:281), and that socket stays open    *)
(* though its client has ended it.                                         *)
(***************************************************************************)
Places(i) ==
    (IF lpc \in {"fill", "enqueue"} /\ linfo = i THEN 1 ELSE 0)
    + (IF control = i THEN 1 ELSE 0)
    + (IF hpc \in {"close", "closed", "free", "freeing"} /\ info = i THEN 1 ELSE 0)
    + Cardinality({n \in DOMAIN connections_queue : connections_queue[n] = i})
    + Cardinality({n \in 0..(Depth - 1) : data[n] = i})

Abandoned(i) == info_hndl[i] \in ended /\ sock[info_hndl[i]] # None

ConnOwned ==
    Up /\ ~raced =>
        \A i \in 1..pool_size : Places(i) = 1 \/ (Places(i) = 0 /\ Abandoned(i))

\* With polite clients, and until the calls on the pool have overlapped, no
\* socket is forgotten: each one that is open is the one just accepted or is
\* named by exactly one ConnectionInfo.
SocketOwned ==
    ~raced => \A h \in Handles : sock[h] # None =>
        (IF conn = h /\ lpc \in {"get", "getting", "fill"} THEN 1 ELSE 0)
        + Cardinality({i \in Infos : Names(i, h)}) = 1

(***************************************************************************)
(* Until then a polite client is never refused either: pool_get has a      *)
(* ConnectionInfo for it, and the control connection before it is gone,    *)
(* though the client may be back while the device still works on the       *)
(* closing of its last connection.                                         *)
(***************************************************************************)
Admitted ==
    ~raced =>
        /\ lpc = "get" => free_items > 0 \/ pool_size < MaxConns
        /\ hpc = "poll" /\ connections_queue # <<>> => control = 0

\* A polite client's connection becomes the control connection, unless the
\* device goes down, or the calls on the pool overlap, first.
Served ==
    \A c \in Clients :
        (c \in backlog) ~> (~Up \/ raced \/ (Alive(control) /\ sock[info_hndl[control]] = c))

\* What a polite client sends is read, with the same two ways out.
RequestRead ==
    \A h \in Handles : (inbox[h] # <<>>) ~> (inbox[h] = <<>> \/ ~Up \/ raced)

-----------------------------------------------------------------------------
(* What the repository says and the code does not do: TLC refutes it *)

\* packet_handler.c:214-215 asserts that there is a packet for a request;
\* config.h:62 makes the pool twice as large as a queue for that.
NeverExhausted == hpc = "recv" => ~Exhausted(packets_pool, MaxPackets)

\* close_conn asserts that the pool takes the ConnectionInfo of a connection
\* that was in use (packet_handler.c:284-285): it is not refused.
ReleaseKept == rpc = "test" => free_items # rsize
=============================================================================
