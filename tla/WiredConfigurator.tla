------------------------- MODULE WiredConfigurator --------------------------
(***************************************************************************)
(* src/wired_configurator.c: the UART's DMA channel writes a header, and   *)
(* then a body, into cfg_packet.packet_data; its interrupt handler arms    *)
(* the next transfer and creates updater_task, which saves the received    *)
(* configuration and restarts the device.                                  *)
(*                                                                         *)
(* The packets a host has sent since the last restart are numbered; byte k *)
(* of packet p is <<p, k>>, so that bytes of different packets can be told *)
(* apart wherever they come to lie.  Each has HeaderSize bytes of header,  *)
(* and a body; <<0, 0>> is a byte of cleared memory.                       *)
(***************************************************************************)
EXTENDS Wlan, Sequences

CONSTANTS
    U8,             \* the number of values of a _u8: 256
    HeaderSize,     \* PL_PACKET_HEADER_SIZE
    BodySize,       \* the data_size of the packets of the instance, ...
    BigSize,        \* ... but for those whose data_size is no _u8
    MaxUpdaters     \* bound: updater tasks there is memory for

\* A transfer of no bytes is nothing that the DMA controller defines.
ASSUME SizeAssumption ==
    /\ U8 \in Nat
    /\ HeaderSize \in 1 .. U8 - 1 /\ BodySize \in 1 .. U8 - 1
    /\ BigSize \in Nat /\ BigSize >= U8 /\ BigSize % U8 # 0
ASSUME UpdaterAssumption == MaxUpdaters \in Nat \ {0}

Updaters == 1 .. MaxUpdaters

(***************************************************************************)
(* What a host may send: a configuration; one whose mode is unknown        *)
(* ("refused"); one whose ssid_len or pwd_len is more than the arrays hold *)
(* ("long"); one with a large data_size ("big"); a packet of another type; *)
(* or bytes with a header that parse_header refuses ("bad").               *)
(***************************************************************************)
Kinds == Configs \cup {"refused", "long", "big", "other", "bad"}

ASSUME KindAssumption ==
    (Configs \cup {Junk, NoFile}) \cap {"refused", "long", "big", "other", "bad", "overrun"} = {}

SizeOf(kind) == IF kind = "big" THEN BigSize ELSE BodySize

VARIABLES
    sent,           \* the packets sent since the last restart
    wire,           \* their bytes on the way
    state,          \* "header" or "body"
    want, got,      \* the size of the armed transfer (0: none), what has come of it
    packet_data,
    header,         \* the kind of cfg_packet.header.type: "config", or "other"
    upd,            \* every updater task: pc, and its cfg
    updater_hdnl    \* the task created last, 0 before

wired == <<sent, wire, state, want, got, packet_data, header, upd, updater_hdnl>>

NoTask == [pc |-> "none", cfg |-> NoFile]

\* About to call sys_restart.
Restarting == [pc |-> "restart", cfg |-> NoFile]

\* A task that may do anything: return from its function, end a task that
\* there is no more, or go on with what has been written over its stack.
Stray == [pc |-> "stray", cfg |-> NoFile]

\* Places of packet_data: as many as a transfer can reach, of its 1024.
Places == 0 .. U8 - 1

\* wired_conf_start arms the first transfer; before it none is.
WiredInit ==
    /\ sent = <<>> /\ wire = <<>>
    /\ state = "header" /\ want = 0 /\ got = 0
    /\ packet_data = [k \in Places |-> <<0, 0>>]
    /\ header = "other"
    /\ upd = [u \in Updaters |-> NoTask] /\ updater_hdnl = 0

WiredReset ==
    /\ sent' = <<>> /\ wire' = <<>>
    /\ state' = "header" /\ want' = 0 /\ got' = 0
    /\ packet_data' = [k \in Places |-> <<0, 0>>]
    /\ header' = "other"
    /\ upd' = [u \in Updaters |-> NoTask] /\ updater_hdnl' = 0

\* wired_recv(n, 0): n_bytes is a _u8, whatever data_size is.
WiredRecv(n) == want' = n % U8 /\ got' = 0

\* No transfer is armed any more: what else is sent is lost.
Deaf == want' = 0 /\ got' = 0 /\ wire' = <<>>

WiredConfStart ==
    /\ WiredRecv(HeaderSize)
    /\ UNCHANGED <<sent, wire, state, packet_data, header, upd, updater_hdnl>>

-----------------------------------------------------------------------------
(* The host and the UART *)

HostSend(kind) ==
    /\ want > 0
    /\ sent' = Append(sent, kind)
    /\ wire' = wire \o [k \in 1 .. HeaderSize + SizeOf(kind) |-> <<Len(sent'), k - 1>>]
    /\ UNCHANGED <<state, want, got, packet_data, header, upd, updater_hdnl>>

\* A byte is transferred; without a transfer it waits in the UART.
Transfer ==
    /\ wire # <<>> /\ got < want
    /\ packet_data' = [packet_data EXCEPT ![got] = Head(wire)]
    /\ got' = got + 1 /\ wire' = Tail(wire)
    /\ UNCHANGED <<sent, state, want, header, upd, updater_hdnl>>

-----------------------------------------------------------------------------
(* uart_irq_hdnl, when the transfer is complete *)

Interrupt == want > 0 /\ got = want

\* parse_header of packet_data accepts the header of packet p.
HeaderOf(p) ==
    /\ p \in DOMAIN sent /\ sent[p] # "bad"
    /\ \A k \in 0 .. HeaderSize - 1 : packet_data[k] = <<p, k>>

\* Mutant of IrqHeader: the state stays what it is.
IrqHeaderAgain ==
    /\ Interrupt /\ state = "header"
    /\ \E p \in DOMAIN sent :
          /\ HeaderOf(p)
          /\ header' = IF sent[p] = "other" THEN "other" ELSE "config"
          /\ WiredRecv(SizeOf(sent[p]))
    /\ UNCHANGED <<sent, wire, state, packet_data, upd, updater_hdnl>>

IrqHeader ==
    /\ Interrupt /\ state = "header"
    /\ \E p \in DOMAIN sent :
          /\ HeaderOf(p)
          /\ header' = IF sent[p] = "other" THEN "other" ELSE "config"
          /\ WiredRecv(SizeOf(sent[p]))
    /\ state' = "body"
    /\ UNCHANGED <<sent, wire, packet_data, upd, updater_hdnl>>

\* A header that is refused: no transfer is armed any more.
IrqRefused ==
    /\ Interrupt /\ state = "header"
    /\ ~\E p \in DOMAIN sent : HeaderOf(p)
    /\ Deaf
    /\ UNCHANGED <<sent, state, packet_data, header, upd, updater_hdnl>>

\* osi_TaskCreate(updater_task, ..., &updater_hdnl) uses the first free one.
NewUpdater(u) ==
    /\ upd[u] = NoTask
    /\ \A v \in 1 .. u - 1 : upd[v] # NoTask
    /\ upd' = [upd EXCEPT ![u] = [pc |-> "begin", cfg |-> NoFile]]
    /\ updater_hdnl' = u

(***************************************************************************)
(* The body: updater_task is created and the next transfer armed, into the *)
(* memory the task will read.  Line 180 assigns StateRecvHeader to status, *)
(* and state stays as it is.                                               *)
(***************************************************************************)
IrqBody ==
    /\ Interrupt /\ state = "body"
    /\ \E u \in Updaters : NewUpdater(u)
    /\ WiredRecv(HeaderSize)
    /\ UNCHANGED <<sent, wire, state, packet_data, header>>

\* The task could not be created: no transfer is armed any more.
IrqNoTask ==
    /\ Interrupt /\ state = "body"
    /\ Deaf
    /\ UNCHANGED <<sent, state, packet_data, header, upd, updater_hdnl>>

-----------------------------------------------------------------------------
(* updater_task *)

\* Mutant of Parsed: it reads past the place of a header.
ParsedPastHeader == {Junk, NoFile}

(***************************************************************************)
(* What get_wlan_config_from_packet may make of packet_data.  Of a         *)
(* configuration whose whole body is in place, that configuration; of one  *)
(* whose mode is unknown nothing (NoFile).  Of all other bytes the lengths *)
(* may be any: what is copied may go past the end of the task's stack      *)
(* ("overrun"), even if nothing comes of it then; else it is Junk, or      *)
(* nothing if the first byte is no mode, as that of a header is not.       *)
(***************************************************************************)
Parsed ==
    LET p == packet_data[0][1]
        k == packet_data[0][2]
        whole == \A i \in 0 .. BodySize - 1 : packet_data[i] = <<p, HeaderSize + i>>
        noMode == k = 0 \/ (k = HeaderSize /\ sent[p] = "refused")
        aMode  == k = HeaderSize /\ sent[p] \in Configs
    IN  CASE whole /\ sent[p] \in Configs  -> {sent[p]}
          [] whole /\ sent[p] = "refused"  -> {NoFile}
          [] OTHER -> {"overrun"} \cup (IF noMode THEN {} ELSE {Junk})
                                  \cup (IF aMode THEN {} ELSE {NoFile})

(***************************************************************************)
(* osi_TaskDelete(&updater_hdnl) by task u, with which it means to end     *)
(* itself: it ends the task created last.  If that is another one, u       *)
(* goes on with what follows (next), the file or the end of its function;  *)
(* if that one has ended before, what happens is undefined (stray).        *)
(***************************************************************************)
DeleteUpdater(u, next) ==
    upd' = IF updater_hdnl = u
           THEN [upd EXCEPT ![u] = NoTask]
           ELSE [upd EXCEPT ![updater_hdnl] = NoTask,
                            ![u] = IF upd[updater_hdnl] = NoTask THEN Stray ELSE next]

Parse(u) ==
    /\ upd[u].pc = "begin" /\ header = "config"
    /\ \E c \in Parsed :
          CASE c = NoFile    -> DeleteUpdater(u, [pc |-> "save", cfg |-> Junk])
            [] c = "overrun" -> upd' = [upd EXCEPT ![u] = Stray]
            [] OTHER         -> upd' = [upd EXCEPT ![u] = [pc |-> "save", cfg |-> c]]
    /\ UNCHANGED <<sent, wire, state, want, got, packet_data, header, updater_hdnl, stored>>

\* A packet of another type: the task ends.
Ignore(u) ==
    /\ upd[u].pc = "begin" /\ header = "other"
    /\ DeleteUpdater(u, Stray)
    /\ UNCHANGED <<sent, wire, state, want, got, packet_data, header, updater_hdnl, stored>>

SaveOpen(u) ==
    /\ upd[u].pc = "save"
    /\ \/ FsOpen /\ upd' = [upd EXCEPT ![u].pc = "write"]
       \/ UNCHANGED stored /\ DeleteUpdater(u, Restarting)
    /\ UNCHANGED <<sent, wire, state, want, got, packet_data, header, updater_hdnl>>

\* Whether sl_FsClose succeeds is not looked at: if only that fails the device
\* is restarted as if the configuration were saved.
SaveWrite(u) ==
    /\ upd[u].pc = "write"
    /\ \/ FsWriteClose(upd[u].cfg) /\ upd' = [upd EXCEPT ![u] = Restarting]
       \/ FsFailed /\ upd' = [upd EXCEPT ![u] = Restarting]
       \/ FsFailed /\ DeleteUpdater(u, Restarting)
    /\ UNCHANGED <<sent, wire, state, want, got, packet_data, header, updater_hdnl>>

WiredTypeOK ==
    /\ sent \in Seq(Kinds)
    /\ state \in {"header", "body"}
    /\ want \in 0 .. U8 - 1 /\ got \in 0 .. want
    /\ header \in {"config", "other"}
    /\ upd \in [Updaters -> [pc : {"none", "begin", "save", "write", "restart", "stray"},
                             cfg : Configs \cup {Junk, NoFile}]]
    /\ updater_hdnl \in Updaters \cup {0}
=============================================================================
