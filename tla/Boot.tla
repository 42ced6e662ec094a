-------------------------------- MODULE Boot --------------------------------
(***************************************************************************)
(* src/main.c: vInitializationTask brings the device up beside the task    *)
(* that connects it (Wlan), the wired configurator (WiredConfigurator),    *)
(* which may restart it at any time, and src/udp_resolver.c, one of the    *)
(* services it starts.  A host sends packets over the wire, the network    *)
(* comes and goes, and power may be lost.                                  *)
(***************************************************************************)
EXTENDS WiredConfigurator

CONSTANT
    Hosts       \* bound: what a host may send between two restarts, each a
                \* sequence of packets

ASSUME HostAssumption == Hosts \subseteq Seq(Kinds)

VARIABLES
    ipc,        \* the init task: "init", "load", "start", "wait",
                \* "services"; "done" or "failed"
    config,     \* its config, which wlan_start_task reads
    services,   \* "resolver" and "handler", those that run
    hung,       \* the processor does not leave an interrupt or a fault
    flaw        \* history: in this boot a packet was lost to a call that failed
                \* though the network processor was started

task == <<ipc, config, services>>
vars == <<stored, wlan, wired, task, hung, flaw>>

Ended == {"done", "failed"}

Init ==
    /\ stored \in Configs \cup {NoFile}
    /\ WlanInit /\ WiredInit
    /\ ipc = "init" /\ config = NoFile /\ services = {}
    /\ hung = FALSE /\ flaw = FALSE

\* All but the file is lost.
Lost ==
    /\ WlanReset /\ WiredReset
    /\ ipc' = "init" /\ config' = NoFile /\ services' = {}
    /\ flaw' = FALSE
    /\ UNCHANGED stored

\* PRCMMCUReset, or the loss and return of power.
Reset == Lost /\ hung' = FALSE

\* The device hangs.  What its memory holds does not matter any more.
Hang == Lost /\ hung' = TRUE

-----------------------------------------------------------------------------
(* vInitializationTask *)

Goto(from, to) == ipc = from /\ ipc' = to

\* wlan_init may fail to make its lock; then wired_conf_start.
InitDevice ==
    /\ \/ Goto("init", "load") /\ WlanInitialize /\ WiredConfStart
       \/ Goto("init", "failed") /\ UNCHANGED <<wlan, wired>>
    /\ UNCHANGED <<stored, config, services, hung, flaw>>

LoadConfig ==
    /\ Goto("load", "start")
    /\ config' \in LoadResults
    /\ UNCHANGED <<stored, wlan, wired, services, hung, flaw>>

StartWlan ==
    /\ \/ Goto("start", "wait") /\ WlanStart("begin")
       \/ Goto("start", "failed") /\ WlanStart("none")
    /\ UNCHANGED <<stored, wired, config, services, hung, flaw>>

\* The loop over wlan_status, once it ends; bridge_start.
Poll ==
    /\ ipc = "wait" /\ wl_status # "CONNECTING"
    /\ ipc' = IF wl_status = "CONNECTED" THEN "services" ELSE "failed"
    /\ UNCHANGED <<stored, wlan, wired, config, services, hung, flaw>>

\* udp_resolver_start and packet_handler_start: a failure is not seen, of
\* the first for want of a return statement.
StartServices ==
    /\ Goto("services", "done")
    /\ services' \in SUBSET {"resolver", "handler"}
    /\ UNCHANGED <<stored, wlan, wired, config, hung, flaw>>

InitTask ==
    \/ InitDevice \/ LoadConfig \/ StartWlan \/ Poll \/ StartServices

-----------------------------------------------------------------------------
(* The other tasks *)

\* wlan_start_task reads the config on the stack of its creator.
StartWlanTask ==
    /\ StartTask(config)
    /\ UNCHANGED <<stored, wired, task, hung, flaw>>

Updater(u) ==
    /\ \/ (Parse(u) \/ Ignore(u)) /\ UNCHANGED flaw
       \/ SaveOpen(u) /\ flaw' = (flaw \/ (powered /\ upd'[u].pc # "write"))
       \/ SaveWrite(u) /\ flaw' = (flaw \/ (powered /\ stored' # upd[u].cfg))
    /\ UNCHANGED <<wlan, task, hung>>

\* sys_restart applies the new configuration.
SysRestart(u) == upd[u].pc = "restart" /\ Reset

\* A task that strays ends in a fault of the processor.
Fault(u) == upd[u].pc = "stray" /\ Hang

(***************************************************************************)
(* udp_resolver_task answers datagrams, which changes nothing here, until  *)
(* recvfrom or sendto fails: then it closes its socket and ends.           *)
(***************************************************************************)
ResolverEnds ==
    /\ "resolver" \in services
    /\ services' = services \ {"resolver"}
    /\ UNCHANGED <<stored, wlan, wired, ipc, config, hung, flaw>>

\* Of an empty datagram it takes the 0 for a failure, OSI_ASSERT_WITH_EXIT
\* does not, and the task returns from its function.
ResolverReturns == "resolver" \in services /\ Hang

-----------------------------------------------------------------------------
(* Interrupts *)

\* There is a task that may be holding print_lock.
Printing ==
    \/ ipc \notin Ended
    \/ spc \notin {"none", "done"}
    \/ services # {}
    \/ \E u \in Updaters : upd[u] # NoTask

(***************************************************************************)
(* parse_header prints the kind of type it looks for, and waits for the    *)
(* lock for ever: for a handler that interrupted its owner that is the     *)
(* end.  It prints nothing if the start byte or the size is wrong.         *)
(***************************************************************************)
IrqHangs == Interrupt /\ state = "header" /\ Printing /\ Hang

Irq ==
    /\ \/ (IrqHeader \/ IrqRefused \/ IrqBody) /\ UNCHANGED flaw
       \/ IrqNoTask /\ flaw' = TRUE
    /\ UNCHANGED <<stored, wlan, task, hung>>

Uart == Transfer /\ UNCHANGED <<stored, wlan, task, hung, flaw>>

-----------------------------------------------------------------------------
(* The environment *)

Host(kind) ==
    /\ \E h \in Hosts : Len(sent) < Len(h) /\ SubSeq(h, 1, Len(sent) + 1) = Append(sent, kind)
    /\ HostSend(kind)
    /\ UNCHANGED <<stored, wlan, task, hung, flaw>>

Network == NetworkEvent /\ UNCHANGED <<stored, wired, task, hung, flaw>>

\* The tasks that are scheduled, and the hardware.
Run ==
    \/ InitTask \/ StartWlanTask \/ ResolverEnds \/ ResolverReturns
    \/ \E u \in Updaters : Updater(u) \/ SysRestart(u) \/ Fault(u)
    \/ IrqHangs \/ Irq \/ Uart
    \/ \E kind \in Kinds : Host(kind)
    \/ Network

Next ==
    \/ Reset
    \/ ~hung /\ Run

(***************************************************************************)
(* FreeRTOS runs every task again and again: the init task sleeps between  *)
(* its polls, and a task that waits gives the processor to the others.     *)
(* The UART and its interrupts do not depend on tasks.                     *)
(***************************************************************************)
Fairness ==
    /\ WF_vars(~hung /\ InitTask) /\ WF_vars(~hung /\ StartWlanTask)
    /\ \A u \in Updaters : WF_vars(~hung /\ (Updater(u) \/ SysRestart(u)))
    /\ WF_vars(~hung /\ Irq) /\ WF_vars(~hung /\ Uart)

Spec     == Init /\ [][Next]_vars
FairSpec == Spec /\ Fairness

-----------------------------------------------------------------------------
(* Properties *)

\* The values of every variable.  What it says beyond types: a transfer never
\* goes past its size, and the start task gives up in time.
TypeOK ==
    /\ WlanTypeOK /\ WiredTypeOK
    /\ ipc \in {"init", "load", "start", "wait", "services"} \cup Ended
    /\ config \in Configs \cup {Default, Junk, NoFile}
    /\ services \subseteq {"resolver", "handler"}
    /\ hung \in BOOLEAN /\ flaw \in BOOLEAN

\* wlan_start_task is given a pointer to a variable of the init task
\* (main.c:263): as long as it may read it, the init task has not ended, since
\* wl_status says CONNECTING from before there is a start task.
ConfigAlive == spc \in {"begin", "start", "ap", "sta", "connect"} => ipc = "wait"

\* Services run only on a device whose start has succeeded, in station mode
\* only while the network processor is started and told to stay connected: not
\* on one that gives up, even if the network's event comes between the last
\* test for it and the end of the delay (wlan_config.c:104, 112).
ServicesOnNetwork ==
    services # {} => /\ wl_status = "CONNECTED"
                     /\ ~IsAp(config) => asked /\ powered

\* The init task, which polls without a limit (main.c:268), never waits for a
\* status that no one will set: while that says CONNECTING there is a start
\* task that has not yet come to its result.
StatusComes ==
    ipc = "wait" /\ wl_status = "CONNECTING" =>
        spc \notin {"none", "unlock", "done"}

\* The bytes that the updater tasks have before them are of the first packet,
\* whose size and lengths fit.
FirstPacket ==
    /\ sent # <<>> => sent[1] \notin {"long", "big"}
    /\ \A k \in Places : packet_data[k][1] <= 1

\* Whatever fails and whenever power is lost: until a byte of a second packet
\* is received nothing but the configuration of the first is written to the
\* file, or the file is torn, unless the size of that packet is no _u8 or one of
\* its lengths is too long (wired_configurator.c:36, 56-61).
StoredWasSent ==
    [][FirstPacket /\ stored' # stored => stored' = Torn \/ stored' = sent[1]]_vars

\* The init task ends, with the services or without, unless the device hangs
\* or is restarted.
Booted == (ipc \notin Ended) ~> (ipc \in Ended \cup {"init"})

\* Once it has been sent, a configuration that is the first packet of a boot,
\* and the only one, is saved, unless a call for memory or for the file fails,
\* the device hangs or power is lost.  It may not be saved if the network
\* processor, without which there are no files, is stopped on the way; on a
\* device that has given up finding its network (wlan_config.c:114) it is not.
ConfigTaken ==
    \A c \in Configs :
        (sent = <<c>> /\ Len(wire) = HeaderSize + BodySize) ~>
            (stored = c \/ flaw \/ ~powered \/ sent # <<c>>)

-----------------------------------------------------------------------------
(* What the repository says and the code does not do: TLC refutes it *)

\* wired_configurator.c:179: "Receive header again".  Between two packets the
\* configurator expects a header.
HeaderAgain ==
    want = HeaderSize /\ got = 0 /\ (wire = <<>> \/ Head(wire)[2] = 0) => state = "header"
=============================================================================
