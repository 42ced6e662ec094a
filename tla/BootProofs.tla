----------------------------- MODULE BootProofs -----------------------------
(***************************************************************************)
(* Proofs about the boot, for any configurations, timeout, packets and     *)
(* number of updater tasks.  The argument is the order in which the init   *)
(* task and wlan_start_task move: one waits for the other's status.        *)
(***************************************************************************)
EXTENDS Boot, TLAPS

\* Before wlan_start nothing of the network is up.
BeforeStart ==
    ipc \in {"init", "load", "start"} => spc = "none" /\ services = {}

\* Until the start task sets the status it is CONNECTING, and the init task
\* polls; the network processor has been told to connect only in the loop.
WhileStarting ==
    /\ spc = "none" => services = {}
    /\ spc \in {"begin", "start", "ap", "sta", "connect", "wait", "delay",
               "connected", "failed"} =>
           wl_status = "CONNECTING" /\ ipc = "wait" /\ services = {}
    /\ spc = "ap" => IsAp(config)
    /\ spc \in {"wait", "delay"} => asked /\ powered
    /\ spc = "connected" => (asked /\ powered) \/ IsAp(config)

\* Then the status says what has become of it.
AfterStart ==
    /\ spc \in {"unlock", "done"} =>
           \/ wl_status = "READY"
           \/ wl_status = "CONNECTED" /\ ((asked /\ powered) \/ IsAp(config))
    /\ ipc = "services" \/ services # {} =>
           wl_status = "CONNECTED" /\ spc \in {"unlock", "done"}
    /\ ipc = "wait" => spc # "none"

\* The inductive invariant.
IInv == TypeOK /\ BeforeStart /\ WhileStarting /\ AfterStart

\* What it says of the network, apart from the types.
Order == BeforeStart /\ WhileStarting /\ AfterStart

-----------------------------------------------------------------------------

LEMMA LostInv ==
    ASSUME stored \in Configs \cup {Junk, Torn, NoFile}, Lost, hung' \in BOOLEAN
    PROVE  IInv'
<1> USE ConfigAssumption, TimeAssumption, SizeAssumption, UpdaterAssumption
<1>1. WlanTypeOK'
    <2>1. tries' \in 0 .. MAX_CONNECTING_TIME - 1
        BY DEF Lost, WlanReset
    <2>2. stored' = stored
        BY DEF Lost
    <2> QED
        BY <2>1, <2>2 DEF Lost, WlanReset, WlanTypeOK
<1>2. WiredTypeOK'
    <2>1. sent' \in Seq(Kinds)
        BY DEF Lost, WiredReset
    <2>2. upd' \in [Updaters -> [pc : {"none", "begin", "save", "write", "restart", "stray"},
                                 cfg : Configs \cup {Junk, NoFile}]]
        BY DEF Lost, WiredReset, NoTask
    <2> QED
        BY <2>1, <2>2 DEF Lost, WiredReset, WiredTypeOK
<1>3. TypeOK'
    BY <1>1, <1>2 DEF TypeOK, Lost, Ended
<1>4. Order'
    BY DEF Order, BeforeStart, WhileStarting, AfterStart, Lost, WlanReset
<1> QED
    BY <1>3, <1>4 DEF IInv, Order

LEMMA InitInv == Init => IInv
<1> SUFFICES ASSUME Init PROVE IInv
    OBVIOUS
<1> USE ConfigAssumption, TimeAssumption, SizeAssumption, UpdaterAssumption
<1>1. WlanTypeOK
    <2>1. tries \in 0 .. MAX_CONNECTING_TIME - 1
        BY DEF Init, WlanInit
    <2>2. stored \in Configs \cup {Junk, Torn, NoFile}
        BY DEF Init
    <2> QED
        BY <2>1, <2>2 DEF Init, WlanInit, WlanTypeOK
<1>2. WiredTypeOK
    <2>1. sent \in Seq(Kinds)
        BY DEF Init, WiredInit
    <2>2. upd \in [Updaters -> [pc : {"none", "begin", "save", "write", "restart", "stray"},
                                cfg : Configs \cup {Junk, NoFile}]]
        BY DEF Init, WiredInit, NoTask
    <2> QED
        BY <2>1, <2>2 DEF Init, WiredInit, WiredTypeOK
<1>3. TypeOK
    BY <1>1, <1>2 DEF TypeOK, Init, Ended
<1>4. Order
    BY DEF Order, BeforeStart, WhileStarting, AfterStart, Init, WlanInit
<1> QED
    BY <1>3, <1>4 DEF IInv, Order

-----------------------------------------------------------------------------
(* The init task and the start task *)

LEMMA WiredStutter == WiredTypeOK /\ UNCHANGED wired => WiredTypeOK'
BY DEF WiredTypeOK, wired

LEMMA WlanStutter == WlanTypeOK /\ UNCHANGED <<stored, wlan>> => WlanTypeOK'
BY DEF WlanTypeOK, wlan

LEMMA InitTaskStep ==
    ASSUME IInv, InitTask
    PROVE  IInv'
<1> USE ConfigAssumption, TimeAssumption, SizeAssumption DEF IInv
<1>1. WiredTypeOK'
    <2>1. CASE WiredConfStart
        BY <2>1 DEF WiredConfStart, WiredRecv, TypeOK, WiredTypeOK
    <2>2. CASE UNCHANGED wired
        BY <2>2, WiredStutter DEF TypeOK
    <2> QED
        BY <2>1, <2>2 DEF InitTask, InitDevice, LoadConfig, StartWlan, Poll, StartServices
<1>2. WlanTypeOK'
    <2>1. CASE StartWlan
        BY <2>1 DEF StartWlan, WlanStart, TypeOK, WlanTypeOK
    <2>2. CASE UNCHANGED <<stored, wlan>>
        BY <2>2, WlanStutter DEF TypeOK
    <2>3. CASE InitDevice /\ WlanInitialize
        BY <2>3 DEF InitDevice, WlanInitialize, SlStart, TypeOK, WlanTypeOK
    <2> QED
        BY <2>1, <2>2, <2>3 DEF InitTask, InitDevice, LoadConfig, Poll, StartServices
<1>3. config' \in Configs \cup {Default, Junk, NoFile}
    <2>1. CASE LoadConfig
        <3>1. stored \in Configs \cup {Junk, Torn, NoFile}
            BY DEF TypeOK, WlanTypeOK
        <3> QED
            BY <2>1, <3>1 DEF LoadConfig, LoadResults
    <2> QED
        BY <2>1 DEF InitTask, InitDevice, StartWlan, Poll, StartServices, TypeOK
<1>4. TypeOK'
    BY <1>1, <1>2, <1>3
       DEF TypeOK, InitTask, InitDevice, LoadConfig, StartWlan, Poll, StartServices, Goto, Ended
<1>5. Order'
    <2> USE DEF Order, BeforeStart, WhileStarting, AfterStart, wlan, Goto
    <2>1. CASE InitDevice
        BY <2>1 DEF InitDevice, WlanInitialize
    <2>2. CASE LoadConfig
        BY <2>2 DEF LoadConfig
    <2>3. CASE StartWlan
        BY <2>3 DEF StartWlan, WlanStart
    <2>4. CASE Poll
        BY <2>4 DEF Poll, TypeOK, WlanTypeOK
    <2>5. CASE StartServices
        BY <2>5 DEF StartServices
    <2> QED
        BY <2>1, <2>2, <2>3, <2>4, <2>5 DEF InitTask
<1> QED
    BY <1>4, <1>5 DEF Order

LEMMA StartTaskStep ==
    ASSUME IInv, StartWlanTask
    PROVE  IInv'
<1> USE ConfigAssumption, TimeAssumption DEF IInv
<1>1. WlanTypeOK'
    <2>1. \A n \in 0 .. MAX_CONNECTING_TIME - 1 :
              n + 1 # MAX_CONNECTING_TIME => n + 1 \in 0 .. MAX_CONNECTING_TIME - 1
        OBVIOUS
    <2>2. tries' \in 0 .. MAX_CONNECTING_TIME - 1
        BY <2>1 DEF StartWlanTask, StartTask, StartBegin, StartMode, ConfigureAp, ConfigureSta,
              Connect, WaitEvent, Delay, Timeout, StartResult, StartExit, TypeOK, WlanTypeOK
    <2>3. powered' \in BOOLEAN /\ asked' \in BOOLEAN /\ online' \in BOOLEAN
        BY DEF StartWlanTask, StartTask, StartBegin, StartMode, ConfigureAp, ConfigureSta,
              Connect, WaitEvent, Delay, Timeout, StartResult, StartExit, SlStart, SlStop,
              TypeOK, WlanTypeOK
    <2> QED
        BY <2>2, <2>3
           DEF StartWlanTask, StartTask, StartBegin, StartMode, ConfigureAp, ConfigureSta,
              Connect, WaitEvent, Delay, Timeout, StartResult, StartExit, TypeOK, WlanTypeOK
<1>2. TypeOK'
    BY <1>1, WiredStutter DEF TypeOK, StartWlanTask, task
<1>3. Order'
    <2> USE DEF Order, BeforeStart, WhileStarting, AfterStart, task, TypeOK, IsAp
    <2>1. ipc' = ipc /\ config' = config /\ services' = services
        BY DEF StartWlanTask
    <2>2. CASE StartBegin
        BY <2>1, <2>2 DEF StartBegin
    <2>3. CASE StartMode(config)
        BY <2>1, <2>3 DEF StartMode
    <2>4. CASE ConfigureAp
        BY <2>1, <2>4 DEF ConfigureAp
    <2>5. CASE ConfigureSta
        BY <2>1, <2>5 DEF ConfigureSta
    <2>6. CASE Connect
        BY <2>1, <2>6 DEF Connect
    <2>7. CASE WaitEvent
        BY <2>1, <2>7 DEF WaitEvent
    <2>8. CASE Delay
        BY <2>1, <2>8 DEF Delay, Timeout
    <2>9. CASE StartResult
        BY <2>1, <2>9 DEF StartResult
    <2>10. CASE StartExit
        BY <2>1, <2>10 DEF StartExit
    <2> QED
        BY <2>2, <2>3, <2>4, <2>5, <2>6, <2>7, <2>8, <2>9, <2>10 DEF StartWlanTask, StartTask
<1> QED
    BY <1>2, <1>3 DEF Order

-----------------------------------------------------------------------------
(* The wired configurator, the interrupts and the environment: the network *)
(* does not depend on them. *)

LEMMA Elsewhere ==
    ASSUME Order, UNCHANGED <<wlan, task>>
    PROVE  Order'
BY DEF Order, BeforeStart, WhileStarting, AfterStart, wlan, task, IsAp

\* The values an updater task may have.
UpdType == [Updaters -> [pc : {"none", "begin", "save", "write", "restart", "stray"},
                         cfg : Configs \cup {Junk, NoFile}]]

LEMMA DeleteType ==
    ASSUME upd \in UpdType, NEW u \in Updaters,
           NEW next \in {Stray, Restarting, [pc |-> "save", cfg |-> Junk]},
           DeleteUpdater(u, next)
    PROVE  upd' \in UpdType
BY DEF UpdType, DeleteUpdater, Stray, Restarting, NoTask

LEMMA UpdaterStep ==
    ASSUME IInv, NEW u \in Updaters, Updater(u)
    PROVE  IInv'
<1> USE DEF IInv
<1>1. upd \in UpdType /\ stored \in Configs \cup {Junk, Torn, NoFile}
    BY DEF TypeOK, WiredTypeOK, WlanTypeOK, UpdType
<1>2. upd' \in UpdType /\ stored' \in Configs \cup {Junk, Torn, NoFile}
    <2>1. CASE Parse(u)
        <3>1. PICK c \in Parsed :
                  CASE c = NoFile    -> DeleteUpdater(u, [pc |-> "save", cfg |-> Junk])
                    [] c = "overrun" -> upd' = [upd EXCEPT ![u] = Stray]
                    [] OTHER         -> upd' = [upd EXCEPT ![u] = [pc |-> "save", cfg |-> c]]
            BY <2>1 DEF Parse
        <3>2. c \in Configs \cup {Junk, NoFile, "overrun"}
            BY DEF Parsed
        <3>3. CASE upd' = [upd EXCEPT ![u] = [pc |-> "save", cfg |-> c]] /\ c # "overrun"
            BY <1>1, <2>1, <3>2, <3>3 DEF UpdType, Parse
        <3>4. CASE DeleteUpdater(u, [pc |-> "save", cfg |-> Junk])
            <4>1. upd' \in UpdType
                BY <1>1, <3>4, DeleteType
            <4> QED
                BY <1>1, <2>1, <4>1 DEF Parse
        <3>5. CASE upd' = [upd EXCEPT ![u] = Stray]
            BY <1>1, <2>1, <3>5 DEF UpdType, Stray, Parse
        <3> QED
            BY <3>1, <3>3, <3>4, <3>5
    <2>2. CASE Ignore(u)
        BY <1>1, <2>2, DeleteType DEF Ignore
    <2>3. CASE SaveOpen(u)
        <3>1. stored' \in Configs \cup {Junk, Torn, NoFile}
            BY <1>1, <2>3 DEF SaveOpen, FsOpen
        <3>2. CASE upd' = [upd EXCEPT ![u].pc = "write"]
            BY <1>1, <3>1, <3>2 DEF UpdType
        <3>3. CASE DeleteUpdater(u, Restarting)
            BY <1>1, <3>1, <3>3, DeleteType
        <3> QED
            BY <2>3, <3>2, <3>3 DEF SaveOpen
    <2>4. CASE SaveWrite(u)
        <3>1. stored' \in Configs \cup {Junk, Torn, NoFile}
            <4>1. upd[u].cfg \in Configs \cup {Junk, NoFile}
                BY <1>1 DEF UpdType
            <4> QED
                BY <1>1, <2>4, <4>1 DEF SaveWrite, FsWriteClose, FsFailed
        <3>2. CASE upd' = [upd EXCEPT ![u] = Restarting]
            BY <1>1, <3>1, <3>2 DEF UpdType, Restarting
        <3>3. CASE DeleteUpdater(u, Restarting)
            BY <1>1, <3>1, <3>3, DeleteType
        <3> QED
            BY <2>4, <3>2, <3>3 DEF SaveWrite
    <2> QED
        BY <2>1, <2>2, <2>3, <2>4 DEF Updater
<1>3. UNCHANGED <<sent, wire, state, want, got, packet_data, header, updater_hdnl>>
    BY DEF Updater, Parse, Ignore, SaveOpen, SaveWrite
<1>4. WiredTypeOK'
    BY <1>2, <1>3 DEF TypeOK, WiredTypeOK, UpdType
<1>5. WlanTypeOK'
    BY <1>2 DEF TypeOK, WlanTypeOK, Updater, wlan
<1>6. UNCHANGED <<wlan, task, hung>> /\ flaw' \in BOOLEAN
    BY DEF Updater, TypeOK
<1>7. TypeOK'
    BY <1>4, <1>5, <1>6 DEF TypeOK, task
<1> QED
    BY <1>6, <1>7, Elsewhere DEF Order

LEMMA IrqStep ==
    ASSUME IInv, Irq
    PROVE  IInv'
<1> USE SizeAssumption DEF IInv
<1>1. upd' \in UpdType /\ updater_hdnl' \in Updaters \cup {0}
    <2>1. ASSUME NEW u \in Updaters, NewUpdater(u)
          PROVE  upd' \in UpdType /\ updater_hdnl' \in Updaters \cup {0}
        BY <2>1 DEF NewUpdater, TypeOK, WiredTypeOK, UpdType
    <2> QED
        BY <2>1 DEF Irq, IrqHeader, IrqRefused, IrqNoTask, IrqBody, TypeOK, WiredTypeOK, UpdType
<1>2. /\ want' \in 0 .. U8 - 1 /\ got' = 0
      /\ state' \in {"header", "body"} /\ header' \in {"config", "other"}
      /\ sent' = sent
    <2>1. \A n \in Nat : n % U8 \in 0 .. U8 - 1
        OBVIOUS
    <2>2. HeaderSize \in Nat /\ \A kind : SizeOf(kind) \in Nat
        BY DEF SizeOf
    <2>3. want' \in 0 .. U8 - 1 /\ got' = 0
        <3>1. CASE IrqHeader \/ IrqBody
            <4>1. got' = 0 /\ \E n \in Nat : want' = n % U8
                BY <2>2, <3>1 DEF IrqHeader, IrqBody, WiredRecv
            <4> QED
                BY <2>1, <4>1
        <3>2. CASE IrqRefused \/ IrqNoTask
            BY <3>2 DEF IrqRefused, IrqNoTask, Deaf
        <3> QED
            BY <3>1, <3>2 DEF Irq
    <2> QED
        BY <2>3 DEF Irq, IrqHeader, IrqRefused, IrqNoTask, IrqBody, TypeOK, WiredTypeOK
<1>3. WiredTypeOK'
    BY <1>1, <1>2 DEF TypeOK, WiredTypeOK, UpdType
<1>4. UNCHANGED <<stored, wlan, task, hung>> /\ flaw' \in BOOLEAN
    BY DEF Irq, TypeOK
<1>5. TypeOK'
    BY <1>3, <1>4, WlanStutter DEF TypeOK, task
<1> QED
    BY <1>4, <1>5, Elsewhere DEF Order

LEMMA OutsideStep ==
    ASSUME IInv, Uart \/ Network \/ \E kind \in Kinds : Host(kind)
    PROVE  IInv'
<1> USE SizeAssumption DEF IInv
<1>1. CASE Uart
    <2>1. got + 1 \in 0 .. want
        BY <1>1 DEF Uart, Transfer, TypeOK, WiredTypeOK
    <2>2. WiredTypeOK'
        BY <1>1, <2>1 DEF Uart, Transfer, TypeOK, WiredTypeOK
    <2>3. TypeOK'
        BY <1>1, <2>2, WlanStutter DEF Uart, TypeOK, task
    <2> QED
        BY <1>1, <2>3, Elsewhere DEF Order, Uart
<1>2. CASE Network
    <2>1. TypeOK'
        BY <1>2, WiredStutter DEF Network, NetworkEvent, TypeOK, WlanTypeOK, task
    <2>2. Order'
        BY <1>2 DEF Network, NetworkEvent, Order, BeforeStart, WhileStarting, AfterStart, task, IsAp
    <2> QED
        BY <2>1, <2>2 DEF Order
<1>3. ASSUME NEW kind \in Kinds, Host(kind) PROVE IInv'
    <2>1. WiredTypeOK'
        BY <1>3 DEF Host, HostSend, TypeOK, WiredTypeOK
    <2>2. TypeOK'
        BY <1>3, <2>1, WlanStutter DEF Host, TypeOK, task
    <2> QED
        BY <1>3, <2>2, Elsewhere DEF Order, Host
<1> QED
    BY <1>1, <1>2, <1>3

LEMMA ResolverStep ==
    ASSUME IInv, ResolverEnds
    PROVE  IInv'
<1>1. TypeOK'
    BY WiredStutter, WlanStutter DEF IInv, ResolverEnds, TypeOK
<1>2. Order'
    BY DEF IInv, ResolverEnds, Order, BeforeStart, WhileStarting, AfterStart, wlan, IsAp
<1> QED
    BY <1>1, <1>2 DEF IInv, Order

LEMMA NextInv == IInv /\ [Next]_vars => IInv'
<1> SUFFICES ASSUME IInv, [Next]_vars PROVE IInv'
    OBVIOUS
<1>1. ASSUME Lost, hung' \in BOOLEAN PROVE IInv'
    BY <1>1, LostInv DEF IInv, TypeOK, WlanTypeOK
<1>2. CASE Reset
    BY <1>1, <1>2 DEF Reset
<1>3. CASE Run
    <2>1. CASE InitTask \/ StartWlanTask \/ ResolverEnds
        BY <2>1, InitTaskStep, StartTaskStep, ResolverStep
    <2>2. CASE ResolverReturns \/ IrqHangs
        BY <1>1, <2>2 DEF ResolverReturns, IrqHangs, Hang
    <2>3. ASSUME NEW u \in Updaters, Updater(u) \/ SysRestart(u) \/ Fault(u)
          PROVE  IInv'
        BY <1>1, <1>2, <2>3, UpdaterStep DEF SysRestart, Fault, Hang
    <2>4. CASE Irq
        BY <2>4, IrqStep
    <2>5. CASE Uart \/ Network \/ \E kind \in Kinds : Host(kind)
        BY <2>5, OutsideStep
    <2> QED
        BY <1>3, <2>1, <2>2, <2>3, <2>4, <2>5 DEF Run
<1>4. CASE UNCHANGED vars
    <2>1. UNCHANGED <<stored, wlan>> /\ UNCHANGED wired /\ UNCHANGED task
        BY <1>4 DEF vars
    <2>2. TypeOK'
        BY <1>4, <2>1, WlanStutter, WiredStutter DEF IInv, TypeOK, vars, task
    <2> QED
        BY <2>1, <2>2, Elsewhere DEF IInv, Order
<1> QED
    BY <1>2, <1>3, <1>4 DEF Next

LEMMA Invariance == Spec => []IInv
BY InitInv, NextInv, PTL DEF Spec

-----------------------------------------------------------------------------

\* Every variable keeps its type, whatever fails and whenever power is lost:
\* no transfer goes past its size, and the loop that waits for the network
\* counts no further than its limit.
THEOREM BootTypes == Spec => []TypeOK
<1>1. IInv => TypeOK
    BY DEF IInv
<1> QED
    BY <1>1, Invariance, PTL

\* wlan_start_task reads the config of the init task only while that task is
\* waiting for it, whatever the order in which the two are scheduled.
THEOREM ConfigOutlives == Spec => []ConfigAlive
<1>1. IInv => ConfigAlive
    BY DEF IInv, WhileStarting, ConfigAlive
<1> QED
    BY <1>1, Invariance, PTL

\* Services run only after a start that has succeeded, and in station mode
\* only while the network processor is told to stay connected: no event that
\* comes in the delay before a start is given up makes a difference.
THEOREM ServicesAfterNetwork == Spec => []ServicesOnNetwork
<1>1. IInv => ServicesOnNetwork
    BY DEF IInv, WhileStarting, AfterStart, ServicesOnNetwork
<1> QED
    BY <1>1, Invariance, PTL

\* The init task's loop waits for nothing that does not come: as long as the
\* status is not set, the start task is on its way to its result.
THEOREM StatusIsSet == Spec => []StatusComes
<1>1. IInv => StatusComes
    BY DEF IInv, AfterStart, StatusComes, TypeOK, WlanTypeOK
<1> QED
    BY <1>1, Invariance, PTL

-----------------------------------------------------------------------------
(* The first packet of a boot, from the wire to the file *)

Idle == \A u \in Updaters : upd[u] = NoTask

Bytes == Nat \X Nat

\* The size of a packet whose size fits.
Total == HeaderSize + BodySize

\* But for its first n bytes packet 1 is on the wire, then bytes of others.
OnWire(n) ==
    /\ wire \in Seq(Bytes) /\ Len(wire) >= Total - n
    /\ \A i \in 1 .. Len(wire) :
          IF i <= Total - n THEN wire[i] = <<1, n + i - 1>> ELSE wire[i][1] > 1

\* Its bytes from the one called first have been put into the first n places.
InPlace(first, n) == \A j \in 0 .. n - 1 : packet_data[j] = <<1, first + j>>

\* parse_header has said what the packet is.
Typed == header = "config" => sent[1] \in Configs \cup {"refused"}

\* Before a packet is sent.
NothingSent ==
    /\ wire = <<>> /\ got = 0 /\ Idle
    /\ state = "header" /\ want \in {0, HeaderSize}

\* What becomes of it: the header comes, the body comes, a task is given it;
\* it is lost; or bytes of other packets have come.
HeaderComes ==
    state = "header" /\ want = HeaderSize /\ OnWire(got) /\ InPlace(0, got) /\ Idle

BodyComes ==
    /\ state = "body" /\ want = BodySize
    /\ OnWire(HeaderSize + got) /\ InPlace(HeaderSize, got) /\ Idle /\ Typed

Handed ==
    /\ want = HeaderSize /\ got = 0 /\ OnWire(Total) /\ Typed
    /\ InPlace(HeaderSize, BodySize)
    /\ \A u \in Updaters : upd[u] # NoTask =>
          /\ u = updater_hdnl
          /\ \/ upd[u].pc = "begin"
             \/ upd[u].pc \in {"save", "write"} /\ upd[u].cfg = sent[1]
             \/ upd[u].pc = "restart"

PacketLost == want = 0 /\ got = 0 /\ wire = <<>> /\ Idle

Mixed == OnWire(Total) /\ \E k \in Places : packet_data[k][1] > 1

Fits == sent # <<>> /\ sent[1] \notin {"long", "big"}

OnePacket ==
    /\ ipc = "init" => sent = <<>> /\ want = 0
    /\ sent = <<>> => NothingSent
    /\ sent = <<>> \/ Fits => packet_data \in [Places -> Bytes]
    /\ Fits => HeaderComes \/ BodyComes \/ Handed \/ PacketLost \/ Mixed

LEMMA PlaceOf ==
    /\ Total \in Nat /\ 0 \in Places
    /\ \A j \in Nat : j < HeaderSize \/ j < BodySize => j \in Places
BY SizeAssumption DEF Places, Total

\* A size that fits a _u8 is kept.
LEMMA Kept ==
    ASSUME NEW n \in 1 .. U8 - 1
    PROVE  n % U8 = n
BY SizeAssumption

\* Nothing has been sent in a boot that begins.
LEMMA OneReset ==
    ASSUME Lost
    PROVE  OnePacket'
<1>1. packet_data' \in [Places -> Bytes]
    BY DEF Lost, WiredReset, Bytes
<1>2. sent' = <<>> /\ want' = 0
    BY DEF Lost, WiredReset
<1>3. NothingSent'
    BY DEF Lost, WiredReset, NothingSent, Idle
<1> QED
    BY <1>1, <1>2, <1>3 DEF OnePacket, Fits

LEMMA OneInit == Init => OnePacket
<1> SUFFICES ASSUME Init PROVE OnePacket
    OBVIOUS
<1>1. packet_data \in [Places -> Bytes]
    BY DEF Init, WiredInit, Bytes
<1>2. sent = <<>> /\ want = 0
    BY DEF Init, WiredInit
<1>3. NothingSent
    BY DEF Init, WiredInit, NothingSent, Idle
<1> QED
    BY <1>1, <1>2, <1>3 DEF OnePacket, Fits

\* The steps of the others leave the packet where it is.
LEMMA OneElsewhere ==
    ASSUME OnePacket, UNCHANGED wired, ipc' = "init" => ipc = "init"
    PROVE  OnePacket'
BY DEF OnePacket, NothingSent, HeaderComes, BodyComes, Handed, PacketLost, Mixed, Fits, OnWire,
       InPlace, Idle, Typed, wired

LEMMA OneBegins ==
    ASSUME OnePacket, InitDevice
    PROVE  OnePacket'
<1>1. CASE UNCHANGED wired
    BY <1>1, OneElsewhere DEF InitDevice, Goto
<1>2. CASE WiredConfStart /\ ipc = "init" /\ ipc' = "load"
    <2>1. sent = <<>> /\ sent' = sent
        BY <1>2 DEF WiredConfStart, OnePacket
    <2>2. want' = HeaderSize
        BY <1>2, Kept, SizeAssumption DEF WiredConfStart, WiredRecv
    <2>3. NothingSent'
        BY <1>2, <2>1, <2>2 DEF OnePacket, NothingSent, Idle, WiredConfStart, WiredRecv
    <2> QED
        BY <1>2, <2>1, <2>3 DEF OnePacket, WiredConfStart, Fits
<1> QED
    BY <1>1, <1>2 DEF InitDevice, Goto

\* Bytes of other packets may follow on the wire.
LEMMA MoreOnWire ==
    ASSUME NEW n \in Nat, OnWire(n), NEW b \in Seq(Bytes), wire' = wire \o b,
           \A i \in 1 .. Len(b) : b[i][1] > 1
    PROVE  OnWire(n)'
<1>1. wire \in Seq(Bytes) /\ Len(wire) \in Nat /\ Len(b) \in Nat /\ Total \in Nat
    BY PlaceOf DEF OnWire
<1>2. wire' \in Seq(Bytes) /\ Len(wire') = Len(wire) + Len(b)
    BY <1>1
<1>3. ASSUME NEW i \in 1 .. Len(wire')
      PROVE  IF i <= Total - n THEN wire'[i] = <<1, n + i - 1>> ELSE wire'[i][1] > 1
    <2>1. CASE i <= Len(wire)
        <3>1. wire'[i] = wire[i] /\ i \in 1 .. Len(wire)
            BY <1>1, <2>1
        <3> QED
            BY <3>1 DEF OnWire
    <2>2. CASE i > Len(wire)
        <3>1. i - Len(wire) \in 1 .. Len(b) /\ ~(i <= Total - n)
            BY <1>1, <1>2, <2>2 DEF OnWire
        <3>2. wire'[i] = b[i - Len(wire)]
            BY <1>1, <1>2, <2>2
        <3> QED
            BY <3>1, <3>2
    <2> QED
        BY <1>1, <1>2, <2>1, <2>2
<1>4. Len(wire') >= Total - n
    BY <1>1, <1>2 DEF OnWire
<1> QED
    BY <1>2, <1>3, <1>4 DEF OnWire, Total

LEMMA OneSent ==
    ASSUME IInv, OnePacket, NEW kind \in Kinds, Host(kind)
    PROVE  OnePacket'
<1> USE SizeAssumption
<1>1. /\ sent \in Seq(Kinds) /\ sent' = Append(sent, kind) /\ Len(sent') = Len(sent) + 1
      /\ Len(sent) \in Nat /\ sent' # <<>>
    BY DEF IInv, TypeOK, WiredTypeOK, Host, HostSend
<1>2. UNCHANGED <<state, want, got, packet_data, header, upd, updater_hdnl, ipc>> /\ want > 0
    BY DEF Host, HostSend, task
<1>3. ipc' # "init"
    BY <1>2 DEF OnePacket
<1>4. PICK N \in Nat : N = Len(sent')
    BY <1>1
<1>5. SizeOf(kind) \in Nat
    BY DEF SizeOf
<1>6. PICK z \in Nat : z = HeaderSize + SizeOf(kind)
    BY <1>5
<1>7. PICK b : b = [k \in 1 .. z |-> <<N, k - 1>>]
    OBVIOUS
<1>8. wire' = wire \o b
    BY <1>4, <1>6, <1>7 DEF Host, HostSend
<1>9. b \in Seq(Bytes) /\ Len(b) = z /\ \A i \in 1 .. z : b[i] = <<N, i - 1>>
    BY <1>7 DEF Bytes
<1>10. CASE sent = <<>>
    <2>1. NothingSent /\ N = 1 /\ sent'[1] = kind /\ packet_data \in [Places -> Bytes]
        BY <1>1, <1>4, <1>10 DEF OnePacket
    <2>2. ASSUME Fits' PROVE HeaderComes'
        <3>1. z = Total
            BY <1>6, <2>1, <2>2 DEF Fits, SizeOf, Total
        <3>2. wire' = b
            BY <1>8, <1>9, <2>1 DEF NothingSent
        <3>3. OnWire(0)'
            BY <1>9, <2>1, <3>1, <3>2 DEF OnWire, Total
        <3> QED
            BY <1>2, <2>1, <3>3 DEF NothingSent, HeaderComes, InPlace, Idle
    <2> QED
        BY <1>1, <1>2, <1>3, <2>1, <2>2 DEF OnePacket
<1>11. CASE sent # <<>>
    <2>1. N > 1 /\ sent'[1] = sent[1] /\ Fits' = Fits
        BY <1>1, <1>4, <1>11 DEF Fits
    <2>2. ASSUME NEW n \in Nat, OnWire(n) PROVE OnWire(n)'
        <3>1. \A i \in 1 .. Len(b) : b[i][1] > 1
            BY <1>9, <2>1
        <3> QED
            BY <1>8, <1>9, <2>2, <3>1, MoreOnWire
    <2>3. ASSUME Fits PROVE HeaderComes' \/ BodyComes' \/ Handed' \/ Mixed'
        <3>1. got \in Nat /\ HeaderSize + got \in Nat /\ Total \in Nat
            BY PlaceOf DEF IInv, TypeOK, WiredTypeOK
        <3>2. CASE HeaderComes
            <4>1. OnWire(got)'
                BY <1>2, <2>2, <3>1, <3>2 DEF HeaderComes, OnWire
            <4> QED
                BY <1>2, <3>2, <4>1 DEF HeaderComes, InPlace, Idle
        <3>3. CASE BodyComes
            <4>1. OnWire(HeaderSize + got)'
                BY <1>2, <2>2, <3>1, <3>3 DEF BodyComes, OnWire
            <4> QED
                BY <1>2, <2>1, <3>3, <4>1 DEF BodyComes, InPlace, Idle, Typed
        <3>4. CASE Handed
            <4>1. OnWire(Total)'
                BY <2>2, <3>1, <3>4 DEF Handed, OnWire, Total
            <4> QED
                BY <1>2, <2>1, <3>4, <4>1 DEF Handed, InPlace, Typed
        <3>5. CASE Mixed
            <4>1. OnWire(Total)'
                BY <2>2, <3>1, <3>5 DEF Mixed, OnWire, Total
            <4> QED
                BY <1>2, <3>5, <4>1 DEF Mixed
        <3>6. ~PacketLost
            BY <1>2 DEF PacketLost
        <3> QED
            BY <2>3, <3>2, <3>3, <3>4, <3>5, <3>6 DEF OnePacket
    <2> QED
        BY <1>1, <1>2, <1>3, <1>11, <2>1, <2>3 DEF OnePacket
<1> QED
    BY <1>10, <1>11

\* The first byte of the wire is taken from it.
LEMMA FromWire ==
    ASSUME NEW n \in Nat, OnWire(n), wire # <<>>, wire' = Tail(wire)
    PROVE  /\ Head(wire) \in Bytes
           /\ n < Total => Head(wire) = <<1, n>> /\ OnWire(n + 1)'
           /\ n >= Total => Head(wire)[1] > 1 /\ OnWire(n)'
<1>1. wire \in Seq(Bytes) /\ Len(wire) \in Nat /\ Len(wire) > 0 /\ Total \in Nat
    BY PlaceOf DEF OnWire
<1>2. wire' \in Seq(Bytes) /\ Len(wire') = Len(wire) - 1 /\ Head(wire) = wire[1] /\ 1 \in 1 .. Len(wire)
    BY <1>1
<1>3. \A i \in 1 .. Len(wire') : i + 1 \in 1 .. Len(wire) /\ wire'[i] = wire[i + 1]
    BY <1>1, <1>2
<1>4. Head(wire) \in Bytes
    BY <1>1, <1>2
<1>5. ASSUME n < Total PROVE Head(wire) = <<1, n>> /\ OnWire(n + 1)'
    <2>1. wire[1] = <<1, n + 1 - 1>>
        BY <1>1, <1>2, <1>5 DEF OnWire
    <2>2. ASSUME NEW i \in 1 .. Len(wire')
          PROVE  IF i <= Total - (n + 1) THEN wire'[i] = <<1, (n + 1) + i - 1>> ELSE wire'[i][1] > 1
        <3>1. IF i + 1 <= Total - n THEN wire[i + 1] = <<1, n + (i + 1) - 1>> ELSE wire[i + 1][1] > 1
            BY <1>3 DEF OnWire
        <3>2. n + (i + 1) - 1 = (n + 1) + i - 1 /\ (i + 1 <= Total - n <=> i <= Total - (n + 1))
            BY <1>1
        <3> QED
            BY <1>3, <3>1, <3>2
    <2>3. Len(wire') >= Total - (n + 1)
        BY <1>1, <1>2 DEF OnWire
    <2>4. OnWire(n + 1)'
        BY <1>2, <2>2, <2>3 DEF OnWire, Total
    <2> QED
        BY <1>2, <2>1, <2>4
<1>6. ASSUME n >= Total PROVE Head(wire)[1] > 1 /\ OnWire(n)'
    <2>1. \A i \in 1 .. Len(wire) : wire[i][1] > 1
        BY <1>1, <1>6 DEF OnWire
    <2>2. ASSUME NEW i \in 1 .. Len(wire')
          PROVE  IF i <= Total - n THEN wire'[i] = <<1, n + i - 1>> ELSE wire'[i][1] > 1
        BY <1>1, <1>3, <1>6, <2>1
    <2>3. Len(wire') >= Total - n
        BY <1>1, <1>2, <1>6
    <2>4. OnWire(n)'
        BY <1>2, <2>2, <2>3 DEF OnWire, Total
    <2> QED
        BY <1>2, <2>1, <2>4
<1> QED
    BY <1>4, <1>5, <1>6

\* A byte of the first packet goes from the wire to its place.
LEMMA ByteTaken ==
    ASSUME NEW n \in Nat, NEW first \in Nat, NEW m \in Nat, m = got, n = first + m, n < Total,
           OnWire(n), InPlace(first, m), m \in Places,
           packet_data \in [Places -> Bytes],
           Transfer
    PROVE  /\ OnWire(n + 1)' /\ InPlace(first, m + 1)' /\ got' = m + 1
           /\ packet_data' \in [Places -> Bytes]
<1>1. /\ wire # <<>> /\ wire' = Tail(wire) /\ got' = m + 1
      /\ packet_data' = [packet_data EXCEPT ![m] = Head(wire)]
    BY DEF Transfer
<1>2. Head(wire) = <<1, n>> /\ Head(wire) \in Bytes /\ OnWire(n + 1)'
    BY <1>1, FromWire
<1>3. packet_data' \in [Places -> Bytes]
    BY <1>1, <1>2
<1>4. ASSUME NEW j \in 0 .. (m + 1) - 1 PROVE packet_data'[j] = <<1, first + j>>
    <2>1. CASE j = m
        BY <1>1, <1>2, <2>1
    <2>2. CASE j # m
        <3>1. j \in 0 .. m - 1
            BY <1>4, <2>2
        <3> QED
            BY <1>1, <2>2, <3>1 DEF InPlace
    <2> QED
        BY <2>1, <2>2
<1>5. InPlace(first, m + 1)'
    BY <1>1, <1>4 DEF InPlace
<1> QED
    BY <1>1, <1>2, <1>3, <1>5

\* A byte of another packet goes to packet_data.
LEMMA OtherTaken ==
    ASSUME OnWire(Total), got \in Places, packet_data \in [Places -> Bytes], Transfer
    PROVE  Mixed' /\ packet_data' \in [Places -> Bytes]
<1>1. wire # <<>> /\ wire' = Tail(wire) /\ packet_data' = [packet_data EXCEPT ![got] = Head(wire)]
    BY DEF Transfer
<1>2. PICK n \in Nat : n = Total
    BY PlaceOf
<1>3. OnWire(n) /\ n >= Total
    BY <1>2 DEF OnWire
<1>4. Head(wire)[1] > 1 /\ Head(wire) \in Bytes /\ OnWire(n)'
    BY <1>1, <1>3, FromWire
<1>5. packet_data'[got][1] > 1 /\ packet_data' \in [Places -> Bytes]
    BY <1>1, <1>4
<1>6. OnWire(Total)'
    BY <1>2, <1>4 DEF OnWire, Total
<1> QED
    BY <1>5, <1>6 DEF Mixed, Places

LEMMA OneByte ==
    ASSUME IInv, OnePacket, Uart
    PROVE  OnePacket'
<1> USE SizeAssumption
<1>1. /\ Transfer /\ wire # <<>> /\ got < want
      /\ UNCHANGED <<sent, state, want, header, upd, updater_hdnl, ipc>>
    BY DEF Uart, Transfer, task
<1>2. sent # <<>>
    BY <1>1 DEF OnePacket, NothingSent
<1>3. got \in Nat /\ want \in 0 .. U8 - 1 /\ got \in Places /\ Total \in Nat
    BY <1>1, PlaceOf DEF IInv, TypeOK, WiredTypeOK, Places
<1>4. PICK m \in Nat : m = got
    BY <1>3
<1>5. ASSUME Fits
      PROVE  /\ packet_data' \in [Places -> Bytes]
             /\ HeaderComes' \/ BodyComes' \/ Mixed'
    <2>1. packet_data \in [Places -> Bytes]
        BY <1>5 DEF OnePacket
    <2>2. CASE HeaderComes
        <3>1. want = HeaderSize /\ m < Total
            BY <1>1, <1>4, <2>2 DEF HeaderComes, Total
        <3>2. OnWire(m) /\ InPlace(0, m)
            BY <1>4, <2>2 DEF HeaderComes
        <3>3. /\ OnWire(m + 1)' /\ InPlace(0, m + 1)' /\ got' = m + 1
              /\ packet_data' \in [Places -> Bytes]
            BY <1>1, <1>3, <1>4, <2>1, <3>1, <3>2, ByteTaken
        <3>4. OnWire(got)' /\ InPlace(0, got)'
            BY <3>3 DEF OnWire, InPlace
        <3>5. HeaderComes'
            BY <1>1, <2>2, <3>4 DEF HeaderComes, Idle
        <3> QED
            BY <3>3, <3>5
    <2>3. CASE BodyComes
        <3>1. want = BodySize
            BY <2>3 DEF BodyComes
        <3>2. PICK n \in Nat : n = HeaderSize + m
            OBVIOUS
        <3>3. n < Total
            BY <1>1, <1>4, <3>1, <3>2 DEF Total
        <3>4. OnWire(n) /\ InPlace(HeaderSize, m)
            BY <1>4, <2>3, <3>2 DEF BodyComes
        <3>5. /\ OnWire(n + 1)' /\ InPlace(HeaderSize, m + 1)' /\ got' = m + 1
              /\ packet_data' \in [Places -> Bytes]
            BY <1>1, <1>3, <1>4, <2>1, <3>2, <3>3, <3>4, ByteTaken
        <3>6. n + 1 = HeaderSize + (m + 1)
            BY <3>2
        <3>7. OnWire(HeaderSize + got)' /\ InPlace(HeaderSize, got)'
            BY <3>5, <3>6 DEF OnWire, InPlace
        <3>8. BodyComes'
            BY <1>1, <2>3, <3>7 DEF BodyComes, Idle, Typed
        <3> QED
            BY <3>5, <3>8
    <2>4. CASE Handed \/ Mixed
        <3>1. OnWire(Total)
            BY <2>4 DEF Handed, Mixed
        <3> QED
            BY <1>1, <1>3, <2>1, <3>1, OtherTaken
    <2> QED
        BY <1>1, <1>5, <2>2, <2>3, <2>4 DEF OnePacket, PacketLost
<1> QED
    BY <1>1, <1>2, <1>5 DEF OnePacket, Fits

\* The transfers that the interrupt handler arms.
LEMMA OneInterrupt ==
    ASSUME IInv, OnePacket, Irq
    PROVE  OnePacket'
<1> USE SizeAssumption
<1>1. UNCHANGED <<sent, packet_data, ipc>> /\ want > 0 /\ got = want
    BY DEF Irq, IrqHeader, IrqRefused, IrqBody, IrqNoTask, Interrupt, task
<1>2. ipc # "init"
    BY <1>1 DEF OnePacket
<1>3. sent # <<>>
    <2> SUFFICES ASSUME sent = <<>> PROVE FALSE
        OBVIOUS
    <2>1. got = 0
        BY DEF OnePacket, NothingSent
    <2> QED
        BY <1>1, <2>1
<1>4. ASSUME Fits
      PROVE  BodyComes' \/ Handed' \/ PacketLost' \/ Mixed'
    <2>1. ~Handed /\ ~PacketLost
        BY <1>1 DEF Handed, PacketLost
    <2>2. CASE Mixed
        <3>1. wire' = wire \/ wire' = <<>>
            BY DEF Irq, IrqHeader, IrqRefused, IrqBody, IrqNoTask, Deaf
        <3>2. OnWire(Total)'
            <4>1. CASE wire' = wire
                BY <2>2, <4>1 DEF Mixed, OnWire, Total
            <4>2. CASE wire' = <<>>
                <5>1. wire' \in Seq(Bytes) /\ Len(wire') = 0
                    BY <4>2
                <5> QED
                    BY <5>1, PlaceOf DEF OnWire, Total
            <4> QED
                BY <3>1, <4>1, <4>2
        <3> QED
            BY <1>1, <2>2, <3>2 DEF Mixed
    <2>3. CASE ~Mixed /\ (IrqRefused \/ IrqNoTask)
        <3>1. Idle
            BY <1>4, <2>1, <2>3 DEF OnePacket, HeaderComes, BodyComes
        <3>2. PacketLost'
            BY <2>3, <3>1 DEF Idle, PacketLost, IrqRefused, IrqNoTask, Deaf
        <3> QED
            BY <3>2
    <2>4. CASE ~Mixed /\ IrqHeader
        <3>1. HeaderComes
            BY <1>4, <2>1, <2>4 DEF OnePacket, BodyComes, IrqHeader
        <3>2. OnWire(HeaderSize) /\ InPlace(0, HeaderSize)
            BY <1>1, <3>1 DEF HeaderComes
        <3>3. PICK p \in DOMAIN sent :
                  /\ HeaderOf(p) /\ WiredRecv(SizeOf(sent[p]))
                  /\ header' = IF sent[p] = "other" THEN "other" ELSE "config"
            BY <2>4 DEF IrqHeader
        <3>4. p = 1
            <4>1. packet_data[0] = <<p, 0>> /\ packet_data[0] = <<1, 0 + 0>>
                BY <3>2, <3>3 DEF HeaderOf, InPlace
            <4> QED
                BY <4>1
        <3>5. want' = BodySize /\ got' = 0
            <4>1. SizeOf(sent[p]) = BodySize
                BY <1>4, <3>4 DEF Fits, SizeOf
            <4> QED
                BY <3>3, <4>1, Kept DEF WiredRecv
        <3>6. state' = "body" /\ UNCHANGED <<wire, upd>>
            BY <2>4 DEF IrqHeader
        <3>7. OnWire(HeaderSize + got)' /\ InPlace(HeaderSize, got)'
            BY <3>2, <3>5, <3>6 DEF OnWire, InPlace, Total
        <3>8. Typed'
            <4>1. sent[1] \in Kinds /\ sent[1] \notin {"long", "big", "bad"}
                BY <1>4, <3>3, <3>4 DEF HeaderOf, Fits, IInv, TypeOK, WiredTypeOK
            <4> QED
                BY <1>1, <3>3, <3>4, <4>1 DEF Typed, Kinds
        <3>9. BodyComes'
            BY <3>1, <3>5, <3>6, <3>7, <3>8 DEF HeaderComes, BodyComes, Idle
        <3> QED
            BY <3>9
    <2>5. CASE ~Mixed /\ IrqBody
        <3>1. BodyComes
            BY <1>4, <2>1, <2>5 DEF OnePacket, HeaderComes, IrqBody
        <3>2. want = BodySize /\ OnWire(HeaderSize + got) /\ InPlace(HeaderSize, got) /\ Idle
            BY <3>1 DEF BodyComes
        <3>3. want' = HeaderSize /\ got' = 0 /\ wire' = wire
            BY <2>5, Kept DEF IrqBody, WiredRecv
        <3>4. OnWire(Total)'
            BY <1>1, <3>2, <3>3 DEF OnWire, Total
        <3>5. InPlace(HeaderSize, BodySize)'
            BY <1>1, <3>2 DEF InPlace
        <3>11. Typed'
            BY <1>1, <2>5, <3>1 DEF BodyComes, Typed, IrqBody
        <3>6. PICK u \in Updaters : NewUpdater(u)
            BY <2>5 DEF IrqBody
        <3>7. updater_hdnl' = u /\ upd' = [upd EXCEPT ![u] = [pc |-> "begin", cfg |-> NoFile]]
            BY <3>6 DEF NewUpdater
        <3>8. upd \in UpdType
            BY DEF IInv, TypeOK, WiredTypeOK, UpdType
        <3>9. ASSUME NEW v \in Updaters, upd'[v] # NoTask
              PROVE  v = updater_hdnl' /\ upd'[v].pc = "begin"
            BY <3>2, <3>7, <3>8, <3>9 DEF Idle, UpdType
        <3>10. Handed'
            BY <3>3, <3>4, <3>5, <3>9, <3>11 DEF Handed
        <3> QED
            BY <3>10
    <2> QED
        BY <2>2, <2>3, <2>4, <2>5 DEF Irq
<1> QED
    BY <1>1, <1>2, <1>3, <1>4 DEF OnePacket, Fits

\* What the task makes of the packet it was given.
LEMMA OneParsed ==
    ASSUME Handed, header = "config"
    PROVE  \A c \in Parsed : c = NoFile \/ c = sent[1]
<1>1. \A i \in 0 .. BodySize - 1 : packet_data[i] = <<1, HeaderSize + i>>
    BY DEF Handed, InPlace
<1>2. packet_data[0][1] = 1
    BY <1>1, SizeAssumption
<1>3. sent[1] \in Configs \/ sent[1] = "refused"
    BY DEF Handed, Typed
<1> QED
    BY <1>1, <1>2, <1>3 DEF Parsed

\* The task created last does end itself.
LEMMA DeletesItself ==
    ASSUME upd \in UpdType, NEW u \in Updaters, NEW next, u = updater_hdnl,
           DeleteUpdater(u, next)
    PROVE  upd'[u] = NoTask
<1>1. upd' = [upd EXCEPT ![u] = NoTask]
    BY DEF DeleteUpdater
<1> QED
    BY <1>1 DEF UpdType

\* It saves that, or ends: it is the only one, and the one created last.
LEMMA HandedStep ==
    ASSUME IInv, Fits, Handed, NEW u \in Updaters, Updater(u)
    PROVE  /\ Handed'
           /\ stored' # stored => stored' = Torn \/ stored' = sent[1]
<1>1. /\ upd \in UpdType
      /\ UNCHANGED <<sent, wire, want, got, packet_data, header, updater_hdnl>>
    BY DEF IInv, TypeOK, WiredTypeOK, UpdType, Updater, Parse, Ignore, SaveOpen, SaveWrite
<1>2. upd[u] # NoTask
    BY DEF Updater, Parse, Ignore, SaveOpen, SaveWrite, NoTask
<1>3. /\ u = updater_hdnl
      /\ \A v \in Updaters : v # u => upd[v] = NoTask
      /\ upd[u].pc \in {"save", "write"} => upd[u].cfg = sent[1]
    BY <1>2 DEF Handed
<1>4. \A v \in Updaters : v # u => upd'[v] = NoTask
    <2>1. CASE \E next : DeleteUpdater(u, next)
        BY <1>1, <1>3, <2>1 DEF UpdType, DeleteUpdater
    <2>2. CASE \E next : upd' = [upd EXCEPT ![u] = next]
        BY <1>1, <1>3, <2>2 DEF UpdType
    <2>3. CASE upd' = [upd EXCEPT ![u].pc = "write"]
        BY <1>1, <1>3, <2>3 DEF UpdType
    <2>4. CASE Parse(u)
        BY <2>1, <2>2, <2>4 DEF Parse
    <2> QED
        BY <2>1, <2>2, <2>3, <2>4 DEF Updater, Ignore, SaveOpen, SaveWrite
<1>5. /\ \/ upd'[u] = NoTask
         \/ upd'[u].pc = "restart"
         \/ upd'[u].pc \in {"save", "write"} /\ upd'[u].cfg = sent[1]
      /\ stored' # stored => stored' = Torn \/ stored' = sent[1]
    <2>1. \A next : DeleteUpdater(u, next) => upd'[u] = NoTask
        BY <1>1, <1>3, DeletesItself
    <2>2. CASE Parse(u)
        <3>1. stored' = stored /\ header = "config"
            BY <2>2 DEF Parse
        <3>2. PICK c \in Parsed :
                  CASE c = NoFile    -> DeleteUpdater(u, [pc |-> "save", cfg |-> Junk])
                    [] c = "overrun" -> upd' = [upd EXCEPT ![u] = Stray]
                    [] OTHER         -> upd' = [upd EXCEPT ![u] = [pc |-> "save", cfg |-> c]]
            BY <2>2 DEF Parse
        <3>3. c = NoFile \/ c = sent[1]
            BY <3>1, OneParsed
        <3>4. CASE c = NoFile
            <4>1. DeleteUpdater(u, [pc |-> "save", cfg |-> Junk])
                BY <3>2, <3>4, KindAssumption
            <4>2. upd'[u] = NoTask
                BY <2>1, <4>1
            <4> QED
                BY <3>1, <4>2
        <3>5. CASE c # NoFile
            <4>1. c = sent[1] /\ c # "overrun"
                BY <3>3, <3>5, <3>1, KindAssumption DEF Handed, Typed
            <4>2. upd' = [upd EXCEPT ![u] = [pc |-> "save", cfg |-> c]]
                BY <3>2, <3>5, <4>1
            <4>3. upd'[u].pc = "save" /\ upd'[u].cfg = sent[1]
                BY <1>1, <4>1, <4>2 DEF UpdType
            <4> QED
                BY <3>1, <4>3
        <3> QED
            BY <3>4, <3>5
    <2>3. CASE Ignore(u)
        BY <2>1, <2>3 DEF Ignore
    <2>4. CASE SaveOpen(u)
        <3>1. stored' # stored => stored' = Torn
            BY <2>4 DEF SaveOpen, FsOpen
        <3>2. CASE upd' = [upd EXCEPT ![u].pc = "write"]
            <4>1. upd[u].cfg = sent[1]
                BY <1>3, <2>4 DEF SaveOpen
            <4>2. upd'[u].pc = "write" /\ upd'[u].cfg = sent[1]
                BY <1>1, <3>2, <4>1 DEF UpdType
            <4> QED
                BY <3>1, <4>2
        <3> QED
            BY <2>1, <2>4, <3>1, <3>2 DEF SaveOpen
    <2>5. CASE SaveWrite(u)
        <3>1. upd[u].cfg = sent[1]
            BY <1>3, <2>5 DEF SaveWrite
        <3>2. stored' # stored => stored' = Torn \/ stored' = sent[1]
            BY <2>5, <3>1 DEF SaveWrite, FsWriteClose, FsFailed
        <3>3. CASE upd' = [upd EXCEPT ![u] = Restarting]
            <4>1. upd'[u].pc = "restart"
                BY <1>1, <3>3 DEF UpdType, Restarting
            <4> QED
                BY <3>2, <4>1
        <3> QED
            BY <2>1, <2>5, <3>2, <3>3 DEF SaveWrite
    <2> QED
        BY <2>2, <2>3, <2>4, <2>5 DEF Updater
<1>6. OnWire(Total)' /\ InPlace(HeaderSize, BodySize)' /\ Typed'
    BY <1>1 DEF Handed, OnWire, InPlace, Typed, Total
<1> QED
    BY <1>1, <1>3, <1>4, <1>5, <1>6 DEF Handed

LEMMA OneUpdater ==
    ASSUME IInv, OnePacket, NEW u \in Updaters, Updater(u)
    PROVE  /\ OnePacket'
           /\ FirstPacket /\ stored' # stored => stored' = Torn \/ stored' = sent[1]
<1>1. UNCHANGED <<sent, wire, want, got, packet_data, ipc>>
    BY DEF Updater, Parse, Ignore, SaveOpen, SaveWrite, task
<1>2. ~Idle
    BY DEF Idle, Updater, Parse, Ignore, SaveOpen, SaveWrite, NoTask
<1>3. sent # <<>>
    BY <1>2 DEF OnePacket, NothingSent
<1>4. ASSUME Fits
      PROVE  /\ Handed' \/ Mixed'
             /\ FirstPacket /\ stored' # stored => stored' = Torn \/ stored' = sent[1]
    <2>1. CASE Handed
        BY <1>4, <2>1, HandedStep
    <2>2. CASE Mixed
        <3>1. Mixed'
            BY <1>1, <2>2 DEF Mixed, OnWire, Total
        <3>2. ~FirstPacket
            <4>1. packet_data \in [Places -> Bytes]
                BY <1>4 DEF OnePacket
            <4>2. PICK k \in Places : packet_data[k][1] > 1
                BY <2>2 DEF Mixed
            <4>3. packet_data[k][1] \in Nat
                BY <4>1 DEF Bytes
            <4> QED
                BY <4>2, <4>3 DEF FirstPacket
        <3> QED
            BY <3>1, <3>2
    <2> QED
        BY <1>2, <1>4, <2>1, <2>2 DEF OnePacket, HeaderComes, BodyComes, PacketLost
<1>5. ASSUME ~Fits PROVE ~FirstPacket
    BY <1>3, <1>5 DEF Fits, FirstPacket
<1> QED
    BY <1>1, <1>3, <1>4, <1>5 DEF OnePacket, Fits

LEMMA OneNext ==
    ASSUME IInv, OnePacket, [Next]_vars
    PROVE  /\ OnePacket'
           /\ FirstPacket /\ stored' # stored => stored' = Torn \/ stored' = sent[1]
<1>1. ASSUME Lost PROVE OnePacket' /\ stored' = stored
    BY <1>1, OneReset DEF Lost
<1>2. CASE Reset
    BY <1>1, <1>2 DEF Reset
<1>3. CASE Run
    <2>1. CASE InitDevice
        BY <2>1, OneBegins DEF InitDevice
    <2>2. CASE \/ LoadConfig \/ StartWlan \/ Poll \/ StartServices
               \/ StartWlanTask \/ ResolverEnds \/ Network
        <3>1. UNCHANGED wired /\ stored' = stored /\ (ipc' = "init" => ipc = "init")
            BY <2>2 DEF LoadConfig, StartWlan, Poll, StartServices, StartWlanTask, ResolverEnds,
                  Network, Goto, task
        <3> QED
            BY <3>1, OneElsewhere
    <2>3. CASE ResolverReturns \/ IrqHangs
        BY <1>1, <2>3 DEF ResolverReturns, IrqHangs, Hang
    <2>4. ASSUME NEW u \in Updaters, SysRestart(u) \/ Fault(u)
          PROVE  OnePacket' /\ stored' = stored
        BY <1>1, <2>4 DEF SysRestart, Fault, Hang, Reset
    <2>5. ASSUME NEW u \in Updaters, Updater(u)
          PROVE  /\ OnePacket'
                 /\ FirstPacket /\ stored' # stored => stored' = Torn \/ stored' = sent[1]
        BY <2>5, OneUpdater
    <2>6. CASE Irq
        BY <2>6, OneInterrupt DEF Irq
    <2>7. CASE Uart
        BY <2>7, OneByte DEF Uart
    <2>8. ASSUME NEW kind \in Kinds, Host(kind) PROVE OnePacket' /\ stored' = stored
        BY <2>8, OneSent DEF Host
    <2> QED
        BY <1>3, <2>1, <2>2, <2>3, <2>4, <2>5, <2>6, <2>7, <2>8 DEF Run, InitTask
<1>4. CASE UNCHANGED vars
    BY <1>4, OneElsewhere DEF vars, task
<1> QED
    BY <1>2, <1>3, <1>4 DEF Next

\* Until a byte of a second packet is received nothing but the configuration
\* of the first is ever stored, or a torn file (updater_task,
\* wlan_save_config), for any sizes of header and body that fit a _u8 and
\* lengths that fit their arrays, and however the transfers, the tasks, the
\* failures and the losses of power fall together.
THEOREM OnlySentIsStored == Spec => StoredWasSent
<1>1. IInv /\ OnePacket /\ [Next]_vars =>
          /\ OnePacket'
          /\ FirstPacket /\ stored' # stored => stored' = Torn \/ stored' = sent[1]
    BY OneNext
<1> QED
    BY <1>1, OneInit, Invariance, PTL DEF StoredWasSent, Spec

=============================================================================
