-------------------------------- MODULE Wlan --------------------------------
(***************************************************************************)
(* src/wlan_config.c: the task that wlan_start creates connects the device *)
(* to a network, or opens an access point, while its creator polls         *)
(* wlan_status; the configuration is kept in a file of the network         *)
(* processor.  (Nothing calls wlan_stop.)                                  *)
(*                                                                         *)
(* A configuration is a value; Junk stands for every one that nobody meant *)
(* (bytes of several packets, or of none), Torn for a file that was opened *)
(* to be written and does not hold what was to be written.                 *)
(***************************************************************************)
EXTENDS Naturals

CONSTANTS
    Configs,                \* what a user may configure
    Default,                \* get_default_config
    AccessPoints,           \* those of Configs whose mode is WLAN_CONFIG_AP
    Junk, Torn, NoFile,
    MAX_CONNECTING_TIME

ASSUME ConfigAssumption ==
    /\ AccessPoints \subseteq Configs
    /\ Default \notin AccessPoints
    /\ {Junk, Torn, NoFile} \cap (Configs \cup {Default}) = {}
    /\ Junk # Torn /\ Junk # NoFile /\ Torn # NoFile
ASSUME TimeAssumption == MAX_CONNECTING_TIME \in Nat \ {0}

VARIABLES
    stored,     \* CONFIG_FNAME; it survives restarts
    wl_status,
    start_stop_lock,
    powered,    \* the network processor, which also keeps the files, is started
    spc,        \* wlan_start_task: "none" before it is created, "begin",
                \* "start", "ap", "sta", "connect", "wait", "delay", "connected",
                \* "failed", "unlock", "done"
    tries,      \* connecting_time, 0 outside its loop
    asked,      \* the network processor has been told to connect, ...
    online      \* ... and g_ulStatus has both bits: connected, with an address

wlan == <<wl_status, start_stop_lock, powered, spc, tries, asked, online>>

WlanInit ==
    /\ wl_status = "READY" /\ start_stop_lock = FALSE /\ powered = FALSE
    /\ spc = "none" /\ tries = 0 /\ asked = FALSE /\ online = FALSE

\* A restart loses all but the file.
WlanReset ==
    /\ wl_status' = "READY" /\ start_stop_lock' = FALSE /\ powered' = FALSE
    /\ spc' = "none" /\ tries' = 0 /\ asked' = FALSE /\ online' = FALSE

\* sl_Start and sl_Stop, either of which may fail.
SlStart == powered' \in {powered, TRUE}
SlStop  == powered' \in {powered, FALSE}

\* The modes a configuration may have: those of Junk are what its byte says.
IsAp(c)  == c \in AccessPoints \cup {Junk}
IsSta(c) == c \notin AccessPoints

-----------------------------------------------------------------------------

\* wlan_init; whether sl_Start succeeds is not looked at.
WlanInitialize ==
    /\ SlStart
    /\ UNCHANGED <<wl_status, start_stop_lock, spc, tries, asked, online>>

\* Mutant of WlanStart: the status is left to the new task.
WlanStartQuietly(pc) ==
    /\ start_stop_lock' = TRUE
    /\ spc' = pc
    /\ UNCHANGED <<wl_status, powered, tries, asked, online>>

\* wlan_start, the created task being at pc ("none" if there is none).  The
\* lock is taken with timeout 0, and whether it was is not looked at.
WlanStart(pc) ==
    /\ start_stop_lock' = TRUE
    /\ wl_status' = "CONNECTING"
    /\ spc' = pc
    /\ UNCHANGED <<powered, tries, asked, online>>

-----------------------------------------------------------------------------
(* wlan_start_task(c): any call of the network processor may fail. *)

StartBegin ==
    /\ spc = "begin"
    /\ SlStop
    /\ spc' = "start"
    /\ UNCHANGED <<wl_status, start_stop_lock, tries, asked, online>>

\* sl_Start, and the branch to configure_ap or configure_sta.
StartMode(c) ==
    /\ spc = "start"
    /\ \/ spc' = "failed" /\ UNCHANGED powered
       \/ powered' = TRUE /\ IsAp(c) /\ spc' = "ap"
       \/ powered' = TRUE /\ IsSta(c) /\ spc' = "sta"
    /\ UNCHANGED <<wl_status, start_stop_lock, tries, asked, online>>

(***************************************************************************)
(* configure_ap returns a bool: an error code becomes true, and an access  *)
(* point that sl_Start did not open becomes false, which is 0.  Neither is *)
(* negative, so the start has always succeeded.                            *)
(***************************************************************************)
ConfigureAp ==
    /\ spc = "ap"
    /\ SlStart
    /\ spc' = "connected"
    /\ UNCHANGED <<wl_status, start_stop_lock, tries, asked, online>>

\* configure_sta: the network processor is stopped ...
ConfigureSta ==
    /\ spc = "sta"
    /\ \/ powered' = FALSE /\ spc' = "connect"
       \/ UNCHANGED powered /\ spc' = "failed"
    /\ UNCHANGED <<wl_status, start_stop_lock, tries, asked, online>>

\* ... and started, which may fail unseen, and told to connect.
Connect ==
    /\ spc = "connect"
    /\ \/ powered' = TRUE /\ asked' = TRUE /\ spc' = "wait"
       \/ SlStart /\ UNCHANGED asked /\ spc' = "failed"
    /\ UNCHANGED <<wl_status, start_stop_lock, tries, online>>

\* The test of the loop that waits for the event.
WaitEvent ==
    /\ spc = "wait"
    /\ IF online THEN spc' = "connected" /\ tries' = 0
                 ELSE spc' = "delay" /\ UNCHANGED tries
    /\ UNCHANGED <<wl_status, start_stop_lock, powered, asked, online>>

\* Mutant of Timeout: it falls out of the loop.
TimeoutFallsThrough ==
    /\ tries' = 0 /\ spc' = "connected"
    /\ \/ asked' = FALSE /\ SlStop
       \/ UNCHANGED <<asked, powered>>

(***************************************************************************)
(* sl_WlanDisconnect, sl_Stop: the connection is ended by either, or by    *)
(* none if both fail, which is not looked at.  The bits of g_ulStatus stay *)
(* as they are, whatever has come since the loop's test.                   *)
(***************************************************************************)
Timeout ==
    /\ tries' = 0 /\ spc' = "failed"
    /\ \/ asked' = FALSE /\ SlStop
       \/ UNCHANGED <<asked, powered>>

\* Mutant of Delay: the time is counted after it is compared.
DelayPostIncrement ==
    /\ spc = "delay"
    /\ IF tries = MAX_CONNECTING_TIME
       THEN Timeout
       ELSE tries' = tries + 1 /\ spc' = "wait" /\ UNCHANGED <<asked, powered>>
    /\ UNCHANGED <<wl_status, start_stop_lock, online>>

\* The end of a turn, over a second after its test: the LED has blinked.
Delay ==
    /\ spc = "delay"
    /\ IF tries + 1 = MAX_CONNECTING_TIME
       THEN Timeout
       ELSE tries' = tries + 1 /\ spc' = "wait" /\ UNCHANGED <<asked, powered>>
    /\ UNCHANGED <<wl_status, start_stop_lock, online>>

\* Mutant of StartResult: a failure leaves the status.
StartResultOk ==
    /\ spc \in {"connected", "failed"}
    /\ wl_status' = IF spc = "connected" THEN "CONNECTED" ELSE wl_status
    /\ spc' = "unlock"
    /\ UNCHANGED <<start_stop_lock, powered, tries, asked, online>>

\* The result is the status, ...
StartResult ==
    /\ spc \in {"connected", "failed"}
    /\ wl_status' = IF spc = "connected" THEN "CONNECTED" ELSE "READY"
    /\ spc' = "unlock"
    /\ UNCHANGED <<start_stop_lock, powered, tries, asked, online>>

\* ... and the task unlocks and deletes itself.
StartExit ==
    /\ spc = "unlock"
    /\ start_stop_lock' = FALSE
    /\ spc' = "done"
    /\ UNCHANGED <<wl_status, powered, tries, asked, online>>

StartTask(c) ==
    \/ StartBegin \/ StartMode(c) \/ ConfigureAp \/ ConfigureSta \/ Connect
    \/ WaitEvent \/ Delay \/ StartResult \/ StartExit

\* The events of the network set and clear the bits of g_ulStatus at any time
\* while it may be connected; nothing reads them after the loop.
NetworkEvent ==
    /\ asked /\ powered /\ spc \in {"wait", "delay"}
    /\ online' = ~online
    /\ UNCHANGED <<wl_status, start_stop_lock, powered, spc, tries, asked>>

-----------------------------------------------------------------------------
(* wlan_save_config(c).  Without the network processor every call fails; *)
(* with it any may. *)

\* sl_FsOpen: the file is created anew, or what it held is kept until it is
\* closed.
FsOpen == powered /\ stored' \in {stored, Torn}

\* sl_FsWrite and sl_FsClose: before it is closed the file is what it was.
FsWriteClose(c) == powered /\ stored' = c

\* One of the two fails, and part of the bytes may be in the file.
FsFailed == stored' \in {stored, Torn}

\* What wlan_load_config, or else get_default_config, may return: of a torn
\* file there may be nothing to read, which is no error.
LoadResults ==
    IF powered /\ stored = Torn THEN {Default, Junk}
    ELSE {Default} \cup IF powered /\ stored # NoFile THEN {stored} ELSE {}

WlanTypeOK ==
    /\ stored \in Configs \cup {Junk, Torn, NoFile}
    /\ wl_status \in {"READY", "CONNECTING", "CONNECTED"}
    /\ start_stop_lock \in BOOLEAN
    /\ powered \in BOOLEAN
    /\ spc \in {"none", "begin", "start", "ap", "sta", "connect", "wait", "delay",
                "connected", "failed", "unlock", "done"}
    /\ tries \in 0 .. MAX_CONNECTING_TIME - 1
    /\ asked \in BOOLEAN /\ online \in BOOLEAN
=============================================================================
