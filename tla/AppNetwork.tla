----------------------------- MODULE AppNetwork -----------------------------
(***************************************************************************)
(* app_network.c: the Wi-Fi thread of the camera application, the calls of *)
(* its API (one caller), and the daemons they start.  The thread and the   *)
(* API share the two configuration files and three flags without a lock;   *)
(* a step here is one access to what they share.  The kernel, hostapd,     *)
(* wpa_supplicant and udhcpc are external: they associate, get a lease and *)
(* lose them at any time, and the commands that start them may fail.       *)
(***************************************************************************)
CONSTANTS Cred,     \* usable credentials
          None,     \* no file / no supplicant
          Empty     \* a file renamed into place before its text is flushed

VARIABLES conf, try,                    \* the two configuration files
          running, process_exit, request_reset,
          state, late,                  \* wifi_state; its deadline: FALSE (none or
                                        \* not yet), or TRUE (passed)
          thr,                          \* the thread's next step, "none" without one
          api, arg,                     \* the caller's next step and its argument
          discarded,                    \* a failed call has removed try.conf
          wpa, ap, dhcp, assoc, ip      \* daemons, association, address

files == <<conf, try>>
flags == <<running, process_exit, request_reset>>
link  == <<wpa, ap, dhcp, assoc, ip>>
call == <<api, arg, discarded>>
vars == <<files, flags, state, late, thr, call, link>>

States == {"INIT", "RESET", "PROVISIONING", "CONNECTING", "IPSETUP", "CONNECTED"}
WithDeadline == {"CONNECTING", "IPSETUP"}      \* the states entered with a timeout

\* Every variable has its type.
TypeOK ==
    /\ conf \in Cred \cup {None, Empty} /\ try \in Cred \cup {None, Empty}
    /\ running \in BOOLEAN /\ process_exit \in BOOLEAN /\ request_reset \in BOOLEAN
    /\ state \in States /\ late \in BOOLEAN
    /\ thr \in {"none", "boot", "loop", "run", "try", "conf", "wpaTry", "wpaConf",
                "ap", "commit", "done"}
    /\ api \in {"idle", "created", "join", "unlink", "conf", "try", "flushConf",
               "flushTry", "flag"}
    /\ arg \in Cred \cup {None} /\ discarded \in BOOLEAN
    /\ wpa \in Cred \cup {None} /\ ap \in BOOLEAN /\ dhcp \in BOOLEAN
    /\ assoc \in BOOLEAN /\ ip \in BOOLEAN

Init ==
    /\ conf \in Cred \cup {None} /\ try \in Cred \cup {None}
    /\ running = FALSE /\ process_exit = FALSE /\ request_reset = FALSE
    /\ state = "INIT" /\ late = FALSE /\ thr = "none"
    /\ api = "idle" /\ arg = None /\ discarded = FALSE
    /\ wpa = None /\ ap = FALSE /\ dhcp = FALSE /\ assoc = FALSE /\ ip = FALSE

wpasup_network_configured(file) == file \in Cred

wifi_set_state(s) == state' = s /\ late' = FALSE

\* A shell command: TRUE when it ran, FALSE when it failed or was killed on its time limit.
wifi_run == BOOLEAN
wifi_wpa_connected == assoc
wifi_ip_configured == ip

-----------------------------------------------------------------------------
(* The thread.  Each handler ends at the loop's top. *)

\* Discards what a previous boot left of a try.
wifi_thread ==
    /\ thr = "boot" /\ thr' = "loop"
    /\ try' = None /\ wifi_set_state("INIT")
    /\ UNCHANGED <<conf, flags, call, link>>

LoopTop ==
    /\ thr = "loop"
    /\ IF process_exit
       THEN thr' = "done" /\ UNCHANGED <<request_reset, state, late>>
       ELSE /\ thr' = "run" /\ request_reset' = FALSE
            /\ IF request_reset THEN wifi_set_state("RESET") ELSE UNCHANGED <<state, late>>
    /\ UNCHANGED <<files, running, process_exit, call, link>>

wifi_handle_init ==
    /\ thr = "run" /\ state = "INIT" /\ thr' = "loop"
    /\ wifi_set_state("RESET") \/ UNCHANGED <<state, late>>   \* the interface is there or not
    /\ UNCHANGED <<files, flags, call, link>>

\* wifi_kill_daemons.
KillDaemons(ran) ==
    IF ran THEN wpa' = None /\ ap' = FALSE /\ dhcp' = FALSE /\ assoc' = FALSE
           ELSE UNCHANGED <<wpa, ap, dhcp, assoc>>

wifi_handle_reset(ran) ==
    /\ thr = "run" /\ state = "RESET" /\ thr' = "try"
    /\ KillDaemons(ran)
    /\ ip' = (ip /\ ~ran)
    /\ UNCHANGED <<files, flags, state, late, call>>

\* The file to connect with: try.conf first, then the official one.
PickConf ==
    /\ \/ thr = "try" /\ thr' = IF wpasup_network_configured(try) THEN "wpaTry" ELSE "conf"
       \/ thr = "conf" /\ thr' = IF wpasup_network_configured(conf) THEN "wpaConf" ELSE "ap"
    /\ UNCHANGED <<files, flags, state, late, call, link>>

\* Mutant: the request is taken as served once the supplicant has been started.
wifi_start_wpa_served(file, ran) ==
    /\ thr' = "loop" /\ request_reset' = FALSE
    /\ IF ran /\ wpasup_network_configured(file) /\ wpa = None
       THEN wpa' = file /\ wifi_set_state("CONNECTING")
       ELSE UNCHANGED <<wpa, state, late>>
    /\ UNCHANGED <<files, running, process_exit, call, ap, dhcp, assoc, ip>>

\* wpa_supplicant reads the file when it starts; it does not start without a usable one
\* or beside another instance.
wifi_start_wpa(file, ran) ==
    /\ thr' = "loop"
    /\ IF ran /\ wpasup_network_configured(file) /\ wpa = None
       THEN wpa' = file /\ wifi_set_state("CONNECTING")
       ELSE UNCHANGED <<wpa, state, late>>
    /\ UNCHANGED <<files, flags, call, ap, dhcp, assoc, ip>>

StartWpa(ran) ==
    \/ thr = "wpaTry" /\ wifi_start_wpa(try, ran)
    \/ thr = "wpaConf" /\ wifi_start_wpa(conf, ran)

\* The address is set first; hostapd may be left running when dnsmasq fails.
wifi_start_ap(ran) ==
    /\ thr = "ap" /\ thr' = "loop" /\ ip' = TRUE
    /\ IF ran THEN ap' = TRUE /\ wifi_set_state("PROVISIONING")
              ELSE ap' \in {ap, TRUE} /\ UNCHANGED <<state, late>>
    /\ UNCHANGED <<files, flags, call, wpa, dhcp, assoc>>

wifi_handle_provisioning ==
    /\ thr = "run" /\ state = "PROVISIONING" /\ thr' = "loop"
    /\ IF wpasup_network_configured(conf)
       THEN wifi_set_state("RESET") ELSE UNCHANGED <<state, late>>
    /\ UNCHANGED <<files, flags, call, link>>

\* The old udhcpc is killed and a new one started; a failure is logged.
wifi_start_udhcpc(ran) == dhcp' \in (IF ran THEN {TRUE} ELSE {FALSE, dhcp})

\* Mutant: the timeout leaves the try in place.
wifi_handle_connecting_keeps(ran) ==
    /\ thr = "run" /\ state = "CONNECTING" /\ thr' = "loop"
    /\ IF wifi_wpa_connected THEN wifi_start_udhcpc(ran) /\ wifi_set_state("IPSETUP")
       ELSE /\ IF late THEN wifi_set_state("RESET") ELSE UNCHANGED <<state, late>>
            /\ UNCHANGED dhcp
    /\ UNCHANGED <<files, flags, call, wpa, ap, assoc, ip>>

wifi_handle_connecting(ran) ==
    /\ thr = "run" /\ state = "CONNECTING" /\ thr' = "loop"
    /\ IF wifi_wpa_connected
       THEN wifi_start_udhcpc(ran) /\ wifi_set_state("IPSETUP") /\ UNCHANGED try
       ELSE /\ IF late THEN try' = None /\ wifi_set_state("RESET")
                       ELSE UNCHANGED <<try, state, late>>
            /\ UNCHANGED dhcp
    /\ UNCHANGED <<conf, flags, call, wpa, ap, assoc, ip>>

wifi_handle_ipsetup(ran) ==
    /\ thr = "run" /\ state = "IPSETUP"
    /\ IF wifi_ip_configured
       THEN IF wpasup_network_configured(try)
            THEN thr' = "commit" /\ UNCHANGED <<try, state, late, dhcp, ip>>
            ELSE thr' = "loop" /\ wifi_set_state("CONNECTED") /\ UNCHANGED <<try, dhcp, ip>>
       ELSE /\ thr' = "loop"
            /\ IF late
               THEN /\ dhcp' = (dhcp /\ ~ran) /\ ip' = (ip /\ ~ran)
                    /\ IF wpasup_network_configured(try)
                       THEN try' = None /\ wifi_set_state("RESET")
                       ELSE wifi_set_state("CONNECTING") /\ UNCHANGED try
               ELSE UNCHANGED <<try, state, late, dhcp, ip>>
    /\ UNCHANGED <<conf, flags, call, wpa, ap, assoc>>

\* try.conf becomes the official file: rename() replaces it at once, or fails.
wifi_commit_try_conf(ran) ==
    /\ thr = "commit" /\ thr' = "loop"
    /\ IF ran /\ wpasup_network_configured(try)
       THEN conf' = try /\ try' = None ELSE UNCHANGED files
    /\ wifi_set_state("CONNECTED")
    /\ UNCHANGED <<flags, call, link>>

wifi_handle_connected ==
    /\ thr = "run" /\ state = "CONNECTED" /\ thr' = "loop"
    /\ IF ~wifi_wpa_connected \/ ~wifi_ip_configured THEN wifi_set_state("RESET") ELSE UNCHANGED <<state, late>>
    /\ UNCHANGED <<files, flags, call, link>>

Thread ==
    \/ wifi_thread \/ LoopTop \/ wifi_handle_init \/ PickConf
    \/ wifi_handle_provisioning \/ wifi_handle_connected
    \/ \E ran \in wifi_run :
          \/ wifi_handle_reset(ran) \/ wifi_handle_connecting(ran) \/ StartWpa(ran) \/ wifi_start_ap(ran)
          \/ wifi_handle_ipsetup(ran) \/ wifi_commit_try_conf(ran)

\* A command of the thread fails.
Fault == wifi_handle_reset(FALSE) \/ StartWpa(FALSE) \/ wifi_start_ap(FALSE)

\* time(NULL) reaches the deadline of the state.
Deadline ==
    /\ state \in WithDeadline /\ ~late /\ late' = TRUE
    /\ UNCHANGED <<files, flags, state, thr, call, link>>

-----------------------------------------------------------------------------
(* The API. *)

app_wifi_init ==
    \/ /\ api = "idle" /\ ~running
       /\ process_exit' = FALSE /\ request_reset' = FALSE
       /\ state' = "INIT" /\ thr' = "boot" /\ api' = "created"
       /\ UNCHANGED <<files, running, late, arg, discarded, link>>
    \/ /\ api = "created" /\ api' = "idle" /\ running' = TRUE
       /\ UNCHANGED <<files, process_exit, request_reset, state, late, thr, arg, discarded, link>>

\* The daemons stay, so that the link survives the program.
app_wifi_deinit ==
    \/ /\ api = "idle" /\ running /\ process_exit' = TRUE /\ api' = "join"
       /\ UNCHANGED <<files, running, request_reset, state, late, thr, arg, discarded, link>>
    \/ /\ api = "join" /\ thr = "done" /\ thr' = "none" /\ api' = "idle"
       /\ running' = FALSE /\ process_exit' = FALSE /\ request_reset' = FALSE
       /\ state' = "INIT" /\ late' = FALSE
       /\ UNCHANGED <<files, arg, discarded, link>>

\* The text goes to a temporary file which is renamed and only then closed: until the
\* close flushes it the file is there and empty.  A refused ssid or password, or a
\* failing fopen or rename, ends the call.
wifi_write_provision_conf ==
    /\ api \in {"conf", "try"}
    /\ \/ /\ conf' = IF api = "conf" THEN Empty ELSE conf
          /\ try' = IF api = "try" THEN Empty ELSE try
          /\ api' = IF api = "conf" THEN "flushConf" ELSE "flushTry"
          /\ UNCHANGED <<arg, discarded>>
       \/ /\ api' = "idle" /\ arg' = None /\ discarded' = (discarded \/ api = "conf")
          /\ UNCHANGED files
    /\ UNCHANGED <<flags, state, late, thr, link>>

\* fclose writes to the file that was renamed, wherever it is by now.
FlushConf ==
    /\ api \in {"flushConf", "flushTry"} /\ api' = "flag"
    /\ conf' = IF api = "flushConf" /\ conf = Empty THEN arg ELSE conf
    /\ try' = IF api = "flushTry" /\ try = Empty THEN arg ELSE try
    /\ UNCHANGED <<flags, state, late, thr, arg, discarded, link>>

\* An empty ssid clears the credentials; try.conf is removed before the text is written.
app_wifi_provision(c) ==
    /\ api = "idle" /\ arg' = c
    /\ IF c = None
       THEN conf' = None /\ api' = "unlink" /\ UNCHANGED try
       ELSE try' = None /\ api' = "conf" /\ UNCHANGED conf
    /\ UNCHANGED <<flags, state, late, thr, discarded, link>>

app_wifi_provision_fallsafe(c) ==
    /\ api = "idle" /\ arg' = c
    /\ api' = IF c = None THEN "unlink" ELSE "try"
    /\ UNCHANGED <<files, flags, state, late, thr, discarded, link>>

RemoveTry ==
    /\ api = "unlink" /\ api' = "flag" /\ try' = None
    /\ UNCHANGED <<conf, flags, state, late, thr, arg, discarded, link>>

app_wifi_reload ==
    /\ api = "idle" /\ api' = "flag"
    /\ UNCHANGED <<files, flags, state, late, thr, arg, discarded, link>>

\* Every call that succeeds asks a running thread for a RESET.
RequestReset ==
    /\ api = "flag" /\ api' = "idle" /\ arg' = None
    /\ request_reset' = (request_reset \/ running)
    /\ discarded' = (discarded /\ ~running)
    /\ UNCHANGED <<files, running, process_exit, state, late, thr, link>>

Api ==
    \/ app_wifi_init \/ app_wifi_deinit \/ app_wifi_reload
    \/ \E c \in Cred \cup {None} : app_wifi_provision(c) \/ app_wifi_provision_fallsafe(c)
    \/ wifi_write_provision_conf \/ FlushConf \/ RemoveTry \/ RequestReset

\* External: the supplicant associates or loses the network, udhcpc the address.
Network ==
    /\ \/ wpa # None /\ assoc' = ~assoc /\ UNCHANGED ip
       \/ dhcp /\ assoc /\ ip' = ~ip /\ UNCHANGED assoc
    /\ UNCHANGED <<files, flags, state, late, thr, call, wpa, ap, dhcp>>

\* The program is killed, at any step: the files and the daemons stay as they are.
Killed ==
    /\ thr # "none"
    /\ running' = FALSE /\ process_exit' = FALSE /\ request_reset' = FALSE
    /\ state' = "INIT" /\ late' = FALSE /\ thr' = "none"
    /\ api' = "idle" /\ arg' = None /\ discarded' = FALSE
    /\ UNCHANGED <<files, link>>

Next == Thread \/ Deadline \/ Api \/ Network \/ Killed

\* The thread is scheduled and the clock advances; nothing is assumed of the caller,
\* of the network and of the daemons.
Spec == Init /\ [][Next]_vars /\ WF_vars(Thread) /\ WF_vars(Deadline)

-----------------------------------------------------------------------------
\* From now on the thread runs and no call is under way.
Quiet == running /\ api = "idle"

\* A try ends: when the caller is done and no command fails any more, the machine does
\* not stay for ever outside CONNECTED with a try.conf it neither commits nor removes,
\* whatever the network does.  (The timeouts of wifi_handle_connecting and
\* wifi_handle_ipsetup; a rename that fails leaves try.conf in CONNECTED.)
TryEnds ==
    (<>[]Quiet /\ <>[][~Fault]_vars) => []<>(try = None \/ state = "CONNECTED")

\* The daemon follows the files: after the last successful call the supplicant comes to
\* run with the official credentials and with no others, provided the interface is there
\* and no call that failed has removed a try on its way.  (app_wifi_provision sets the flag
\* after the files are written; wifi_thread clears it before it reads them.)
Agreed ==
    (<>[](Quiet /\ state # "INIT" /\ try = None /\ conf \in Cred /\ ~discarded)
        /\ <>[][~Fault]_vars)
    => []<>(wpa = conf) /\ <>[](wpa \in {conf, None})

\* What the comment at the head of app_network.c says of a try: try.conf is moved to
\* wpa_supplicant.conf if it "successful connected", so the credentials the thread
\* commits are those the supplicant has connected with.
CommittedTried == [][thr = "commit" /\ thr' = "loop" /\ conf' # conf => conf' = wpa]_vars
=============================================================================
