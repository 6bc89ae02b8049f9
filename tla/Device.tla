------------------------------- MODULE Device -------------------------------
(***************************************************************************)
(* The main loop over the parts that have modules of their own: receive path,  *)
(* wake on WLAN, control endpoint, radio and key memory, with suspend and       *)
(* resume, the watchdog, reboot and the commands of the host.  WlanTx, IntRing, *)
(* DmaRing and WlanHang model the other handlers of the same loop.              *)
(*                                                                         *)
(* A behaviour ends where the firmware hands over to the boot ROM; what comes    *)
(* then is a new behaviour.                                                     *)
(***************************************************************************)
EXTENDS WakeOnWlan, UsbControl, Radio, KeyCam

CONSTANTS Parts,      \* bound of the model: the surroundings, one of them acts
          Air,        \* frames of the air while the host is awake
          Night,      \* frames of the air when it may sleep
          Filters,    \* the receive filters the host sets
          WolCmds     \* its WoL commands

ASSUME DeviceAssumption ==
  /\ Air \cup Night \subseteq Frame
  /\ Filters \subseteq SUBSET FilterBits
  /\ \A c \in WolCmds : c.flags \subseteq WolFlags

VARIABLES part,       \* the part that acts in this behaviour
          pc,         \* the handler the main loop is in
          intr,       \* AR9170_MAC_REG_INT_CTRL
          seen,       \* its copy in handle_wlan()
          bus,        \* the USB: "active" or "suspended"
          clock,      \* the CPU clock runs
          events,     \* USB_REG_INTR_SOURCE_7: RESET, SUSPEND, RESUME
          wdog,       \* the watchdog counts
          magic,      \* the upper half of PWR_REG_WATCH_DOG_MAGIC
          reboot,     \* fw.reboot
          stuck,      \* the CAM never gets ready
          pin, cachedPin \* the GPIO input and fw.cached_gpio_state

loopVars  == <<part, pc, seen>>
powerVars == <<bus, clock, events, wdog, magic, reboot, stuck>>
pinVars   == <<pin, cachedPin>>
vars == <<rxVars, wolVars, usbVars, radioVars, camVars, loopVars, intr, powerVars, pinVars>>

TypeOK ==
  /\ RxTypeOK /\ WolTypeOK /\ UsbTypeOK /\ RadioTypeOK /\ CamTypeOK
  /\ part \in Parts
  /\ pc \in {"fw", "wlan", "rx", "txc", "janitor", "host", "cmd", "cam", "ep0", "usb",
            "resume", "timer", "rom"}
  /\ intr \subseteq {"RXC", "TXC", "PRETBTT"} /\ seen \subseteq {"RXC", "TXC", "PRETBTT"}
  /\ bus \in {"active", "suspended"} /\ events \subseteq {"RESET", "SUSPEND", "RESUME"}
  /\ clock \in BOOLEAN /\ wdog \in BOOLEAN /\ reboot \in BOOLEAN /\ stuck \in BOOLEAN
  /\ magic \in {"1234", "9876"}
  /\ pin \in 0 .. 1 /\ cachedPin \in 0 .. 1

\* start() and init(), whatever the magic number said.
Init ==
  /\ RxInit /\ WolInit /\ UsbInit /\ RadioInit /\ CamInit
  /\ part \in Parts
  /\ part # "sleep" => lastBeacon = 0       \* bounds of the model
  /\ part # "usb" => address.configured
  /\ pc = "fw" /\ intr = {} /\ seen = {}
  /\ bus = "active" /\ clock = TRUE /\ events = {}
  /\ wdog = TRUE /\ magic = "1234" /\ reboot = FALSE /\ stuck = FALSE
  /\ pin = 0 /\ cachedPin = 0

Running(p) == pc = p /\ clock

-----------------------------------------------------------------------------
(* handle_fw() *)

\* reboot(): disable_watchdog(), power off, jump to the boot code.
Reboot == pc' = "rom" /\ wdog' = FALSE /\ magic' = "9876"

\* (Faulty: the watchdog is served only if it runs.)
ServeIfOn == wdog' = wdog
Serve     == wdog' = TRUE
HandleFw ==
  /\ Running("fw")
  /\ IF reboot THEN Reboot
     ELSE Serve /\ pc' = "wlan" /\ UNCHANGED magic
  /\ UNCHANGED <<rxVars, wolVars, usbVars, radioVars, camVars, intr, part, seen,
                 bus, clock, events, reboot, stuck, pinVars>>

-----------------------------------------------------------------------------
(* handle_wlan() *)

\* The handlers run in this order.  (Faulty: completion before reception.)
TxFirst(s)  == IF "TXC" \in s THEN "txc" ELSE IF "RXC" \in s THEN "rx" ELSE "janitor"
First(s)    == IF "RXC" \in s THEN "rx" ELSE IF "TXC" \in s THEN "txc" ELSE "janitor"
AfterRx(s)  == IF "TXC" \in s /\ First({"RXC", "TXC"}) = "rx" THEN "txc" ELSE "janitor"
AfterTxc(s) == IF "RXC" \in s /\ First({"RXC", "TXC"}) = "txc" THEN "rx" ELSE "janitor"

HandleWlan ==
  /\ Running("wlan")
  /\ seen' = intr \ {"PRETBTT"} /\ intr' = {}
  /\ IF "PRETBTT" \in intr THEN Pretbtt ELSE UNCHANGED radioVars
  /\ rxq' = [i \in DOMAIN rxq |-> [rxq[i] EXCEPT !.late = FALSE]]
  /\ pc' = First(intr)
  /\ UNCHANGED <<up, rxFilter, baVars, fwDesc, txVars, wolVars, usbVars, camVars,
                 part, powerVars, pinVars>>

HandleWlanRx ==
  /\ Running("rx")
  /\ RxFrame /\ WolRx(Head(rxq))
  /\ UNCHANGED <<usbVars, radioVars, camVars, loopVars, intr, powerVars, pinVars>>

RxDone ==
  /\ Running("rx") /\ rxq = <<>>
  /\ pc' = AfterRx(seen) /\ seen' = seen \ {"RXC"}
  /\ UNCHANGED <<rxVars, wolVars, usbVars, radioVars, camVars, part, intr, powerVars, pinVars>>

HandleTxCompletion ==
  /\ Running("txc")
  /\ TxCompletion
  /\ pc' = AfterTxc(seen) /\ seen' = seen \ {"TXC"}
  /\ UNCHANGED <<wolVars, usbVars, radioVars, camVars, part, intr, powerVars, pinVars>>

WlanJanitor ==
  /\ Running("janitor")
  /\ SendBufferedBa /\ WolJanitor
  /\ pc' = "host"
  /\ UNCHANGED <<rxq, up, rxFilter, txVars, usbVars, radioVars, camVars, part, seen, intr, powerVars, pinVars>>

-----------------------------------------------------------------------------
(* handle_host_interface(): handle_download() and handle_upload() *)

HostFrame ==
  /\ Running("host") /\ part = "air" /\ bus = "active"
  /\ QueueBar
  /\ UNCHANGED <<wolVars, usbVars, radioVars, camVars, loopVars, intr, powerVars, pinVars>>

HandleUpload ==
  /\ Running("host") /\ bus = "active"
  /\ Uploaded
  /\ UNCHANGED <<wolVars, usbVars, radioVars, camVars, loopVars, intr, powerVars, pinVars>>

LeaveHost ==
  /\ Running("host") /\ pc' = "cmd"
  /\ UNCHANGED <<rxVars, wolVars, usbVars, radioVars, camVars, part, seen, intr, powerVars, pinVars>>

-----------------------------------------------------------------------------
(* usb_handler(): usb_reg_out() and handle_cmd().  Commands that only read or   *)
(* write registers change nothing here; SWRST is in WlanHang, BCN_CTRL in       *)
(* WlanTx.                                                                     *)

FilterCmd ==
  /\ part = "air" /\ \E bits \in Filters : SetRxFilter(bits)
  /\ UNCHANGED <<wolVars, radioVars, camVars, reboot>>

WakeupCmd ==
  /\ part = "sleep" /\ \E c \in WolCmds : WolCmd(c)
  /\ UNCHANGED <<rxVars, radioVars, camVars, reboot>>

RadioCmd ==
  /\ part = "radio"
  /\ \/ \E n \in 0 .. MaxPsm, sleep \in BOOLEAN : PsmCmd(n, sleep)
     \/ NotifySetChannel
     \/ RfCmd
  /\ UNCHANGED <<rxVars, wolVars, camVars, reboot>>

KeyCmd ==
  /\ part = "keys"
  /\ \E u \in Users : \/ \E key \in Keys, id \in 0 .. 1 : SetKey(u, key, id)
                      \/ DisableKey(u)
  /\ UNCHANGED <<rxVars, wolVars, radioVars, reboot>>

RebootCmd ==
  /\ part \in {"usb", "radio"} /\ reboot' = TRUE
  /\ UNCHANGED <<rxVars, wolVars, radioVars, camVars>>

NoCmd == UNCHANGED <<rxVars, wolVars, radioVars, camVars, reboot>>

HandleCmd ==
  /\ Running("cmd")
  /\ \/ bus = "active" /\ (FilterCmd \/ WakeupCmd \/ RadioCmd \/ KeyCmd \/ RebootCmd)
     \/ NoCmd
  /\ pc' = IF job' = Idle THEN "ep0" ELSE "cam"
  /\ UNCHANGED <<usbVars, part, seen, intr, bus, clock, events, wdog, magic, stuck, pinVars>>

\* set_key() goes on when the CAM is ready.
CamReady ==
  /\ Running("cam") /\ ~stuck
  /\ CamStep
  /\ pc' = IF job' = Idle THEN "ep0" ELSE "cam"
  /\ UNCHANGED <<rxVars, wolVars, usbVars, radioVars, part, seen, intr, powerVars, pinVars>>

HandleEp0 ==
  /\ Running("ep0")
  /\ \/ /\ bus = "active" /\ part \in {"usb", "sleep"}
        /\ \E r \in Setups, l \in {{}, {"END"}, {"IN"}, {"FAIL"}} :
             (part = "sleep" => FeatureOk(r) /\ Bits(r.value) = {REMOTE_WAKEUP} /\ l = {})
             /\ Ep0Setup(r, l)
     \/ bus = "active" /\ part = "usb" /\ \E l \in {{"END"}, {"FAIL"}, {"OUT"}} : Ep0Other(l)
     \/ UNCHANGED usbVars
  /\ pc' = "usb"
  /\ UNCHANGED <<rxVars, wolVars, radioVars, camVars, part, seen, intr, powerVars, pinVars>>

-----------------------------------------------------------------------------
(* usb_handler(), level 1 bit 7 *)

BusReset ==
  /\ Running("usb") /\ "RESET" \in events
  /\ Reboot
  /\ events' = events \ {"RESET"} /\ stalled' = {}
  /\ UNCHANGED <<rxVars, wolVars, config, address, feature, wakeupReg, ep0Action, answer, asked,
                 radioVars, camVars, part, seen, intr, bus, clock, reboot, stuck, pinVars>>

\* Without remote wakeup or without a WoL command the CPU clock stops, if the bus
\* still sleeps.  (Faulty: remote wakeup is not looked at.)
AnyFlags == wolCmd.flags # {}
MayWake  == REMOTE_WAKEUP \in feature /\ wolCmd.flags # {}

HostSuspends ==
  /\ Running("usb") /\ "RESET" \notin events /\ "SUSPEND" \in events
  /\ events' = events \ {"SUSPEND", "RESUME"}
  /\ IF MayWake
     THEN WolPrepare /\ UNCHANGED <<clock, wdog, magic>>
     ELSE /\ suspendMode' = "HOST_SUSPENDED"
          /\ wdog' = FALSE /\ magic' = "9876"
          /\ clock' = (bus = "active")
          /\ UNCHANGED <<wolCmd, wakeUp, macReg, bssidReg, lastBeacon, wakeReg, heard,
                         sleeping, before, trigger, rxVars>>
  /\ pc' = IF "RESUME" \in events THEN "resume" ELSE "timer"
  /\ UNCHANGED <<usbVars, radioVars, camVars, part, seen, intr, bus, reboot, stuck, pinVars>>

HostResumes ==
  /\ \/ Running("usb") /\ events = {"RESUME"} /\ events' = {}
     \/ Running("resume") /\ UNCHANGED events
  /\ suspendMode' = "HOST_AWAKE" /\ wakeReg' = FALSE
  /\ Reboot
  /\ UNCHANGED <<wolCmd, wakeUp, macReg, bssidReg, lastBeacon, heard, sleeping, before,
                 trigger, rxVars, usbVars, radioVars, camVars, part, seen, intr, bus, clock, reboot, stuck, pinVars>>

NoBusEvent ==
  /\ Running("usb") /\ events = {}
  /\ pc' = "timer"
  /\ UNCHANGED <<rxVars, wolVars, usbVars, radioVars, camVars, part, seen, intr, powerVars, pinVars>>

-----------------------------------------------------------------------------
(* handle_timer(): gpio_timer(), when timer 0 is due; WlanHang has wlan_timer() *)

HandleTimer ==
  /\ Running("timer")
  /\ cachedPin' \in {pin, cachedPin}
  /\ pc' = "fw"
  /\ UNCHANGED <<rxVars, wolVars, usbVars, radioVars, camVars, part, seen, intr, powerVars, pin>>

-----------------------------------------------------------------------------
(* The surroundings *)

\* The handlers that look at queues and descriptors; what the MAC does while the
\* others run is as if it came just after them, and so is the time that passes.
Looking == {"wlan", "rx", "txc", "janitor", "host"}

\* The MAC marks what is neither for the address in its register nor for everyone.
Marks(f) == IF f.to \in {macReg, Everyone} THEN {} ELSE {"WRONG_RA"}

Frames(set, late) ==
  {[f EXCEPT !.late = late /\ f.ans, !.err = f.err \cup Marks(f)] : f \in set}

\* (Bound of the model: no frames once the ring of BlockAckReqs has overrun, of which
\* nothing is claimed any more.)
\* A frame arrives; late says whether handle_wlan() has read the bits of this turn.
FrameArrives ==
  /\ pc \in Looking /\ ~overran
  /\ \E f \in Frames(IF part = "air" THEN Air ELSE IF part = "sleep" THEN Night ELSE {}, pc # "wlan") :
       \/ ~f.ans /\ Receive(f) /\ UNCHANGED <<up, rxFilter, baVars, fwDesc, txVars>>
       \/ f.ans /\ BarAnswered(f)
  /\ intr' = intr \cup {"RXC"}
  /\ UNCHANGED <<wolVars, usbVars, radioVars, camVars, loopVars, powerVars, pinVars>>

MacSends ==
  /\ pc \in Looking
  /\ BarSent \/ FwFrameSent
  /\ intr' = intr \cup {"TXC"}
  /\ UNCHANGED <<wolVars, usbVars, radioVars, camVars, loopVars, powerVars, pinVars>>

BeaconDue ==
  /\ pc # "rom" /\ part = "radio"
  /\ intr' = intr \cup {"PRETBTT"}
  /\ UNCHANGED <<rxVars, wolVars, usbVars, radioVars, camVars, loopVars, powerVars, pinVars>>

TimePasses ==
  /\ pc \in {"wlan", "janitor"} /\ part = "sleep"
  /\ WolTick
  /\ UNCHANGED <<rxVars, usbVars, radioVars, camVars, loopVars, intr, powerVars, pinVars>>

HostSleeps ==
  /\ pc # "rom" /\ part = "sleep" /\ bus = "active" /\ events = {}
  /\ bus' = "suspended" /\ events' = {"SUSPEND"}
  /\ UNCHANGED <<rxVars, wolVars, usbVars, radioVars, camVars, loopVars, intr,
                 clock, wdog, magic, reboot, stuck, pinVars>>

HostWakes ==
  /\ pc # "rom" /\ bus = "suspended"
  /\ bus' = "active" /\ events' = events \cup {"RESUME"} /\ clock' = TRUE
  /\ UNCHANGED <<rxVars, wolVars, usbVars, radioVars, camVars, loopVars, intr,
                 wdog, magic, reboot, stuck, pinVars>>

HostResets ==
  /\ pc # "rom" /\ part = "sleep" /\ "RESET" \notin events
  /\ bus' = "active" /\ events' = events \cup {"RESET"} /\ clock' = TRUE
  /\ UNCHANGED <<rxVars, wolVars, usbVars, radioVars, camVars, loopVars, intr,
                 wdog, magic, reboot, stuck, pinVars>>

PinChanges ==
  /\ part = "radio" /\ pc # "rom" /\ pin' = 1 - pin
  /\ UNCHANGED <<rxVars, wolVars, usbVars, radioVars, camVars, loopVars, intr, powerVars, cachedPin>>

\* The loop hangs in wait_for_cam_write_ready(), and the watchdog ends it.
CamHangs ==
  /\ pc = "cam" /\ ~stuck /\ stuck' = TRUE
  /\ UNCHANGED <<rxVars, wolVars, usbVars, radioVars, camVars, loopVars, intr,
                 bus, clock, events, wdog, magic, reboot, pinVars>>

WatchdogBites ==
  /\ stuck /\ wdog /\ pc # "rom"
  /\ pc' = "rom"
  /\ UNCHANGED <<rxVars, wolVars, usbVars, radioVars, camVars, part, seen, intr, powerVars, pinVars>>

\* The boot ROM takes over.
Rom == pc = "rom" /\ UNCHANGED vars

MainLoop == \/ HandleFw \/ HandleWlan \/ HandleWlanRx \/ RxDone \/ HandleTxCompletion
            \/ WlanJanitor \/ LeaveHost \/ HandleCmd \/ CamReady
            \/ HandleEp0 \/ BusReset \/ HostSuspends \/ HostResumes \/ NoBusEvent \/ HandleTimer

Surroundings == \/ FrameArrives \/ MacSends \/ BeaconDue \/ TimePasses
                \/ HostSleeps \/ HostWakes \/ HostResets \/ PinChanges \/ CamHangs

Next == MainLoop \/ HostFrame \/ HandleUpload \/ WatchdogBites \/ Surroundings \/ Rom

Spec == Init /\ [][Next]_vars

\* The loop never rests, the watchdog counts, and frames do not come faster
\* than handle_wlan_rx() takes them: rx_queue is empty now and then.
Fairness == /\ WF_vars(MainLoop) /\ WF_vars(WatchdogBites) /\ WF_vars(LeaveHost)
            /\ SF_vars(HandleWlanRx /\ rxq' = <<>>) /\ SF_vars(RxDone)

FairSpec == Spec /\ Fairness

-----------------------------------------------------------------------------
(* Properties *)

\* Each request of the host on the control endpoint gets one answer, a stall or
\* the handshake, unless the same interrupt reports the end or the failure of
\* another transfer.
RequestsAnswered == asked => Cardinality(answer) = 1

\* Where the firmware works or waits for the hardware the watchdog counts, so
\* that a loop that hangs comes to an end: after a suspend that stopped it, too.
Guarded == pc \notin {"fw", "usb", "resume", "timer", "rom"} => wdog

\* Whatever part of the firmware works beside the others, what each of them
\* promises of its own state holds at every step of the main loop.
Consistent == /\ TypeOK /\ BarsInOrder /\ WakeupAgrees /\ SleepEnds /\ KeysWhole
              /\ RequestsAnswered /\ Guarded

\* A BlockAckReq of the host is counted off only when no answer to it that was
\* received before this turn waits in rx_queue: the filter, which keeps BlockAcks only
\* while one is counted, has seen it.  (An answer that arrives within the turn
\* may be filtered.)
BaBeforeBar ==
  [][queuedBar' < queuedBar => \A i \in DOMAIN rxq : rxq[i].ans => rxq[i].late]_vars

\* The firmware wakes a sleeping host only if the host allowed it by remote wakeup,
\* and only for an event it asked for: a frame that summons it, judged by the
\* receiver and the pattern in the frame, or ten seconds after it fell asleep.  So a
\* timer or a farewell from before the night does not wake it at once; and, as the MAC has
\* no address while it sleeps, neither does the magic packet for this station
\* or a farewell to it alone that comes in the night.
WakeJustified ==
  [][~wakeReg /\ wakeReg' /\ bus = "suspended" =>
       /\ REMOTE_WAKEUP \in feature
       /\ trigger \/ (Armed("DISCONNECT") /\ sleeping = Lost)]_vars

\* A farewell to everyone that is queued while the host sleeps wakes the host, if it
\* asked for that and does not wake by itself.  (Not one to this station alone, and not the
\* magic packet for it: see WakeJustified.)
HostWoken ==
  (/\ Suspended /\ clock /\ Armed("DISCONNECT")
   /\ \E i \in DOMAIN rxq : ~Damaged(rxq[i]) /\ Parting(rxq[i]) /\ rxq[i].to = Everyone)
  ~> (wakeReg \/ bus = "active" \/ pc = "rom")

\* wol.c says: connection lost after 10sec without receiving a beacon.  (The
\* beacons counted are those of the access point the host named.)
LostOnlyWithoutBeacon ==
  [][~wakeReg /\ wakeReg' /\ bus = "suspended" /\ ~trigger => heard = Lost]_vars
=============================================================================
