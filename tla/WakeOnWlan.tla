----------------------------- MODULE WakeOnWlan -----------------------------
(***************************************************************************)
(* Wake on WLAN (wol.c, built with the nl80211 triggers): while the host      *)
(* sleeps the receive filter looks for a frame that should wake it, and the   *)
(* janitor signals it.  Device schedules the actions.                         *)
(*                                                                         *)
(* Time is the age of an event: 0, 1, or Lost, the ten seconds after which the *)
(* connection counts as lost.                                                 *)
(***************************************************************************)
EXTENDS RxPath

CONSTANT Ap        \* the access point

ASSUME WolAssumption == Ap \in Stations

\* CARL9170_WOL_DISCONNECT, CARL9170_WOL_MAGIC_PKT
WolFlags == {"DISCONNECT", "MAGIC_PKT"}
Lost     == 2

VARIABLES suspendMode, \* fw.suspend_mode
          wolCmd,      \* fw.wol.cmd: flags, the host's address and the BSSID
          wakeUp,      \* fw.wol.wake_up
          macReg,      \* AR9170_MAC_REG_MAC_ADDR
          bssidReg,    \* AR9170_MAC_REG_BSSID
          lastBeacon,  \* the age of fw.wol.last_beacon
          wakeReg,     \* AR9170_USB_REG_WAKE_UP
          heard,       \* history: the age of the last beacon of Ap handled
          sleeping,    \* history: the time since the host went to sleep, or since boot
          before,      \* history: the frames in rx_queue from before that
          trigger      \* history: a frame was handled that summons the host

wolVars == <<suspendMode, wolCmd, wakeUp, macReg, bssidReg, lastBeacon, wakeReg,
             heard, sleeping, before, trigger>>

WolTypeOK ==
  /\ suspendMode \in {"HOST_AWAKE", "HOST_SUSPENDED", "AWAKE_HOST"}
  /\ wolCmd.flags \subseteq WolFlags /\ wolCmd.bssid \in Stations \cup {Zero}
  /\ wolCmd.mac \in Addresses /\ macReg \in Addresses
  /\ wakeUp \in BOOLEAN /\ wakeReg \in BOOLEAN /\ trigger \in BOOLEAN
  /\ bssidReg \in Stations \cup {Zero}
  /\ lastBeacon \in 0 .. Lost /\ heard \in 0 .. Lost /\ sleeping \in 0 .. Lost
  /\ before \in 0 .. NRX

\* The host has written its address and its BSSID into the registers.
WolInit ==
  /\ suspendMode = "HOST_AWAKE" /\ wolCmd = [flags |-> {}, mac |-> Zero, bssid |-> Zero]
  /\ wakeUp = FALSE /\ macReg = Own /\ bssidReg = Ap /\ lastBeacon \in {0, Lost} /\ wakeReg = FALSE
  /\ heard = 0 /\ sleeping = 0 /\ before = 0 /\ trigger = FALSE

Suspended == suspendMode = "HOST_SUSPENDED"
Armed(flag) == flag \in wolCmd.flags

\* wol_cmd() copies sizeof(cmd) bytes, and cmd is a pointer: of the command's
\* fields only the flags arrive.  Without null_interval wol_janitor() never starts
\* wlan_wol_connection_monitor() and lost_null stays 0.  (Corrected: all fields.)
WholeCmd(c) == c
CopiedCmd(c) == [wolCmd EXCEPT !.flags = c.flags]
WolCmd(c) ==
  /\ wolCmd' = CopiedCmd(c)
  /\ UNCHANGED <<suspendMode, wakeUp, macReg, bssidReg, lastBeacon, wakeReg, heard,
                 sleeping, before, trigger>>

\* The last_beacon timer.  (Faulty: not initialized.)
KeptTimer  == UNCHANGED lastBeacon
FreshTimer == lastBeacon' = 0

\* wol_prepare(), and the mode usb_handler() has set before.  The addresses come from
\* the command, in which they have not arrived.
WolPrepare ==
  /\ suspendMode' = "HOST_SUSPENDED"
  /\ macReg' = wolCmd.mac /\ bssidReg' = wolCmd.bssid
  /\ rxFilter' = EVERYTHING
  /\ FreshTimer
  /\ heard' = 0 /\ sleeping' = 0 /\ before' = Len(rxq) /\ trigger' = FALSE
  /\ UNCHANGED <<wolCmd, wakeUp, wakeReg, rxq, up, baVars, fwDesc, txVars>>

-----------------------------------------------------------------------------
(* wol_rx(), called by wlan_rx_filter() for every frame that is not damaged *)

\* wlan_rx_wol_disconnect(): a frame for us, by broadcast or by address.
Parting(f) == f.kind \in {"deauth", "disassoc"}
Disconnects(f) ==
  /\ Armed("DISCONNECT") /\ "MGMT" \in FilterOf(f)
  /\ "OTHER_RA" \notin FilterOf(f) /\ Parting(f)

RefreshesBeacon(f) ==
  /\ Armed("DISCONNECT") /\ "MGMT" \in FilterOf(f) /\ f.kind = "beacon"
  /\ ~("OTHER_RA" \notin FilterOf(f) /\ Parting(f))
  /\ f.from = bssidReg

\* wlan_rx_wol_magic_packet(): the scan finds the address in the register.
FindsMagic(f) ==
  /\ Armed("MAGIC_PKT") /\ "DATA" \in FilterOf(f)
  /\ f.kind = "magic" /\ f.pattern = macReg

\* What can summon a sleeping host, told by the frame and not by what the MAC said
\* of it.  With no address of its own in the MAC this is a farewell to everyone; one
\* to this station only if it came before the host fell asleep; and a magic frame
\* only for the address 00:00:00:00:00:00.
Summons(f) ==
  \/ /\ Armed("DISCONNECT") /\ Parting(f)
     /\ f.to \in {Everyone, Zero} \/ (f.to = Own /\ before > 0)
  \/ Armed("MAGIC_PKT") /\ f.kind = "magic" /\ f.pattern = Zero

WolRx(f) ==
  /\ before' = IF before > 0 THEN before - 1 ELSE 0
  /\ IF Suspended /\ ~Damaged(f)
     THEN /\ wakeUp' = (wakeUp \/ Disconnects(f) \/ FindsMagic(f))
          /\ lastBeacon' = IF RefreshesBeacon(f) THEN 0 ELSE lastBeacon
          /\ heard' = IF f.kind = "beacon" /\ f.from = Ap THEN 0 ELSE heard
          /\ trigger' = (trigger \/ Summons(f))
          /\ UNCHANGED <<suspendMode, wolCmd, macReg, bssidReg, wakeReg, sleeping>>
     ELSE UNCHANGED <<suspendMode, wolCmd, wakeUp, macReg, bssidReg, lastBeacon, wakeReg,
                      heard, sleeping, trigger>>

-----------------------------------------------------------------------------
(* wol_janitor() *)

TimedOut == Armed("DISCONNECT") /\ lastBeacon = Lost

\* (Faulty: looks whether or not the host sleeps; looks at the time only.)
AlwaysDue == wakeUp \/ TimedOut
TimeoutDue == Suspended /\ TimedOut
WakeDue == Suspended /\ (wakeUp \/ TimedOut)

WolJanitor ==
  /\ wakeUp' = (wakeUp \/ (Suspended /\ TimedOut))
  /\ suspendMode' = IF WakeDue THEN "AWAKE_HOST" ELSE suspendMode
  /\ wakeReg' = (wakeReg \/ WakeDue)
  /\ UNCHANGED <<wolCmd, macReg, bssidReg, lastBeacon, heard, sleeping, before, trigger>>

Older(age) == IF age < Lost THEN age + 1 ELSE age

\* The clock goes on: a beacon interval or more.
WolTick ==
  /\ lastBeacon' = Older(lastBeacon) /\ heard' = Older(heard)
  /\ sleeping' = Older(sleeping)
  /\ UNCHANGED <<suspendMode, wolCmd, wakeUp, macReg, bssidReg, wakeReg, before, trigger>>
=============================================================================
