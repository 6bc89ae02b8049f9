----------------------------- MODULE UsbControl -----------------------------
(***************************************************************************)
(* The control endpoint of usb.c and the part of usb_handler() that serves it: *)
(* a SETUP packet is decoded, the request changes the configuration, the       *)
(* address, the features or the endpoints, and its answer is a stall or a      *)
(* handshake that is written once the handlers have run.  The bodies of the    *)
(* descriptors are left out.  Device schedules the actions.                    *)
(***************************************************************************)
EXTENDS Integers, FiniteSets

\* A request: the fields of struct usb_ctrlrequest; value is a number, a set of
\* descriptor type and index is <<type, index>>.
CONSTANTS Setups     \* the requests the host sends

\* The fields as they come: the endpoint's number, its direction, an address.
ASSUME SetupAssumption ==
  \A r \in Setups : /\ r.ep \in 0 .. 4 /\ r.side \in {"in", "out"}
                    /\ r.req = "SET_ADDRESS" => r.value \in Nat

REMOTE_WAKEUP == 0   \* the bit of USB_DEVICE_REMOTE_WAKEUP, which is 1

\* The bits of a feature selector: the code takes selectors for masks.
Bits(v) == {i \in 0 .. 7 : (v \div 2 ^ i) % 2 = 1}

VARIABLES config,      \* fw.usb.config
          address,     \* AR9170_USB_REG_DEVICE_ADDRESS: [addr, configured]
          feature,     \* fw.usb.device_feature, as a set of bits
          wakeupReg,   \* AR9170_USB_MAIN_CTRL_REMOTE_WAKEUP
          stalled,     \* the endpoints whose stall bit is set
          ep0Action,   \* fw.usb.ep0_action: a subset of STALL, TRIGGER
          answer,      \* what the handler wrote to CX_CONFIG_STATUS
          asked        \* history: the interrupt was for a SETUP packet and nothing else

usbVars == <<config, address, feature, wakeupReg, stalled, ep0Action, answer, asked>>
usbState == <<config, address, feature, wakeupReg, stalled>>

UsbTypeOK ==
  /\ config \in 0 .. 1
  /\ address.addr \in 0 .. 127 /\ address.configured \in BOOLEAN
  /\ feature \subseteq 0 .. 7 /\ wakeupReg \in BOOLEAN
  /\ stalled \subseteq {"in", "out"} \X (1 .. 4)
  /\ ep0Action \subseteq {"STALL", "TRIGGER"}
  /\ answer \subseteq {"STALL", "DONE"}

\* usb_init(); the boot code has configured the device, or not.
UsbInit ==
  /\ config = 1 /\ address \in [addr : {1}, configured : BOOLEAN]
  /\ feature = {REMOTE_WAKEUP} /\ wakeupReg = TRUE
  /\ stalled = {} /\ ep0Action = {} /\ answer = {} /\ asked = FALSE

-----------------------------------------------------------------------------
(* usb_standard_command(): each request answers ok, or is refused.  Where a    *)
(* request is refused nothing changes.                                        *)

\* USB_CHECK_REQTYPE
Is(r, recip, dir) == r.recip = recip /\ r.dir = dir

Config  == 2     \* USB_DT_DEVICE, _CONFIG, _STRING, _DEVICE_QUALIFIER
Answered == {1, Config, 6}
Strings == {0, 16, 32, 48}

\* GET_STATUS, GET_DESCRIPTOR, GET_CONFIGURATION, GET_INTERFACE.
ReadOk(r) ==
  \/ r.req = "GET_STATUS" /\ r.dir = "in"
  \/ r.req = "GET_DESCRIPTOR" /\ Is(r, "device", "in")
     /\ \/ r.value[1] \in Answered
        \/ r.value[1] = 3 /\ r.value[2] \in Strings
  \/ r.req = "GET_CONFIGURATION" /\ Is(r, "device", "in")
  \/ r.req = "GET_INTERFACE" /\ Is(r, "interface", "in")
     /\ address.configured /\ config = 1

ConfigOk(r) == r.req = "SET_CONFIGURATION" /\ Is(r, "device", "out") /\ r.value \in 0 .. 1

\* usb_set_configuration(): value 0 disables the device and falls through to the
\* case that enables it; all endpoints are reset.
SetConfiguration(r) ==
  /\ config' = r.value
  /\ address' = [address EXCEPT !.configured = TRUE]
  /\ stalled' = {}
  /\ UNCHANGED <<feature, wakeupReg>>

AddressOk(r) == r.req = "SET_ADDRESS" /\ Is(r, "device", "out") /\ r.value < 128

\* usb_set_address() writes the whole register: the device counts as not
\* configured.
SetAddress(r) ==
  /\ address' = [addr |-> r.value, configured |-> FALSE]
  /\ UNCHANGED <<config, feature, wakeupReg, stalled>>

FeatureOk(r) ==
  /\ r.req \in {"CLEAR_FEATURE", "SET_FEATURE"} /\ r.dir = "out" /\ address.configured
  /\ \/ r.recip = "device"
     \/ r.recip = "endpoint" /\ r.ep # 0

\* usb_manipulate_feature(): for the device the selector is a mask of bits; for
\* an endpoint it is not looked at.  (Faulty: the register is only switched on.)
SwitchedOn(r) ==
  IF REMOTE_WAKEUP \in Bits(r.value) /\ r.req = "SET_FEATURE" THEN TRUE ELSE wakeupReg
Switched(r) ==
  IF REMOTE_WAKEUP \in Bits(r.value) THEN r.req = "SET_FEATURE" ELSE wakeupReg
ManipulateFeature(r) ==
  LET Change(S, T) == IF r.req = "SET_FEATURE" THEN S \cup T ELSE S \ T IN
  /\ IF r.recip = "device"
     THEN /\ feature' = Change(feature, Bits(r.value))
          /\ wakeupReg' = Switched(r)
          /\ UNCHANGED stalled
     ELSE /\ stalled' = Change(stalled, {<<r.side, r.ep>>})
          /\ UNCHANGED <<feature, wakeupReg>>
  /\ UNCHANGED <<config, address>>

\* Class and vendor requests and the standard ones left out here are refused.
\* (Faulty: the answer to a refused request is forgotten.)
Refused(r) == ~(ReadOk(r) \/ ConfigOk(r) \/ AddressOk(r) \/ FeatureOk(r)) \/ r.type # "standard"
StallUnlessClass(r) == Refused(r) /\ r.type = "standard"
StallFor(r) == Refused(r)

\* usb_ep0setup()
Setup(r) ==
  IF Refused(r) THEN UNCHANGED usbState
  ELSE \/ ReadOk(r) /\ UNCHANGED usbState
       \/ ConfigOk(r) /\ SetConfiguration(r)
       \/ AddressOk(r) /\ SetAddress(r)
       \/ FeatureOk(r) /\ ManipulateFeature(r)

ActionOf(r) == (IF StallFor(r) THEN {"STALL"} ELSE {})
               \cup (IF Refused(r) THEN {} ELSE {"TRIGGER"})

-----------------------------------------------------------------------------
(* usb_handler(), level 1 bit 0 *)

\* What is written at the end of the handler, and the actions it clears.
Written(action, level2) ==
  (IF "FAIL" \in level2 \/ "STALL" \in action THEN {"STALL"} ELSE {})
  \cup (IF "END" \in level2 \/ "TRIGGER" \in action THEN {"DONE"} ELSE {})

\* level2: the bits besides SETUP.  IN and OUT reach usb_ep0tx() and usb_ep0rx(),
\* which return at once: ep0_txrx_buffer is never set.
Ep0Setup(r, level2) ==
  /\ Setup(r)
  /\ answer' = Written(ep0Action \cup ActionOf(r), level2)
  /\ ep0Action' = {}
  /\ asked' = (level2 \cap {"FAIL", "END"} = {})

Ep0Other(level2) ==
  /\ answer' = Written(ep0Action, level2)
  /\ ep0Action' = {}
  /\ asked' = FALSE
  /\ UNCHANGED usbState

-----------------------------------------------------------------------------
(* Properties *)

\* What the firmware believes about remote wakeup and what the USB core is allowed to
\* do are the same, whatever selectors the host sets and clears.
WakeupAgrees == wakeupReg = (REMOTE_WAKEUP \in feature)
=============================================================================
