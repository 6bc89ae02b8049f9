-------------------------------- MODULE Radio --------------------------------
(***************************************************************************)
(* rf.c: power save, which lets the radio sleep and wakes it after a number of *)
(* PRETBTT interrupts, and the channel changes of the host.  What the registers *)
(* hold is left out but for whether the synthesizer runs and whether            *)
(* transmission is held back.  Device schedules the actions.                    *)
(***************************************************************************)
EXTENDS Integers

CONSTANT MaxPsm      \* bound of the model; CARL9170_PSM_COUNTER, 0xfff in the code

ASSUME RadioAssumption == MaxPsm \in Nat \ {0}

VARIABLES psm,       \* fw.phy.psm.state without CARL9170_PSM_SLEEP, which never stays
          phyOn,     \* fw.phy.state
          asleep,    \* synthesizer and converters are off
          held,      \* the CCA threshold holds transmission back
          wakeIn,    \* history: the PRETBTTs the host lets it sleep from now on
          endless,   \* history: the host set no count, or took it back
          wasOn      \* history: the radio was on once

radioVars == <<psm, phyOn, asleep, held, wakeIn, endless, wasOn>>

RadioTypeOK ==
  /\ psm \in 0 .. MaxPsm /\ wakeIn \in 0 .. MaxPsm
  /\ phyOn \in BOOLEAN /\ asleep \in BOOLEAN /\ held \in BOOLEAN /\ endless \in BOOLEAN
  /\ wasOn \in BOOLEAN

RadioInit ==
  /\ psm = 0 /\ phyOn = FALSE /\ asleep = FALSE /\ held = FALSE /\ wakeIn = 0
  /\ endless = FALSE /\ wasOn = FALSE

\* rf_psm() with the state n, SLEEP set or not.  A state of 0 is left alone: the
\* driver does not use power save.  (Faulty: wakes a step late.)
WakesLate(n) == n = 0
Wakes(n) == n = 1
RfPsm(n, sleep) ==
  \/ /\ ~sleep /\ n = 0
     /\ psm' = 0
     /\ UNCHANGED <<phyOn, asleep>>
  \/ /\ sleep
     /\ psm' = n /\ asleep' = TRUE /\ phyOn' = FALSE
  \/ /\ ~sleep /\ n > 0
     /\ psm' = n - 1
     /\ asleep' = IF Wakes(n) THEN FALSE ELSE asleep
     /\ phyOn' = (phyOn \/ Wakes(n))

\* handle_pretbtt()
Pretbtt ==
  /\ RfPsm(psm, FALSE)
  /\ wasOn' = (wasOn \/ phyOn')
  /\ wakeIn' = IF wakeIn > 0 THEN wakeIn - 1 ELSE 0
  /\ UNCHANGED <<held, endless>>

\* CARL9170_CMD_PSM
PsmCmd(n, sleep) ==
  /\ RfPsm(n, sleep)
  /\ wakeIn' = IF sleep \/ n = 0 THEN n ELSE n - 1
  /\ endless' = (n = 0) /\ wasOn' = (wasOn \/ phyOn')
  /\ UNCHANGED held

\* CARL9170_CMD_FREQ_START: rf_notify_set_channel()
NotifySetChannel ==
  /\ held' = TRUE /\ phyOn' = FALSE
  /\ UNCHANGED <<psm, asleep, wakeIn, endless, wasOn>>

\* CARL9170_CMD_FREQUENCY, CARL9170_CMD_RF_INIT: rf_cmd(); the calibration ends
\* after finiteLoopCount turns at the latest.
RfCmd ==
  /\ held' = FALSE /\ phyOn' = TRUE /\ wasOn' = TRUE
  /\ UNCHANGED <<psm, asleep, wakeIn, endless>>

-----------------------------------------------------------------------------
(* Properties *)

\* The radio sleeps only as long as the host's command lets it, however commands,
\* PRETBTTs and channel changes come: when the count is over it is awake.  (A count
\* of zero, with or without SLEEP, leaves it as it is for ever.)  Once it was on, it is
\* marked as off only while it sleeps or a channel change holds it back.
SleepEnds ==
  /\ asleep => wakeIn > 0 \/ endless
  /\ wasOn /\ ~phyOn => asleep \/ held
=============================================================================
