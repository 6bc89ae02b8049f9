------------------------------- MODULE KeyCam -------------------------------
(***************************************************************************)
(* cam.c: the key memory of the MAC.  set_key() writes type, address and key   *)
(* of a user into rows the users share, one access after the other, while the  *)
(* MAC looks up every frame.  The 68 users are 64 peers and 4 default keys.    *)
(* Device schedules the actions.                                               *)
(***************************************************************************)
EXTENDS Integers

CONSTANTS Users,     \* the users the host sets keys for
          Keys       \* what a key, with its type and address, may be

PEERS == 64                    \* AR9170_CAM_MAX_USER
ASSUME CamAssumption == Users \subseteq 0 .. PEERS + 3

Peer(u) == u < PEERS

\* The places: the nibble of the type, the bytes of the address, the row of the key.
ENCRY_TYPE_START_ADDR == 24
DEFAULT_ENCRY_TYPE    == 26
KEY_START_ADDR        == 27

TypePlace(u) ==
  IF Peer(u) THEN <<ENCRY_TYPE_START_ADDR + u \div 32, (u \div 8) % 4, u % 8>>
             ELSE <<DEFAULT_ENCRY_TYPE, 0, (u - PEERS) % 8>>
MacPlaces(u) ==
  {<<(u \div 16) * 6 + i, (u \div 4) % 4, u % 4>> : i \in IF Peer(u) THEN 0 .. 5 ELSE {}}
KeyPlace(u, k) == <<KEY_START_ADDR + u * 2 + k>>

Places == UNION {{TypePlace(u)} \cup MacPlaces(u) \cup {KeyPlace(u, 0), KeyPlace(u, 1)} :
                 u \in Users}

VARIABLES cam,       \* the contents of each place; 0 where nothing was written
          rollCall,  \* CAM_ROLL_CALL_TBL: the users the MAC looks up
          job,       \* the set_key() under way: [user, key, id] and its next step
          current    \* history: the last job each user had

camVars == <<cam, rollCall, job, current>>

Idle == [step |-> "idle"]

CamTypeOK ==
  /\ cam \in [Places -> Keys \cup {0}]
  /\ rollCall \subseteq {u \in Users : Peer(u)}
  /\ job.step \in {"idle", "type", "mac", "key", "enable"}

CamInit ==
  /\ cam = [p \in Places |-> 0] /\ rollCall = {}
  /\ job = Idle /\ current = [u \in Users |-> Idle]

\* enable_cam_user() and disable_cam_user() know only the peers.
Roll(u) == {u} \cap 0 .. PEERS - 1

\* CARL9170_CMD_EKEY; a user or key number out of range is ignored.  (Faulty: the
\* entry stays in use.)
StillEnabled(u) == UNCHANGED rollCall
DisableFirst(u) == rollCall' = rollCall \ Roll(u)
SetKey(u, key, id) ==
  /\ job = Idle /\ u <= PEERS + 3 /\ id \in 0 .. 1
  /\ DisableFirst(u)
  /\ job' = [step |-> "type", user |-> u, key |-> key, id |-> id]
  /\ current' = [current EXCEPT ![u] = job']
  /\ UNCHANGED cam

Store(places, v) == cam' = [p \in Places |-> IF p \in places THEN v ELSE cam[p]]
Goto(step)       == job' = [job EXCEPT !.step = step]

\* Each waits until the CAM is ready: HW_CAM_Avail(), wait_for_cam_write_ready().
SetType == /\ job.step = "type" /\ Store({TypePlace(job.user)}, job.key)
           /\ Goto("mac") /\ UNCHANGED <<rollCall, current>>
SetMac  == /\ job.step = "mac" /\ Store(MacPlaces(job.user), job.key)
           /\ Goto("key") /\ UNCHANGED <<rollCall, current>>
SetKey128 == /\ job.step = "key" /\ Store({KeyPlace(job.user, job.id)}, job.key)
             /\ Goto("enable") /\ UNCHANGED <<rollCall, current>>
EnableUser == /\ job.step = "enable" /\ rollCall' = rollCall \cup Roll(job.user)
              /\ job' = Idle /\ UNCHANGED <<cam, current>>

CamStep == SetType \/ SetMac \/ SetKey128 \/ EnableUser

\* CARL9170_CMD_DKEY
DisableKey(u) ==
  /\ job = Idle
  /\ rollCall' = rollCall \ Roll(u)
  /\ UNCHANGED <<cam, job, current>>

-----------------------------------------------------------------------------
(* Properties *)

\* Whenever the MAC may look up a peer, type, address and key are those of the one
\* command that set it last: no entry is in use half written, and setting the
\* key of one user touches no place of another.
KeysWhole ==
  \A u \in rollCall :
    LET c == current[u] IN
    \A p \in {TypePlace(u), KeyPlace(u, c.id)} \cup MacPlaces(u) : cam[p] = c.key
=============================================================================
