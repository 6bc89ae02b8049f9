------------------------------ MODULE MCDevice ------------------------------
(* Device with small sets of frames, requests and commands. *)
EXTENDS Device

CONSTANT Other       \* a station that is not the access point

F(kind, from, to) ==
  [kind |-> kind, from |-> from, to |-> to, pattern |-> Own, ans |-> FALSE,
   late |-> FALSE, err |-> {}]

Answer == [F("back", Other, Own) EXCEPT !.ans = TRUE]

\* BlockAckReqs of two stations, one of them for somebody else, and the answer to one
\* of the host.
AirFrames == {F("bar", Ap, Own), F("bar", Other, Own), F("bar", Other, Ap), Answer}

\* What may come in the night: beacons, farewells to all, to this and to another
\* station, and wake-up patterns of this station, of the address zero, and damaged.
Pattern(a) == [F("magic", Other, Everyone) EXCEPT !.pattern = a]
NightFrames == {F("beacon", Ap, Everyone)}
               \cup {F("deauth", Ap, to) : to \in {Everyone, Own, Other}}
               \cup {Pattern(Own), Pattern(Zero), [Pattern(Zero) EXCEPT !.err = {"FCS"}]}

FilterSets == {{}, {"CTL_OTHER", "CTL_BACKR"}}

Commands == {[flags |-> fl, mac |-> Own, bssid |-> Ap] : fl \in {{}, {"DISCONNECT"}, WolFlags}}

R(type, req, dir, recip, value) ==
  [type |-> type, req |-> req, dir |-> dir, recip |-> recip, value |-> value,
   ep |-> 3, side |-> "in"]

\* Requests of each kind, fit to be answered and not.
Requests ==
  {R("standard", "GET_STATUS", "in", "device", 0),
   R("standard", "GET_DESCRIPTOR", "in", "device", <<3, 16>>),
   R("standard", "GET_DESCRIPTOR", "in", "device", <<3, 17>>),
   R("standard", "GET_CONFIGURATION", "in", "device", 0),
   R("standard", "GET_INTERFACE", "in", "interface", 0),
   R("standard", "GET_INTERFACE", "in", "device", 0),
   R("vendor", "GET_STATUS", "out", "device", 0)}
  \cup {R("standard", "SET_CONFIGURATION", "out", "device", v) : v \in 0 .. 2}
  \cup {R("standard", "SET_ADDRESS", "out", "device", v) : v \in {5, 128}}
  \cup {R("standard", req, "out", "device", v) :
          req \in {"SET_FEATURE", "CLEAR_FEATURE"}, v \in {1, 3}}
  \cup {R("standard", req, "out", "endpoint", 0) : req \in {"SET_FEATURE", "CLEAR_FEATURE"}}
=============================================================================
