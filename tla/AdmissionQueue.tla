--------------------------- MODULE AdmissionQueue ---------------------------
(***************************************************************************)
(* What the judge promises about admission to its sandbox, with no counter *)
(* and no promise in it: at most Capacity requests are in service, the     *)
(* others stand in one line, a place that is given up goes at once to the  *)
(* head of the line, and a request is turned away only when every place is *)
(* taken.                                                                  *)
(***************************************************************************)
EXTENDS Naturals, Sequences, FiniteSets

CONSTANTS
  Requests,   \* identities of the requests that ask for a place
  Capacity,   \* places in the service
  LineLimit   \* places in the line

VARIABLES
  inService,  \* requests that hold a place
  line,       \* requests that wait, in order of arrival
  turnedAway  \* requests that have been refused and not yet gone

vars == <<inService, line, turnedAway>>

Standing == {line[i] : i \in DOMAIN line}

Outside(r) == r \notin inService /\ r \notin Standing /\ r \notin turnedAway

Init ==
  /\ inService = {}
  /\ line = << >>
  /\ turnedAway = {}

Full == Cardinality(inService) = Capacity

Enter(r) ==
  /\ Outside(r)
  /\ ~Full
  /\ line = << >>
  /\ inService' = inService \cup {r}
  /\ UNCHANGED <<line, turnedAway>>

Join(r) ==
  /\ Outside(r)
  /\ Full
  /\ Len(line) < LineLimit
  /\ line' = Append(line, r)
  /\ UNCHANGED <<inService, turnedAway>>

TurnAway(r) ==
  /\ Outside(r)
  /\ Full
  /\ turnedAway' = turnedAway \cup {r}
  /\ UNCHANGED <<inService, line>>

GoAway(r) ==
  /\ r \in turnedAway
  /\ turnedAway' = turnedAway \ {r}
  /\ UNCHANGED <<inService, line>>

Finish(r) ==
  /\ r \in inService
  /\ \/ /\ line = << >>
        /\ inService' = inService \ {r}
        /\ UNCHANGED line
     \/ /\ line # << >>
        /\ inService' = (inService \ {r}) \cup {Head(line)}
        /\ line' = Tail(line)
  /\ UNCHANGED turnedAway

Next ==
  \E r \in Requests :
    Enter(r) \/ Join(r) \/ TurnAway(r) \/ GoAway(r) \/ Finish(r)

SafeSpec == Init /\ [][Next]_vars

Spec == SafeSpec /\ \A r \in Requests : WF_vars(Finish(r))
=============================================================================
