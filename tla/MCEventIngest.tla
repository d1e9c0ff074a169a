--------------------------- MODULE MCEventIngest ---------------------------
(* Instances of EventIngest: two payloads, one of which two reports redact   *)
(* to, values below, at and above the trigger, and packets of some hundred   *)
(* bytes per unit: A loses guidance and keeps what it says, B is cut further *)
(* with every scan and refused at the third.                                 *)
EXTENDS EventIngest

CONSTANTS a1, a2, b, A, B, scanner, scanner2

RedactTable == [r \in Raw |-> IF r = b THEN B ELSE A]

(* 60 reaches the trigger of 65 only when new or changed, 50 never.          *)
ValueTable == {50, 60, 95}

PacketTable ==
  [p \in Payloads |->
     IF p = A THEN [cards |-> <<2, 2>>, references |-> <<3>>, cuts |-> <<4, 2, 0>>, rest |-> 4]
     ELSE [cards |-> <<2>>, references |-> <<3>>, cuts |-> <<2, -1, 3>>, rest |-> 8]]
=============================================================================
