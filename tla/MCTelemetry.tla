----------------------------- MODULE MCTelemetry -----------------------------
(***************************************************************************)
(* Small instances of the telemetry engine: the writers and their keys       *)
(* follow from the devices, peers and neighbours that the cfg names.          *)
(***************************************************************************)
EXTENDS Telemetry

MCTarget == Name \cup Peer \cup Neighbour

MCWriter == {PollWriter(d) : d \in Device} \cup {BmpWriter(d) : d \in BmpDevice}

MCKeysOf ==
  [w \in MCWriter |-> IF w[1] = "poll" THEN PollKeys(w[2]) ELSE BmpKeys(w[2])]
=============================================================================
