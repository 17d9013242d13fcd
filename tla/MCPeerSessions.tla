--------------------------- MODULE MCPeerSessions ---------------------------
(* Instances of PeerSessions for TLC. *)
EXTENDS PeerSessions, TLC

Parties == Permutations(Uuids)
PartiesAndStreams == Permutations(Uuids) \cup Permutations(SessionIds)
=============================================================================
