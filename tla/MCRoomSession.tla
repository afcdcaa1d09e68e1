---------------------------- MODULE MCRoomSession ----------------------------
\* RoomSession on small instances: connections are interchangeable.
EXTENDS RoomSession, TLC

Connections == Permutations(Conn)
=============================================================================
