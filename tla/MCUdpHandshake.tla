--------------------------- MODULE MCUdpHandshake ---------------------------
(* UdpHandshake with three ports: two clients and a link for one of them, or one
   client and two links for it.                                            *)
EXTENDS UdpHandshake
=============================================================================
