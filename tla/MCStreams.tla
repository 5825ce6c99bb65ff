----------------------------- MODULE MCStreams -----------------------------
(***************************************************************************)
(* Instances of Streams for TLC.                                           *)
(***************************************************************************)
EXTENDS Streams

Everywhere  == {"vmess-ws", "vmess-tcp", "ss-ws", "ss-tcp"}
Shadowsocks == {"ss-ws", "ss-tcp"}
=============================================================================
