----------------------------- MODULE MCSaiVlan -----------------------------
(* The default VLAN and two others, two ports with a bridge port and one   *)
(* without.  Objects are as many as VLANs: the SAI destroys none.          *)
EXTENDS SaiVlan
=============================================================================
