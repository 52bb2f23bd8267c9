---------------------------- MODULE MCSaiProfile ----------------------------
(* Files of up to three lines, two names with two values, two options.     *)
EXTENDS SaiProfile
=============================================================================
