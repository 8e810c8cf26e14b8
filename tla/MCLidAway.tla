----------------------------- MODULE MCLidAway -----------------------------
(* One machine; the times keep the order of the code's: five seconds for a  *)
(* retry and a minute of quiet, a minute and a half, half an hour.          *)
EXTENDS LidAway
=============================================================================
