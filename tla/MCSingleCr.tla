----------------------------- MODULE MCSingleCr -----------------------------
(* Model of SingleCr for TLC: both builds, with and without -b, and with calls that may
   fail. *)
EXTENDS SingleCr

Working == {"NVIDIA", "AMD"} \X BOOLEAN \X BOOLEAN
=============================================================================
