---------------------------- MODULE MCGpuEnergy -----------------------------
(* Two devices with or without a counter, loads of 1 and 3 mW, over three  *)
(* seconds: up to three ticks, any of which may miss a device.             *)
EXTENDS GpuEnergy
=============================================================================
