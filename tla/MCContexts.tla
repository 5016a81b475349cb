----------------------------- MODULE MCContexts -----------------------------
(***************************************************************************)
(* TLC instance of Contexts and Setup: the boot processor and another, a   *)
(* device, two threads; processors with no feature, an old one's, and all  *)
(* of them; bootstrappers that list nothing, xsave, and SSE alone.         *)
(***************************************************************************)
EXTENDS Contexts

MCListings == {{}, {"FXSAVE", "XSAVE"}, {"SSE1"}}
MCCpuids == {{}, {"FXSAVE"}, CpuFeatures}
=============================================================================
