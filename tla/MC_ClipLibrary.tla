--------------------------- MODULE MC_ClipLibrary ---------------------------
(***************************************************************************)
(* One demonstration clip and two that can be uploaded, the demonstration  *)
(* flow and one to create, one conversion at a time so that two uploads    *)
(* contend for it.                                                         *)
(***************************************************************************)
EXTENDS ClipLibrary
CONSTANTS c0, c1, c2, f0, f1

MCClips == {c0, c1, c2}
MCDemoClips == {c0}
MCFlows == {f0, f1}
=============================================================================
