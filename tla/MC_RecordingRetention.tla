----------------------- MODULE MC_RecordingRetention -----------------------
(* Call records, and the history that shows them; the bounds are in the     *)
(* configuration.                                                           *)
EXTENDS RecordingRetention, CallHistory, TLC

\* The pages, over the histories of the configuration.
ASSUME PagesAreSeamless
=============================================================================
