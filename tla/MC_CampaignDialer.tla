-------------------------- MODULE MC_CampaignDialer --------------------------
(* Campaigns, and the import that their contacts come from; the bounds are in *)
(* the configuration.                                                         *)
EXTENDS CampaignDialer, ContactImport

CONSTANTS e1, e2, k1, k2

OneCampaign == [e \in {e1, e2} |-> k1]

SampleCells == {<<>>, <<"x">>, <<"x", Comma>>, <<Quote, "x">>, <<CR, LF>>}

\* The import, over the tables of these cells and the phones of the configuration.
ASSUME ReadsAsWritten /\ ImportsOnce
=============================================================================
