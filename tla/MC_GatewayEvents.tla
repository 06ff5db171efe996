------------------------- MODULE MC_GatewayEvents -------------------------
(* Instances of GatewayEvents for TLC, with the decoder its connections read *)
(* through; the bounds are in the configurations.                            *)
EXTENDS GatewayEvents, FrameDecoder, TLC

SampleBodies == {<<>>, <<120>>, <<LF, LF>>, <<0, LF, LF>>, <<CR, LF, CR, LF>>}

\* The decoder, over the streams of these bodies.
ASSUME DecodesAsSent
=============================================================================
