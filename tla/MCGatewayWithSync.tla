---- MODULE MCGatewayWithSync ----
EXTENDS GatewayWithSync, MCAgentGateway
====
