------------------------- MODULE MCWebhookDelivery -------------------------
EXTENDS WebhookDelivery, TLC

CONSTANTS d1, d2, d3, j1, j2

MCJobOf == d1 :> j1 @@ d2 :> j1 @@ d3 :> j2
=============================================================================
