----------------------------- MODULE MCConnector -----------------------------
EXTENDS Connector

\* What may be wrong with a vendor from the start.
OneBreach == {{}, {"capped"}, {"untold"}, {"stalled"}, {"capped", "untold"}}
AllConnectors == Catalog
=============================================================================
