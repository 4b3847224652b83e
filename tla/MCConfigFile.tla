--------------------------- MODULE MCConfigFile ---------------------------
EXTENDS ConfigFile

TwoToggles == <<"enabled", "submit_metrics">>
===========================================================================
