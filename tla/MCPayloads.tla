----------------------------- MODULE MCPayloads -----------------------------
EXTENDS Payloads

\* One metric has the id of one of the platform's, one that of one of the terminal's.
Metrics == <<"load", "os_name", "terminal_rows">>
=============================================================================
