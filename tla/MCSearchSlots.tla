--------------------------- MODULE MCSearchSlots ---------------------------
\* Four searches over two slots.  MinusOne is an option --max-searches takes as
\* well; the constants are in the configuration.
EXTENDS SearchSlots

MinusOne == -1
=============================================================================
