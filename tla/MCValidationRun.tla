-------------------------- MODULE MCValidationRun --------------------------
\* Instances of ValidationRun: one case of each kind.
EXTENDS ValidationRun

CONSTANTS whole, filtered

MCSuite == <<"replay", "held_out", "anchor">>

Either == BOOLEAN

Apart == {FALSE}
=============================================================================
