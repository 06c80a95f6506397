-------------------------- MODULE MCControlLibrary --------------------------
EXTENDS ControlLibrary

CONSTANTS v1, v2, v3

TwoClasses == {<<"c1", "k">>, <<"c2", "k">>}
TwoAttributes == {<<"c1", "k1">>, <<"c1", "k2">>}
TwoDocs == <<"structure", "dataflows">>
OneDoc == <<"structure">>
OneSet == [s \in Slots |-> IF s[1] = "c1" THEN v1 ELSE Absent]
=============================================================================
