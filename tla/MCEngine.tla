------------------------------ MODULE MCEngine ------------------------------
\* Small instances of the AI engine.
EXTENDS Engine

MCName == {<<1>>, <<2, 2>>}
MCSuspicious == {<<2, 2>>}
MCCalls == [opens |-> 6, edits |-> 4, alarms |-> 4, briefs |-> 6]
MCQueue == [opens |-> 7, edits |-> 5, alarms |-> 5, briefs |-> 1]
=============================================================================
