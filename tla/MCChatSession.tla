--------------------------- MODULE MCChatSession ---------------------------
\* The conversation with texts of one or two units for TLC: the limits hold
\* two full turns, one turn, or less than a turn with an image.
EXTENDS ChatSession

Wide == [messages |-> 5, tokens |-> 8, request |-> 7]
Narrow == [messages |-> 3, tokens |-> 5, request |-> 5]
MCLimits == {Wide, Narrow}
MCSizes == {0, 1, 2}
MCTraceSizes == {1}
=============================================================================
