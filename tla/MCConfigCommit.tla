--------------------------- MODULE MCConfigCommit ---------------------------
\* The settings with three concurrent changes and one tool execution for TLC.
EXTENDS ConfigCommit, TLC

CONSTANTS w1, w2, w3, t1

MCWriters == {w1, w2, w3}
MCTools == {t1}
MCNoTools == {}

\* Which domains each change may touch, and the values it may set.
Permission == {<<"screenshot", 0>>, <<"screenshot", 1>>}
ChangesMixed ==
    (w1 :> Permission \cup {<<"llm", 1>>}) @@ (w2 :> Permission \cup {<<"persona", 1>>})
    @@ (w3 :> {<<"llm", 0>>, <<"appearance", 1>>})
ChangesPermission == [w \in MCWriters |-> Permission]
=============================================================================
