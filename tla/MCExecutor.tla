----------------------------- MODULE MCExecutor -----------------------------
EXTENDS Executor

CONSTANTS r1, r2, a, b  \* two runs at a time, two devices

MCRuns == {r1, r2}
MCSerials == {a, b}
MCTagged == {a, b}
MCLists == {<<a, a>>}
MCRunCaps == (r1 :> {1, None}) @@ (r2 :> {None})
=============================================================================
