----------------------------- MODULE MCWinTimer -----------------------------
EXTENDS WinTimer

CONSTANTS q1, q2, d1, d2

MCQueues == {q1, q2}
MCDatas == {d1, d2}
MCPeriods == {-2, 0, 2}
=============================================================================
