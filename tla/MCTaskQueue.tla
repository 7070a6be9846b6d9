------------------------------ MODULE MCTaskQueue ------------------------------
EXTENDS TaskQueue

CONSTANTS t1, t2, t3

ThreeTasks == {t1, t2, t3}
=============================================================================
