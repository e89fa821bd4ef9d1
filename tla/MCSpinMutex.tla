------------------------------ MODULE MCSpinMutex ------------------------------
EXTENDS SpinMutex

CONSTANTS t1, t2, t3, t4, t5, t6

MCThreads == {t1, t2, t3, t4, t5, t6}
===============================================================================
