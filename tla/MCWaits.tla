------------------------------ MODULE MCWaits ------------------------------
EXTENDS Waits

CONSTANTS w1, t1  \* a wait for a change and a wait for a toast

MCWaiter == {w1}
MCToaster == {t1}
=============================================================================
