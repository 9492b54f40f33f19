------------------------- MODULE MCGenericExchange -------------------------
(* Model checking GenericExchange on small sets of devices and threads.    *)
EXTENDS GenericExchange

CONSTANTS d1, d2, t1, t2, w1, w2

OneDev     == {d1}
TwoDevs    == {d1, d2}
OneThread  == {t1}
TwoThreads == {t1, t2}
OneWorker  == {w1}
=============================================================================
