------------------------------- MODULE MCRpc -------------------------------
EXTENDS Rpc

CONSTANTS t1, t2, b1  \* two text calls and a two-part call

MCTwo == {t1, b1}
MCThree == {t1, t2, b1}
MCBinary == {b1}

(* Two calls run freely.  The third, if it begins, never gets its request  *)
(* written: it holds one of the two ids until its send fails, and the      *)
(* others then share the other one.                                        *)
MCNext ==
    \/ World
    \/ \E c \in MCTwo : Begin(c) \/ Caller(c)
    \/ Begin(t2)
    \/ SendFails(t2)

MCSpec == Init /\ [][MCNext]_vars /\ LoopFairness
=============================================================================
