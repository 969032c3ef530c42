--------------------------- MODULE MCExchangeClock ---------------------------
(* An instance of ExchangeClock for TLC: two tasks, 3-bit factors.         *)
EXTENDS ExchangeClock, TLC

CONSTANTS t1, t2

TwoTasks == {t1, t2}
TaskSymmetry == Permutations(TwoTasks)

AFewDurations == {-1, 2, 4}
Past == -4
=============================================================================
