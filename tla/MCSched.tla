------------------------------ MODULE MCSched ------------------------------
EXTENDS Sched

CONSTANTS i1, i2, c1, c2, t1, t2, t3

MCCpu1 == {c1}
MCCpu2 == {c1, c2}
MCTask2 == {t1, t2}
MCTask3 == {t1, t2, t3}
MCIdle1 == [c \in {c1} |-> i1]
MCIdle2 == [c \in {c1, c2} |-> IF c = c1 THEN i1 ELSE i2]
MCKillable2 == {t2}
MCKillable3 == {t2, t3}
NoTasks == {}
============================================================================
