---------------------------- MODULE MCScanService ----------------------------
\* A small instance of ScanService: one request, which a message without one can
\* overtake, and one observation of a stage behind the one Execute announces.
EXTENDS ScanService

CONSTANT u1

RequestThenBlank == [o \in Offsets |-> IF o = 0 THEN "request" ELSE "blank"]

OneScan == [o \in Offsets |-> u1]

ScanningSeen == {[type |-> "stage", stage |-> "scanning", error |-> NoError]}
=============================================================================
