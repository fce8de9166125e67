------------------------- MODULE MCControllerProcess -------------------------
\* A small instance of ControllerProcess: one worker, a Duration of six values.
EXTENDS ControllerProcess

CONSTANT w1, s1

MCPayload == [o \in Offsets |-> "request"]

NotANumber == [kind |-> "text", n |-> 0]

With(completed, failed, check, workers) ==
    [t \in Settings |-> CASE t = "completed" -> completed [] t = "failed" -> failed
                          [] t = "check" -> check [] t = "workers" -> workers]

\* A longer retention; no retention, a product that does not fit a Duration and a
\* longer interval; an interval that NewTicker refuses; text instead of a number.
MCEnvironments ==
    {With(Number(2), Unset, Unset, NotANumber),
     With(Number(0), Number(2), Number(2), Number(-1)),
     With(Unset, Unset, Number(0), Number(1)),
     With(NotANumber, Unset, Unset, Unset),
     With(Unset, NotANumber, Unset, Unset),
     With(Unset, Unset, NotANumber, Unset)}
=============================================================================
