----------------------------- MODULE MCDigitizer -----------------------------
\* Digitizer for TLC: the buffer allocation, the end of a run and an iteration
\* may fail; the rest of the state machine's failures are MCModuleFsm's.
EXTENDS Digitizer

MCFaulty == {"AtFirstStart", "Stop", "LoopOnStart"}

=============================================================================
