----------------------------- MODULE MCModuleFsm -----------------------------
\* ModuleFsm for TLC: every hook and every loop body may throw.
EXTENDS ModuleFsm

MCFaulty == Hooks

=============================================================================
