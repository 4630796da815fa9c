---------------------------- MODULE MCHookBinding ---------------------------
EXTENDS HookBinding

\* The simulator thread makes every call but those of goroutines.
AllSimulatorCalls == Call \ {"express", "goroutine"}
=============================================================================
