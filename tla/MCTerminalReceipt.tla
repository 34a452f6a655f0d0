-------------------------- MODULE MCTerminalReceipt --------------------------
EXTENDS TerminalReceipt

\* The third runtime has the first one's PID again.
RecycledPid == <<1, 2, 1>>
=============================================================================
