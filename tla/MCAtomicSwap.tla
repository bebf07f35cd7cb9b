---------------------------- MODULE MCAtomicSwap ----------------------------
EXTENDS AtomicSwap

\* The smallest delays in TimelockOrder for React = Lead = 2: any slip of one
\* block in a guard shows.
StaggeredCsv == [btc |-> 11, liq |-> 4]

\* CSV_DELAY=5 on both legs, as demo_swap_roundtrip.sh has it.
EqualCsv == [btc |-> 5, liq |-> 5]

ASSUME StaggeredIsOrdered ==
    \* The premise of the theorems holds of the run that expects safety.
    Csv = StaggeredCsv => TimelockOrder
=============================================================================
