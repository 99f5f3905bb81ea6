----------------------- MODULE MCInstructionDelivery -----------------------
\* One relay with one machine behind it.  The relay is a direct machine itself,
\* so it stands for an ordinary agent too.
EXTENDS InstructionDelivery, TLC

CONSTANTS relay, machine

MCDirect == {relay}
MCZone   == {machine}
MCVia    == [z \in MCZone |-> relay]

\* The instructions are interchangeable; used by the safety runs only.
MCSymmetry == Permutations(Instructions)

=============================================================================
