------------------------------ MODULE MCPrompts ------------------------------
\* An instance of PromptSchedule: the names of the targets.
EXTENDS PromptSchedule
CONSTANTS t1
=============================================================================
