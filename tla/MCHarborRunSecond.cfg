\* The documented effect of a second Ctrl+C.
CONSTANTS
    Agents = {a1, a2}
    Arms = {with}
    Extra = {}
    MaxAgents = 1
    NConcurrent = 1
    MaxInterrupts = 2
SPECIFICATION Spec
INVARIANT SecondInterruptForces
