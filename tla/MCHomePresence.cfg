CONSTANTS A = A P = P l1 = l1 l2 = l2 
 Chat = {A} Player = {P} allowed = {A} Log <- MCLog Loop = {l1, l2} MaxFaults = 1 MaxCalls = 2
SPECIFICATION HomeSpec
INVARIANT PresenceEventsAlternate
CHECK_DEADLOCK FALSE
