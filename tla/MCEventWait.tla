---------------------------- MODULE MCEventWait -----------------------------
EXTENDS EventWait, TLC

CONSTANT MAXEVENTS   \* bound: events of both kinds that are under way or done

BNext == WNext /\ nextfree' + user_event' <= MAXEVENTS
BFairSpec == WInit /\ [][BNext]_wvars /\ WFair
=============================================================================
