------------------------------- MODULE MCTracker -------------------------------
EXTENDS Tracker

CONSTANTS v1, v2, v3, v4, v5, v6

MCVisitors == {v1, v2, v3, v4, v5, v6}
===============================================================================
