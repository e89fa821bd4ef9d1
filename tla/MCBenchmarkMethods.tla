-------------------------- MODULE MCBenchmarkMethods --------------------------
EXTENDS BenchmarkMethods

MCTicks == {0, 1, 3}

MCFaults == {"loses", "repeats", "sticky"}
===============================================================================
