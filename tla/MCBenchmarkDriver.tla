-------------------------- MODULE MCBenchmarkDriver --------------------------
EXTENDS BenchmarkDriver

MCLibs == <<"aco", "jls", "nss">>

\* The name of the library that is run last has the lowest address.
MCOrder == <<"nss", "aco", "jls">>

\* One method that does not count for the total and two that do.
MCMethods == <<"constr", "conn", "threaded">>

\* A library between two others may throw in a method that counts.
MCThrows == {<<"jls", "conn">>}

\* The machine has no processors to spare for the only library that is
\* measured with threads.
MCUnscored == {<<"nss", "threaded">>}
===============================================================================
