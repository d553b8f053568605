------------------------------- MODULE MCSim -------------------------------
EXTENDS Sim

option(delay, removals) == [migration_delay |-> delay, removals |-> removals]

\* No delay, one shorter and one longer than the cache of 2 has blocks.
Supported == {option(0, FALSE), option(1, TRUE), option(3, TRUE)}
============================================================================
