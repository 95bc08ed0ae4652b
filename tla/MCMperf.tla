------------------------------ MODULE MCMperf -------------------------------
(* A few clients for Mperf.                                                *)
EXTENDS Mperf

\* A test, a test that may have no size, and no test.
Mixed == <<{"test"}, {"test", "badSize"}, {"badType", "terminate"}>>
=============================================================================
