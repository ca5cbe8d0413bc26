----------------------------- MODULE MCSandwich -----------------------------
\* One block, a cache of one block and two tags of the one queue.
EXTENDS Sandwich

CONSTANTS q1, t1, t2

\* ublkfault thaw, "release every parked (hung) request": what is parked when a
\* thaw is commanded is released, whatever is served, parked, lost or thawed
\* meanwhile. (The tags are interchangeable: one stands for each.)
ThawReleases == FQ!Released(<<q1, t1>>)

=============================================================================
