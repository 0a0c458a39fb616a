--------------------------- MODULE MCSearchPaging ---------------------------
\* SearchPaging with ints of five bits: sums that wrap, limits beyond any page.
EXTENDS SearchPaging, TLC

\* Versions of what a vendor holds: grown, shrunk at the front, none.
MCStores == {<<>>, <<2, 3, 4>>, <<1, 2, 3, 4, 5>>, <<3, 4, 5>>}
MCLimits == {Absent, -1, 0, 1, 3, MaxCap, MaxCap + 1, MaxInt}
MCOffsets == {Absent, -1, 0, 1, 2, 4, 5, MaxInt - 1, MaxInt}
=============================================================================
