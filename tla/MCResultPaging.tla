--------------------------- MODULE MCResultPaging ---------------------------
\* TLC instance of ResultPaging and its refinement: five rows are two full
\* pages or batches and a short one; the caller's calls and the faults are
\* bounded.
EXTENDS ResultPagingRefinement
=============================================================================
