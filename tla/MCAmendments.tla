---------------------------- MODULE MCAmendments ----------------------------
EXTENDS Amendments

MCDates == {<<1, 1, 2, 3>>}
MCListed == {{}, {1, 2, 3, 4}}
=============================================================================
