---------------------------- MODULE MCWriterLease ----------------------------
EXTENDS WriterLease

TwoPids == <<1, 2>>
=============================================================================
