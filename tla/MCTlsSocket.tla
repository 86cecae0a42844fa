---------------------------- MODULE MCTlsSocket ----------------------------
\* Small chunks, so that messages, records and buffers take several each.
EXTENDS TlsSocket
=============================================================================
