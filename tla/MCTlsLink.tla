------------------------------ MODULE MCTlsLink -------------------------------
(* Small instances of TlsLink for TLC.                                        *)
EXTENDS TlsLink
=============================================================================
