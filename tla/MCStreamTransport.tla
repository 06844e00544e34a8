-------------------------- MODULE MCStreamTransport --------------------------
(* Instance of StreamTransport for TLC.                                    *)
EXTENDS StreamTransport, TLC
=============================================================================
