---------------------------- MODULE MCAuthFaults ----------------------------
(* One account command after another, with every fault, and what others    *)
(* would read meanwhile.                                                    *)
EXTENDS MCAuthConfig, AccountReaders

=============================================================================
