--------------------------- MODULE MCServiceTable ---------------------------
(* ServiceTable over three services loaded two at a time.                    *)
EXTENDS ServiceTable

CONSTANTS s1, s2, s3

MCNames == {s1, s2, s3}
MCValues == {"entry"}
=============================================================================
