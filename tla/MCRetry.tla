-------------------------------- MODULE MCRetry --------------------------------
(* Instances of the retry cycle for TLC. *)
EXTENDS RetryProperties

CONSTANTS b1, b2, b3, b4

\* As many candidates as attempts and fewer; a process may be configured anew.
MCConfigs == {<<b1, b2, b3, b4>>, <<b1, b2>>}
================================================================================
