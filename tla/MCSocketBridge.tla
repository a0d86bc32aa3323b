--------------------------- MODULE MCSocketBridge ---------------------------
(* TLC instance of SocketBridge: a normal close, an abnormal one, and a code *)
(* that sanitizeCloseCode lets through but the runtime does not.             *)
EXTENDS SocketBridge

MCCloseCodes == {1000, 1006, 1015}
=============================================================================
