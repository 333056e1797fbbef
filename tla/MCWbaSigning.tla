---------------------------- MODULE MCWbaSigning ----------------------------
(* Signing cases alone, with an error of each kind: a class of the SDK the  *)
(* check accepts, one it does not, one Go does not know, and an error that  *)
(* is none of the SDK's.                                                    *)
EXTENDS WbaSigning

MCErrors == {"ArgumentError", "ParseError", "VerificationError", Runtime}
=============================================================================
