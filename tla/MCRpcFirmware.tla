--------------------------- MODULE MCRpcFirmware ----------------------------
(* Off, full speed and a speed that is refused.                             *)
EXTENDS RpcFirmware

MCSpeeds == {0, 100, 101}
=============================================================================
