---------------------------- MODULE MCUsbDevice ----------------------------
(* One request of each way to be served.                                    *)
EXTENDS UsbDevice

MCRequests == AllRequests
=============================================================================
