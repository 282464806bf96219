---------------------------- MODULE MCBleManager ----------------------------
(* BleManager on small instances; MCBle*.cfg give the constants values.    *)
EXTENDS BleManager
=============================================================================
