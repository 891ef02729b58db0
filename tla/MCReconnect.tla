---------------------------- MODULE MCReconnect ----------------------------
(* The instances of Reconnect that TLC checks; see the .cfg files.          *)
EXTENDS Reconnect

MostKinds == {"read", "probe", "write", "row", "typedBegin", "editBegin", "rollback"}
AllModes == {"none", "confirm", "readOnly"}
=============================================================================
