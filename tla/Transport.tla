--------------------------------- MODULE Transport ---------------------------------
(***************************************************************************)
(* The two ways the bytes of an upgrade take: the framed serial port of    *)
(* the methods 0 and 1, and the usbfs bridge of the firehose child of      *)
(* method 2. A run of the program uses one of them; they share no state.   *)
(***************************************************************************)
EXTENDS Framing, UsbBridge

VARIABLE line    \* "serial" or "usb"

vars == <<line, framingVars, bridgeVars>>

Init ==
    /\ line \in {"serial", "usb"}
    /\ FramingInit
    /\ BridgeInit
    /\ line = "serial" => bus = <<>> /\ ~tty

Next ==
    \/ line = "serial" /\ FramingNext /\ UNCHANGED <<line, bridgeVars>>
    \/ line = "usb" /\ BridgeNext /\ UNCHANGED <<line, framingVars>>

Spec == Init /\ [][Next]_vars

TypeOK == FramingTypeOK /\ BridgeTypeOK
=============================================================================
