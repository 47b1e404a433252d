-------------------------------- MODULE MCTransport --------------------------------
EXTENDS Transport

(* A flag, an escape, and a byte that is neither. *)
MCPayload == {6, Esc, Flag}

(* Answers of a command and a status, each maybe in need of an escape. *)
MCFrames == {<<6, 6>>, <<6, Flag>>, <<Flag, 6>>, <<Esc>>}

Device(id, known, free) ==
    [id |-> id, ifaces |-> IF id = "edl" THEN 1 ELSE 4, opens |-> id # "other",
     known |-> known, free |-> free]

(* The module alone, with a driver on its interface, behind a foreign
   device, behind a second module that is running and recognised or not. *)
MCBuses ==
    LET edl == Device("edl", TRUE, TRUE) IN
    {<<>>,
     <<edl>>,
     <<Device("edl", TRUE, FALSE)>>,
     <<Device("other", TRUE, TRUE), edl>>,
     <<Device("quectel", TRUE, TRUE), edl>>,
     <<Device("quectel", FALSE, TRUE), edl>>}
=============================================================================
