----------------------------- MODULE MCSerialCard -----------------------------
(* The settings the firmware and terminal programs use, and three far ends: a *)
(* cable with everything asserted, a device that is closed or full, and one   *)
(* with no carrier.                                                           *)
EXTENDS SerialCard

Setting(t, q, e) == [tic |-> t, dtr |-> TRUE, quiet |-> q, echo |-> e]

MCCommands == {Setting("irq", FALSE, FALSE), Setting("off", TRUE, TRUE),
               Setting("break", TRUE, FALSE)}
MCAnswers == {Inputs, {"dsr"}}
=============================================================================
