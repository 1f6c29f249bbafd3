----------------------------- MODULE KeyClients -----------------------------
(***************************************************************************)
(* The batches of the clients: init.ask resets both devices once, in an    *)
(* untouched queue, decode0.ask sets the LEDs when a lock key changed      *)
(* them, winman0.c enables a mouse; and the driver's own for the A20 line. *)
(***************************************************************************)
EXTENDS KeyQueue

Reset == << <<Cell("WaitBufEmpty", "none"), Cell("AckSendData", "FF"), Rest,
              Cell("RecieveCheck", "AA"), Rest>> >>
Led(value) == << <<Cell("WaitBufEmpty", "none"), Cell("AckSendData", "ED"), Rest,
                   Cell("AckSendData", value), Rest>> >>
A20 == << <<Cell("WaitBufEmpty", "none"), Cell("WriteCmdReg", "D1"), Rest,
            Cell("WaitBufEmpty", "none"), Cell("SendData", "DF"), Rest>> >>
MouseReset  == << <<Cell("WaitBufEmpty", "none"), Cell("ResetCommand", "FF")>> >>
MouseEnable == << <<Cell("WaitBufEmpty", "none"), Cell("AckSendData", "F4"), Rest>> >>

OfKeyboard == {Reset, Led("on"), Led("off"), A20}
OfMouse    == {MouseReset, MouseEnable}

ASSUME ClientAssumption == KeyBatches \subseteq OfKeyboard /\ MouseBatches \subseteq OfMouse

ClientNext ==
  \/ \E batch \in Batches : Submit(batch) /\ (batch \in {Reset, MouseReset} => count = 0)
  \/ ToNormalMode
  \/ RestoreStart
  \/ WaitBufEmpty
  \/ NoAnswer
  \/ SendAndWait
  \/ WaitForByte
  \/ GetAnswer
  \/ GetNack
  \/ \E byte \in Range(wire) : GetOther(byte)
  \/ \E byte \in Range(wire) : Key(byte)
  \/ \E byte \in Range(wire) : MouseByte(byte)
  \/ Take
  \/ Use

ClientSpec == Init /\ [][ClientNext]_vars /\ Fairness

=============================================================================
