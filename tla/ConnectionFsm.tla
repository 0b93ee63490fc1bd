--------------------------- MODULE ConnectionFsm ---------------------------
(***************************************************************************)
(* The send and the receive state machine of a Connection: one operator    *)
(* per state class of src/kernel/net/state, from an event to the           *)
(* transition its OnEvent makes.                                           *)
(***************************************************************************)

SendStates == {"SendNone", "Sending", "SendPending", "SendingReady", "SendingWait",
               "SendingReadyWait", "SendWaitClose", "SendingWaitClose", "SendClose"}
RecvStates == {"RecvNone", "Recving", "RecvingWait", "RecvWaitClose", "RecvClose"}

SendResults == {"SEND_DONE", "SEND_PENDING", "SEND_ERROR"}
RecvResults == {"RECV_DONE", "RECV_ERROR", "RECV_CLOSE"}
NetEvents == {"SEND", "SEND_READY", "RECV", "CLOSE", "ERROR"} \cup SendResults \cup RecvResults

-----------------------------------------------------------------------------
(* The state machines.  A transition goes to a state; one that begins a    *)
(* job asks the worker for it first and goes to Close if that fails.       *)

Go(s)    == [act |-> "go", to |-> s]
Begin(s) == [act |-> "begin", to |-> s]

(* Mutant: the send machine does not hear of a failed read.                *)
SendTeardownNoError == {"RECV_CLOSE", "CLOSE", "ERROR"}

(* Mutant: the send machine does not hear of the peer's close.             *)
SendTeardownDeaf == {"RECV_ERROR", "CLOSE", "ERROR"}

SendTeardown == {"RECV_ERROR", "RECV_CLOSE", "CLOSE", "ERROR"}

SendNoneOn(e) ==
  CASE e = "SEND"          -> Begin("Sending")
    [] e \in SendTeardown  -> Go("SendClose")
    [] OTHER               -> Go("SendNone")

(* Mutant: a close does not wait for the write under way.                  *)
SendingOnHasty(e) ==
  CASE e = "SEND_PENDING"  -> Go("SendPending")
    [] e = "SEND_DONE"     -> Go("SendNone")
    [] e = "SEND_READY"    -> Go("SendingReady")
    [] e = "SEND"          -> Go("SendingWait")
    [] e \in SendTeardown \cup {"SEND_ERROR"} -> Go("SendClose")
    [] OTHER               -> Go("Sending")

(* Mutant: new bytes are handed over during a write.                       *)
SendingOnEager(e) ==
  CASE e = "SEND_PENDING"  -> Go("SendPending")
    [] e = "SEND_DONE"     -> Go("SendNone")
    [] e = "SEND_ERROR"    -> Go("SendClose")
    [] e = "SEND_READY"    -> Go("SendingReady")
    [] e = "SEND"          -> Begin("SendingWait")
    [] e \in SendTeardown  -> Go("SendWaitClose")
    [] OTHER               -> Go("Sending")

SendingOn(e) ==
  CASE e = "SEND_PENDING"  -> Go("SendPending")
    [] e = "SEND_DONE"     -> Go("SendNone")
    [] e = "SEND_ERROR"    -> Go("SendClose")
    [] e = "SEND_READY"    -> Go("SendingReady")
    [] e = "SEND"          -> Go("SendingWait")
    [] e \in SendTeardown  -> Go("SendWaitClose")
    [] OTHER               -> Go("Sending")

SendPendingOn(e) ==
  CASE e = "SEND_READY"    -> Begin("Sending")
    [] e \in SendTeardown  -> Go("SendClose")
    [] OTHER               -> Go("SendPending")

(* Mutant: the free-space edge that came first is forgotten.               *)
SendingReadyOnForgets(e) ==
  CASE e = "SEND_PENDING"  -> Go("SendPending")
    [] e = "SEND_DONE"     -> Go("SendNone")
    [] e = "SEND"          -> Go("SendingReadyWait")
    [] e = "SEND_ERROR"    -> Go("SendClose")
    [] e \in SendTeardown  -> Go("SendingWaitClose")
    [] OTHER               -> Go("SendingReady")

SendingReadyOn(e) ==
  CASE e = "SEND_PENDING"  -> Begin("Sending")
    [] e = "SEND_DONE"     -> Go("SendNone")
    [] e = "SEND"          -> Go("SendingReadyWait")
    [] e = "SEND_ERROR"    -> Go("SendClose")
    [] e \in SendTeardown  -> Go("SendingWaitClose")
    [] OTHER               -> Go("SendingReady")

(* Mutant: the next write is not requested.                                *)
SendingWaitOnIdle(e) ==
  CASE e = "SEND_PENDING"  -> Go("SendPending")
    [] e = "SEND_DONE"     -> Go("Sending")
    [] e = "SEND_ERROR"    -> Go("SendClose")
    [] e = "SEND_READY"    -> Go("SendingReadyWait")
    [] e \in SendTeardown  -> Go("SendingWaitClose")
    [] OTHER               -> Go("SendingWait")

SendingWaitOn(e) ==
  CASE e = "SEND_PENDING"  -> Go("SendPending")
    [] e = "SEND_DONE"     -> Begin("Sending")
    [] e = "SEND_ERROR"    -> Go("SendClose")
    [] e = "SEND_READY"    -> Go("SendingReadyWait")
    [] e \in SendTeardown  -> Go("SendingWaitClose")
    [] OTHER               -> Go("SendingWait")

SendingReadyWaitOn(e) ==
  CASE e \in {"SEND_PENDING", "SEND_DONE"} -> Begin("Sending")
    [] e = "SEND_ERROR"    -> Go("SendClose")
    [] e \in SendTeardown  -> Go("SendingWaitClose")
    [] OTHER               -> Go("SendingReadyWait")

(* Mutant: a write that ends in SEND_PENDING is not an end.                *)
SendWaitCloseOnPending(e) ==
  IF e \in {"SEND_DONE", "SEND_ERROR"} THEN Go("SendClose") ELSE Go("SendWaitClose")

SendWaitCloseOn(e) ==
  IF e \in SendResults THEN Go("SendClose") ELSE Go("SendWaitClose")

(* Mutant: the close is forgotten when the write under way is done.        *)
SendingWaitCloseOnResumes(e) ==
  CASE e \in {"SEND_PENDING", "SEND_ERROR"} -> Go("SendClose")
    [] e = "SEND_DONE"     -> Begin("Sending")
    [] e \in {"RECV_ERROR", "RECV_CLOSE"}   -> Go("SendWaitClose")
    [] OTHER               -> Go("SendingWaitClose")

SendingWaitCloseOn(e) ==
  CASE e \in {"SEND_PENDING", "SEND_ERROR"} -> Go("SendClose")
    [] e = "SEND_DONE"     -> Begin("SendWaitClose")
    [] e \in {"RECV_ERROR", "RECV_CLOSE"}   -> Go("SendWaitClose")
    [] OTHER               -> Go("SendingWaitClose")

SendOn(s, e) ==
  CASE s = "SendNone"         -> SendNoneOn(e)
    [] s = "Sending"          -> SendingOn(e)
    [] s = "SendPending"      -> SendPendingOn(e)
    [] s = "SendingReady"     -> SendingReadyOn(e)
    [] s = "SendingWait"      -> SendingWaitOn(e)
    [] s = "SendingReadyWait" -> SendingReadyWaitOn(e)
    [] s = "SendWaitClose"    -> SendWaitCloseOn(e)
    [] s = "SendingWaitClose" -> SendingWaitCloseOn(e)
    [] s = "SendClose"        -> Go("SendClose")

RecvNoneOn(e) ==
  CASE e = "RECV"          -> Begin("Recving")
    [] e \in {"ERROR", "CLOSE", "SEND_ERROR", "RECV_ERROR", "RECV_CLOSE"} -> Go("RecvClose")
    [] OTHER               -> Go("RecvNone")

(* Mutant: an edge during a read is not remembered.                        *)
RecvingOnForgets(e) ==
  CASE e \in {"ERROR", "CLOSE", "SEND_ERROR"} -> Go("RecvWaitClose")
    [] e \in {"RECV_ERROR", "RECV_CLOSE"}     -> Go("RecvClose")
    [] OTHER               -> Go("Recving")

(* RECV_DONE reaches Recving and RecvingWait through ProcessPacket below.  *)
RecvingOn(e) ==
  CASE e = "RECV"          -> Go("RecvingWait")
    [] e \in {"ERROR", "CLOSE", "SEND_ERROR"} -> Go("RecvWaitClose")
    [] e \in {"RECV_ERROR", "RECV_CLOSE"}     -> Go("RecvClose")
    [] OTHER               -> Go("Recving")

RecvingWaitOn(e) ==
  CASE e \in {"ERROR", "CLOSE", "SEND_ERROR"} -> Go("RecvWaitClose")
    [] e \in {"RECV_ERROR", "RECV_CLOSE"}     -> Go("RecvClose")
    [] OTHER               -> Go("RecvingWait")

RecvWaitCloseOn(e) ==
  IF e \in RecvResults THEN Go("RecvClose") ELSE Go("RecvWaitClose")

RecvOn(s, e) ==
  CASE s = "RecvNone"      -> RecvNoneOn(e)
    [] s = "Recving"       -> RecvingOn(e)
    [] s = "RecvingWait"   -> RecvingWaitOn(e)
    [] s = "RecvWaitClose" -> RecvWaitCloseOn(e)
    [] s = "RecvClose"     -> Go("RecvClose")

(* What ProcessPacket's caller does with its answer: the handler of the    *)
(* state the result was dispatched to, whatever the state has become.      *)
AfterProcess(from, ok) ==
  IF ~ok THEN Go("RecvClose")
  ELSE IF from = "Recving" THEN Go("RecvNone") ELSE Begin("Recving")
=============================================================================
