--------------------------- MODULE TelemetryLedger ---------------------------
(***************************************************************************)
(* What the telemetry writer promises, apart from how it is built.  Every   *)
(* event given to write() gets the next serial number and is settled at     *)
(* most once: it is either delivered to the client or dropped.  Deliveries  *)
(* happen in the order of acceptance, a whole batch at a time.              *)
(***************************************************************************)
EXTENDS Naturals

VARIABLES
    issued,     \* how many events have been accepted
    written,    \* events handed to the client without an exception
    dropped     \* events given up

ledger == <<issued, written, dropped>>

Outstanding == (1 .. issued) \ (written \cup dropped)

LedgerInit ==
    /\ issued = 0
    /\ written = {}
    /\ dropped = {}

(* One more event is accepted. *)
Accept ==
    /\ issued' = issued + 1
    /\ UNCHANGED <<written, dropped>>

(* A batch is delivered: nothing in it is older than a delivered event. *)
Deliver ==
    \E batch \in SUBSET Outstanding :
        /\ \A e \in batch, w \in written : w < e
        /\ written' = written \cup batch
        /\ UNCHANGED <<issued, dropped>>

(* A batch is given up. *)
Drop ==
    \E batch \in SUBSET Outstanding :
        /\ dropped' = dropped \cup batch
        /\ UNCHANGED <<issued, written>>

LedgerNext == Accept \/ Deliver \/ Drop

LedgerSpec == LedgerInit /\ [][LedgerNext]_ledger
=============================================================================
