---------------------------- MODULE MCAsyncWriter ----------------------------
(* Small instances of the telemetry writer.  Task ids and the threads  *)
(* that stop are only compared for equality: both are interchangeable.       *)
EXTENDS AsyncWriterProps, TLC

WriterSymmetry == Permutations(Tasks) \cup Permutations(Stoppers)
=============================================================================
