------------------------ MODULE MCReaderWriterQueue ------------------------
(* Model-checking instance of ReaderWriterQueue.                           *)
EXTENDS ReaderWriterQueue
=============================================================================
