--------------------------- MODULE MCWritableFile ---------------------------
(***************************************************************************)
(* TLC's instance of WritableFile.                                         *)
(***************************************************************************)
EXTENDS WritableFile

\* Before the buffer, empty, one byte of rubbish, full of it, and past the buffer.
MCFresh == {-1, 0, 1, BufferSize, BufferSize + 1}

=============================================================================
