--------------------------- MODULE MCAsyncFileWriter ---------------------------
(* Small instances of AsyncFileWriter: rings of a few bytes.                *)
EXTENDS AsyncFileWriter
=============================================================================
