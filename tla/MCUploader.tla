----------------------------- MODULE MCUploader -----------------------------
(* The uploader as TLC runs it; all constants are given in the .cfg file.  *)
EXTENDS UploaderProperties
=============================================================================
