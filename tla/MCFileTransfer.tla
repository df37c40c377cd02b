--------------------------- MODULE MCFileTransfer ---------------------------
(* A small instance of FileTransfer: the sequences of transfers on one     *)
(* session.                                                                *)
EXTENDS FileTransfer
=============================================================================
