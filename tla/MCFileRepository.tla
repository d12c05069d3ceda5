-------------------------- MODULE MCFileRepository --------------------------
(* One id with two values, as user, as auction and as a bid's and an       *)
(* order's auction, where renaming works and where it is refused.          *)
EXTENDS FileRepository

=============================================================================
