------------------------------ MODULE MCUploads ------------------------------
(* A small instance of Uploads for TLC: two calls with two loops each over a *)
(* file of three parts, one abort, one failure.                              *)
EXTENDS Uploads
=============================================================================
