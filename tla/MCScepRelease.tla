---------------------------- MODULE MCScepRelease ----------------------------
(* Instantiates ScepRelease for TLC.                                        *)
EXTENDS ScepRelease

\* The v1.0.0 release zip holds a darwin and a linux amd64 client.
MCZipBinaries == <<"darwin", "linux">>
=============================================================================
