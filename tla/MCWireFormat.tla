---------------------------- MODULE MCWireFormat ----------------------------
(* Constants for the runs of WireFormat.                                   *)
EXTENDS WireFormat

AllOps == 0 .. 26
AllClis == <<"boringssl", "aws_lc", "wolfssl", "botan", "libgcrypt", "nettle",
             "pycryptodome", "go", "rust", "bouncycastle">>

(* Arbitrary blobs, shorter than a header or with bytes behind it, and an  *)
(* operation of each family of arguments.                                  *)
ShortAndLong == 0 .. 6
OnePerFamily == {0, 2, 3, 9, 11}
=============================================================================
