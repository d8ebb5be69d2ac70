------------------------------ MODULE MCW25qxx ------------------------------
(* W25qxx with units of a few bytes, on a chip with addresses of three      *)
(* bytes, one of four, and one the driver does not know.                    *)
EXTENDS W25qxx

MCChipIds == {17, 25, 48}
=============================================================================
