------------------------------ MODULE MCFiletop ------------------------------
(* Filetop for TLC: two files of different extensions.                    *)
EXTENDS Filetop

MCFiles == {<<"a", ".db">>, <<"b", ".log">>}

=============================================================================
