------------------------------ MODULE MCTabWatch ------------------------------
(* One tab, and a command that may be the superuser's.                     *)
EXTENDS TabWatch

CONSTANTS vim, sudo

OneCommand == {vim}
=============================================================================
