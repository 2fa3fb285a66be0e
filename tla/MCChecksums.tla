----------------------------- MODULE MCChecksums -----------------------------
(***************************************************************************)
(* The checks on numbers of their real lengths, and of two lengths that     *)
(* IBANs have (15, Norway; 18, the Netherlands): remainders repeat from     *)
(* then on.  Of the letters there are the first, the last and two that a    *)
(* swap with a digit can be mistaken for, 11 and 33.                       *)
(***************************************************************************)
EXTENDS Checksums

MCCardLengths == 13 .. 19

MCIbanLengths == {15, 18}

MCLetters == {10, 11, 33, 35}

=============================================================================
