------------------------------- MODULE MCPlay -------------------------------
(* Instances of PlayWords for TLC: games of a few rows, with guesses to spare. *)
EXTENDS PlayWords

\* A small alphabet, in which letters repeat.
FewLetters == {"a", "b", "c"}

\* The words do not matter where only visits do.
OneLetter == {"a"}

=============================================================================
