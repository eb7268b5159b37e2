-------------------------- MODULE MCDocumentPages --------------------------
(* DocumentPages over a small alphabet.  The words are interchangeable.     *)
EXTENDS DocumentPages

Symmetric == Permutations(Words)
=============================================================================
