------------------------------ MODULE NifTerms ------------------------------
(* What the NIFs (c_src/casbin_nif.cpp) take from the terms of a caller.   *)
(* A term is a list of characters of one byte each, which stands for a     *)
(* field, or anything else: a binary, an improper list, a list with a      *)
(* character above 255 or an atom.                                         *)
EXTENDS Sequences

Charlist(field) == [bytes |-> TRUE, field |-> field]
Other(field)    == [bytes |-> FALSE, field |-> field]

(* Neither raises: what is no such list becomes the empty string, or the   *)
(* empty vector, and these are legal arguments.                            *)
ListToString(term, empty) == IF term.bytes THEN term.field ELSE empty

ListToVector(terms, empty) ==
    [i \in DOMAIN terms |-> ListToString(terms[i], empty)]
=============================================================================
