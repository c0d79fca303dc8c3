--------------------------- MODULE MCFileBackend ---------------------------
(* FileBackend for TLC.                                                    *)
EXTENDS FileBackend

\* Leaves of different lengths.
LeafData == {<<<<"a">>>>, <<<<"b">>, <<"c">>>>}
=============================================================================
