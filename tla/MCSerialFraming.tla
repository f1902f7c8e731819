--------------------------- MODULE MCSerialFraming ---------------------------
(***************************************************************************)
(* Instances of SerialFraming for TLC: bytes of three bits.                 *)
(***************************************************************************)
EXTENDS SerialFraming

\* A payload that holds the magic number, and one that does not.
ShortPayloads == {<<1>>, <<6, 7>>}

\* The parsers share nothing, and a turn of one commutes with all that happens
\* to the line: of all the orders, that in which what was read is parsed first,
\* by the router, then by the host, is enough.
ParsedFirst ==
    /\ data # <<>> => <<line, buffer>>' = <<line, buffer>>
    /\ ~HostIdle => line' = line
=============================================================================
