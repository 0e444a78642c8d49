---------------------------- MODULE MCHydraLink -----------------------------
(***************************************************************************)
(* Constants for the model-checking run of HydraLink.                      *)
(***************************************************************************)
EXTENDS HydraLink

config(sup, des, tw, rw) == [supported |-> sup, desired |-> des, txWindow |-> tw, rxWindow |-> rw]

\* The default; escapes for a hostile terminal line; a seven-bit line with a
\* capability nobody knows; no CRC-32; an end that cannot do CTL.
Ends ==
    {config({}, {}, 0, 0),
     config({}, {"XON", "TLN", "HIC"}, 1, 9),
     config({}, {"CTL", "HIC", "PLZ"}, 3, 2),
     config({"XON", "HI8", "ASC", "UUE", "FPT"}, {"HI8", "XON", "ASC"}, 9, 0),
     config({"TLN", "HIC", "C32", "XON"}, {}, 0, 1)}

\* Data that look like markers, escapes, their high-bit twins, noise, a
\* telenet break-out and digits of HEX.
Data ==
    {<<DLE, DLE>>, <<152, 88>>, <<charAT, charCR>>, <<charXON, 145>>, <<backslash, 98>>, <<127, 255>>}

FirstMessages ==
    {[typ |-> "INIT"], [typ |-> "END"]}
        \cup {[typ |-> "DATA", offset |-> 64, data |-> d] : d \in Data}
        \cup {[typ |-> "RPOS", offset |-> -2, blocksize |-> 0, id |-> 24],
              [typ |-> "DEVDATA", id |-> 17, device |-> <<67, 79, 78>>, data |-> <<0, 255>>]}
Afterwards == {[typ |-> "IDLE"], [typ |-> "EOF", offset |-> 24]}

\* The prefix is a break, a NUL and a letter that would end a frame.
Asked == {<<221, 223, 97>>}
Decoded == {fmtASC, fmtUUE}
Hits == {Lost, DLE, fmtEnd}

=============================================================================
